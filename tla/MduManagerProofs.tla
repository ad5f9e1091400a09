-------------------------- MODULE MduManagerProofs --------------------------
(***************************************************************************)
(* Theorems about MduManager, for any instances, and however many          *)
(* processes are started and agents and processes crash: types, whose      *)
(* process a kill names, and which process numbers the manager learns.     *)
(***************************************************************************)
EXTENDS MduManager, TLAPS

\* A process that was started has an instance, and no other has.
StartedHaveInstance ==
    \A p \in Pid : processes[p].of # Absent <=> processes[p].state # "unused"

Names(cmd, i) == cmd \in Pid => processes[cmd].of = i

\* Whatever stands for an instance somewhere names its own processes.
NamesOwn ==
    \A i \in Instance :
        /\ Names(rows[i], i) /\ Names(todo[i], i)
        /\ Names(instanceMap[i], i) /\ Names(instanceProcessesMap[i], i)
        /\ Names(deploying[i].result, i)

Running(t) == updates[t].pc \in {"get", "fetched", "find", "write"}

\* A call works on a process, and what it is about to write names one of the
\* same instance.
CallsAgree ==
    \A t \in Thread :
        /\ Running(t) => /\ updates[t].pid \in Pid
                         /\ processes[updates[t].pid].of \in Instance
                         /\ Names(updates[t].cmd, processes[updates[t].pid].of)

\* A command that was parsed and not executed yet holds a report of somebody.
ParsedIsReport ==
    \A p \in Pid : reports[p] = "parsed" =>
        param \in Pid /\ processes[param].of \in Instance

\* A deployment that is past registerAppServerInstance is in the map.
RegisteredIsMapped ==
    \A i \in Instance :
        deploying[i].pc \in {"checking", "updating", "answering"} => instanceMap[i] # Absent

AgentInv ==
    TypeOK /\ StartedHaveInstance /\ NamesOwn /\ CallsAgree /\ ParsedIsReport /\ RegisteredIsMapped

\* NoPid and Absent are neither processes nor each other.
LEMMA Distinct ==
    /\ NoPid \notin Pid /\ Absent \notin Pid /\ Absent # NoPid /\ Absent \notin Instance
    /\ Absent \notin KillCmd
  BY MduManagerAssumption DEF NoPid, Pid, KillCmd

\* The steps of the registration, of the beat and of the inspector.
LEMMA RegistrationKeeps ==
    ASSUME AgentInv,
           \/ Register \/ StartBeat \/ List \/ StartupFails \/ Started
           \/ Beat \/ BeatFails \/ Bind \/ Unregister
           \/ Age \/ Inspect \/ MarkStoped \/ Restart
    PROVE  AgentInv'
  <1>1. /\ rows' = rows /\ processes' = processes
        /\ instanceMap' = instanceMap /\ instanceProcessesMap' = instanceProcessesMap
        /\ param' = param /\ deploying' = deploying /\ reports' = reports /\ updates' = updates
    BY DEF Register, StartBeat, List, StartupFails, Started, Beat, BeatFails, Bind,
           Unregister, Age, Inspect, MarkStoped, Restart, armed, maps, work
  <1>2. \/ todo' = todo \/ todo' = rows \/ todo' = [i \in Instance |-> Absent]
    BY DEF Register, StartBeat, List, StartupFails, Started, Beat, BeatFails, Bind,
           Unregister, Age, Inspect, MarkStoped, Restart, armed, maps, work
  <1>3. phy' \in {Absent, "fresh", "stale", "STOPED"} /\ suspect' \in BOOLEAN
    BY DEF AgentInv, TypeOK, Register, StartBeat, List, StartupFails, Started, Beat, BeatFails,
           Bind, Unregister, Age, Inspect, MarkStoped, Restart, armed, maps, work, Available
  <1>4. agent' \in [pc : {"down", "register", "heart", "list", "start", "up"},
                    port : {"closed", "open", "taken", "left"}, beat : {"off", "on", "dead"}]
    BY DEF AgentInv, TypeOK, Register, StartBeat, List, StartupFails, Started, Beat, BeatFails,
           Bind, Unregister, Age, Inspect, MarkStoped, Restart, armed, maps, work, Retry
  <1>5. trouble' \in 0 .. MaxTrouble
    BY MduManagerAssumption
       DEF AgentInv, TypeOK, Register, StartBeat, List, StartupFails, Started, Beat, BeatFails,
           Bind, Unregister, Age, Inspect, MarkStoped, Restart, Trouble
  <1>6. TypeOK'
    BY <1>1, <1>2, <1>3, <1>4, <1>5 DEF AgentInv, TypeOK
  <1>7. NamesOwn'
    BY <1>1, <1>2, Distinct DEF AgentInv, NamesOwn, Names
  <1> QED
    BY <1>1, <1>6, <1>7 DEF AgentInv, StartedHaveInstance, CallsAgree, Running, Names,
                            ParsedIsReport, RegisteredIsMapped

\* What is known of the instances of processes stays true when one is started
\* or changes its state.
LEMMA OwnersStay ==
    ASSUME AgentInv,
           processes' \in [Pid -> [of : Instance \cup {Absent},
                                   state : {"unused", "starting", "up", "gone"}]],
           \A p \in Pid : processes[p].of # Absent => processes'[p].of = processes[p].of,
           rows' = rows, todo' = todo, instanceProcessesMap' = instanceProcessesMap,
           instanceMap' = instanceMap, param' = param, reports' = reports, updates' = updates,
           \A i \in Instance : deploying'[i].result = deploying[i].result
    PROVE  NamesOwn' /\ CallsAgree' /\ ParsedIsReport'
  <1>1. ASSUME NEW cmd, NEW i \in Instance, Names(cmd, i)
        PROVE  cmd \in Pid => processes'[cmd].of = i
    BY <1>1, Distinct DEF Names
  <1>2. NamesOwn'
    BY <1>1 DEF AgentInv, NamesOwn, Names
  <1>3. CallsAgree'
    BY <1>1, Distinct DEF AgentInv, CallsAgree, Running, Names
  <1>4. ParsedIsReport'
    BY Distinct DEF AgentInv, ParsedIsReport
  <1> QED
    BY <1>2, <1>3, <1>4

\* Processes that come up or die.
LEMMA ProcessesKeep ==
    ASSUME AgentInv, NEW p \in Pid, Serve(p) \/ Die(p)
    PROVE  AgentInv'
  <1>1. /\ rows' = rows /\ todo' = todo /\ phy' = phy /\ suspect' = suspect /\ agent' = agent
        /\ instanceMap' = instanceMap /\ instanceProcessesMap' = instanceProcessesMap
        /\ param' = param /\ deploying' = deploying /\ reports' = reports /\ updates' = updates
    BY DEF Serve, Die, armed, maps, work
  <1>2. PICK state \in {"up", "gone"} :
           processes[p].state # "unused" /\ processes' = [processes EXCEPT ![p].state = state]
    BY DEF Serve, Die
  <1>3. trouble' \in 0 .. MaxTrouble
    BY MduManagerAssumption DEF AgentInv, TypeOK, Serve, Die, Trouble
  <1>4. /\ processes' \in [Pid -> [of : Instance \cup {Absent},
                                   state : {"unused", "starting", "up", "gone"}]]
        /\ \A q \in Pid : processes'[q].of = processes[q].of
        /\ StartedHaveInstance'
    BY <1>2 DEF AgentInv, TypeOK, StartedHaveInstance
  <1>5. TypeOK'
    BY <1>1, <1>3, <1>4 DEF AgentInv, TypeOK
  <1>6. NamesOwn' /\ CallsAgree' /\ ParsedIsReport'
    BY <1>1, <1>4, OwnersStay
  <1> QED
    BY <1>1, <1>4, <1>5, <1>6 DEF AgentInv, RegisteredIsMapped

\* Starting a process gives it an instance it did not have.
LEMMA StartGivesInstance ==
    ASSUME AgentInv, NEW i \in Instance, Start(i)
    PROVE  /\ processes' \in [Pid -> [of : Instance \cup {Absent},
                                      state : {"unused", "starting", "up", "gone"}]]
           /\ \A p \in Pid : processes[p].of # Absent => processes'[p].of = processes[p].of
           /\ StartedHaveInstance'
  <1>1. PICK p \in Pid : /\ processes[p].state = "unused"
                         /\ processes' = [processes EXCEPT ![p] = [of |-> i, state |-> "starting"]]
    BY DEF Start, Unused
  <1>2. processes[p].of = Absent
    BY <1>1 DEF AgentInv, StartedHaveInstance
  <1> QED
    BY <1>1, <1>2, Distinct DEF AgentInv, TypeOK, StartedHaveInstance

\* A deployment starts a process of its own instance.
LEMMA DeployKeeps ==
    ASSUME AgentInv, NEW i \in Instance, Deploy(i)
    PROVE  AgentInv'
  <1>1. /\ rows' = rows /\ todo' = todo /\ phy' = phy /\ suspect' = suspect /\ agent' = agent
        /\ instanceMap' = instanceMap /\ instanceProcessesMap' = instanceProcessesMap
        /\ param' = param /\ reports' = reports /\ updates' = updates /\ trouble' = trouble
        /\ deploying' = [deploying EXCEPT ![i].pc = "waiting"]
        /\ Start(i)
    BY DEF Deploy, Go, armed, maps
  <1>2. /\ deploying' \in [Instance -> [pc : DeployPc, result : KillCmd, missing : BOOLEAN]]
        /\ \A j \in Instance : deploying'[j].result = deploying[j].result
        /\ RegisteredIsMapped'
    BY <1>1 DEF AgentInv, TypeOK, DeployPc, RegisteredIsMapped
  <1>3. TypeOK' /\ StartedHaveInstance'
    BY <1>1, <1>2, StartGivesInstance DEF AgentInv, TypeOK
  <1>4. NamesOwn' /\ CallsAgree' /\ ParsedIsReport'
    BY <1>1, <1>2, StartGivesInstance, OwnersStay
  <1> QED
    BY <1>2, <1>3, <1>4 DEF AgentInv

\* What was listed goes into the map; it names processes of the instance.
LEMMA StartupKeeps ==
    ASSUME AgentInv, NEW i \in Instance, Startup(i)
    PROVE  AgentInv'
  <1>1. /\ rows' = rows /\ phy' = phy /\ suspect' = suspect /\ agent' = agent
        /\ instanceProcessesMap' = instanceProcessesMap /\ deploying' = deploying
        /\ param' = param /\ reports' = reports /\ updates' = updates /\ trouble' = trouble
        /\ todo' = [todo EXCEPT ![i] = Absent] /\ todo[i] # Absent
    BY DEF Startup, armed, work
  <1>2. \/ processes' = processes /\ instanceMap' = instanceMap
        \/ Start(i) /\ instanceMap' = [instanceMap EXCEPT ![i] = todo[i]]
    BY DEF Startup
  <1>3. /\ processes' \in [Pid -> [of : Instance \cup {Absent},
                                   state : {"unused", "starting", "up", "gone"}]]
        /\ \A p \in Pid : processes[p].of # Absent => processes'[p].of = processes[p].of
        /\ StartedHaveInstance'
    BY <1>2, StartGivesInstance DEF AgentInv, TypeOK, StartedHaveInstance
  <1>4. TypeOK'
    BY <1>1, <1>2, <1>3 DEF AgentInv, TypeOK
  <1>5. ASSUME NEW cmd, NEW j \in Instance, Names(cmd, j)
        PROVE  cmd \in Pid => processes'[cmd].of = j
    BY <1>3, <1>5, Distinct DEF Names
  <1>6. \A j \in Instance : instanceMap'[j] \in {instanceMap[j], todo[j]}
    BY <1>2 DEF AgentInv, TypeOK
  <1>7. \A j \in Instance : todo'[j] \in {todo[j], Absent}
    BY <1>1 DEF AgentInv, TypeOK
  <1>8. NamesOwn'
    <2> SUFFICES ASSUME NEW j \in Instance
                 PROVE  \A cmd \in {rows[j], todo'[j], instanceMap'[j], instanceProcessesMap[j],
                                    deploying[j].result} \cap Pid : processes'[cmd].of = j
      BY <1>1 DEF NamesOwn, Names
    <2>1. \A cmd \in {rows[j], todo[j], instanceMap[j], instanceProcessesMap[j],
                      deploying[j].result} : Names(cmd, j)
      BY DEF AgentInv, NamesOwn
    <2>2. \A cmd \in {rows[j], todo'[j], instanceMap'[j], instanceProcessesMap[j],
                      deploying[j].result} \cap Pid : Names(cmd, j)
      BY <2>1, <1>6, <1>7, Distinct
    <2> QED
      BY <2>2, <1>5
  <1>9. CallsAgree'
    BY <1>1, <1>3, <1>5, Distinct DEF AgentInv, CallsAgree, Running, Names
  <1>10. ParsedIsReport'
    BY <1>1, <1>3, Distinct DEF AgentInv, ParsedIsReport
  <1>11. RegisteredIsMapped'
    BY <1>1, <1>2 DEF AgentInv, TypeOK, RegisteredIsMapped
  <1> QED
    BY <1>3, <1>4, <1>8, <1>9, <1>10, <1>11 DEF AgentInv

\* The rest of the steps leave the processes alone.  When they leave the rows
\* and what is listed alone too, it is enough to look at what they write.
LEMMA NamesStay ==
    ASSUME AgentInv, processes' = processes, TypeOK',
           \A i \in Instance : /\ Names(rows'[i], i) /\ Names(todo'[i], i)
                               /\ Names(instanceMap'[i], i) /\ Names(instanceProcessesMap'[i], i)
                               /\ Names(deploying'[i].result, i),
           CallsAgree', ParsedIsReport', RegisteredIsMapped'
    PROVE  AgentInv'
  BY DEF AgentInv, NamesOwn, Names, StartedHaveInstance

\* The report of a process that runs.
LEMMA ReportKeeps ==
    ASSUME AgentInv, NEW p \in Pid, Report(p)
    PROVE  AgentInv'
  <1>1. /\ rows' = rows /\ phy' = phy /\ suspect' = suspect /\ agent' = agent /\ todo' = todo
        /\ instanceProcessesMap' = instanceProcessesMap /\ deploying' = deploying
        /\ processes' = processes /\ instanceMap' = instanceMap
        /\ updates' = updates /\ trouble' = trouble
        /\ param' = p /\ reports' = [reports EXCEPT ![p] = "parsed"]
    BY DEF Report, armed
  <1>2. TypeOK'
    BY <1>1 DEF AgentInv, TypeOK, KillCmd
  <1>3. processes[p].of \in Instance
    <2>1. processes[p].state # "unused"
      BY DEF Report
    <2> QED
      BY <2>1 DEF AgentInv, TypeOK, StartedHaveInstance
  <1>4. ParsedIsReport'
    BY <1>1, <1>3 DEF ParsedIsReport
  <1> QED
    BY <1>1, <1>2, <1>4
       DEF AgentInv, NamesOwn, Names, StartedHaveInstance, CallsAgree, Running, RegisteredIsMapped

\* A report that does not reach the agent changes nothing there.
LEMMA ReportFailsKeeps ==
    ASSUME AgentInv, NEW p \in Pid, ReportFails(p)
    PROVE  AgentInv'
  <1>1. /\ rows' = rows /\ phy' = phy /\ suspect' = suspect /\ agent' = agent /\ todo' = todo
        /\ instanceProcessesMap' = instanceProcessesMap /\ deploying' = deploying
        /\ processes' = processes /\ instanceMap' = instanceMap
        /\ updates' = updates /\ trouble' = trouble /\ param' = param
        /\ reports' = [reports EXCEPT ![p] = "ended"]
    BY DEF ReportFails, armed, maps
  <1>2. TypeOK'
    BY <1>1 DEF AgentInv, TypeOK
  <1>3. ParsedIsReport'
    BY <1>1 DEF AgentInv, TypeOK, ParsedIsReport
  <1> QED
    BY <1>1, <1>2, <1>3
       DEF AgentInv, NamesOwn, Names, StartedHaveInstance, CallsAgree, Running, RegisteredIsMapped

\* A call of updateProcessInfo begins.
LEMMA EnterKeepsCalls ==
    ASSUME AgentInv, NEW t \in Thread, NEW p \in Pid, processes[p].of \in Instance,
           Enter(t, p), processes' = processes
    PROVE  /\ updates' \in [Thread -> [pc : UpdatePc, pid : KillCmd,
                                      cmd : KillCmd, missing : BOOLEAN]]
           /\ CallsAgree'
  <1>1. updates' = [updates EXCEPT ![t] =
                      [pc |-> "get", pid |-> p, cmd |-> NoPid, missing |-> FALSE]]
    BY DEF Enter, Call
  <1>2. updates' \in [Thread -> [pc : UpdatePc, pid : KillCmd, cmd : KillCmd, missing : BOOLEAN]]
    BY <1>1 DEF AgentInv, TypeOK, UpdatePc, KillCmd
  <1> QED
    BY <1>1, <1>2, Distinct DEF AgentInv, TypeOK, CallsAgree, Running, Names

\* What is executed is a report of somebody.
LEMMA ExecuteKeeps ==
    ASSUME AgentInv, NEW p \in Pid, Execute(p)
    PROVE  AgentInv'
  <1> DEFINE i == processes[param].of
  <1>1. /\ rows' = rows /\ phy' = phy /\ suspect' = suspect /\ agent' = agent /\ todo' = todo
        /\ instanceMap' = instanceMap /\ deploying' = deploying
        /\ processes' = processes /\ trouble' = trouble
        /\ reports' = [reports EXCEPT ![p] = "ended"] /\ reports[p] = "parsed"
        /\ instanceProcessesMap' = [instanceProcessesMap EXCEPT ![i] = param]
        /\ param' = IF \E r \in Pid \ {p} : reports[r] = "parsed" THEN param ELSE NoPid
        /\ Enter(<<"report", p>>, param)
    BY DEF Execute, armed, InstanceOf
  <1>2. param \in Pid /\ i \in Instance
    BY <1>1 DEF AgentInv, ParsedIsReport
  <1>3. <<"report", p>> \in Thread
    BY DEF Thread
  <1>4. /\ updates' \in [Thread -> [pc : UpdatePc, pid : KillCmd, cmd : KillCmd, missing : BOOLEAN]]
        /\ CallsAgree'
    BY <1>1, <1>2, <1>3, EnterKeepsCalls
  <1>5. TypeOK'
    BY <1>1, <1>2, <1>4 DEF AgentInv, TypeOK, KillCmd
  <1>6. ParsedIsReport'
    BY <1>1 DEF AgentInv, TypeOK, ParsedIsReport
  <1>7. \A j \in Instance : Names(instanceProcessesMap'[j], j)
    BY <1>1, <1>2 DEF AgentInv, TypeOK, NamesOwn, Names
  <1> QED
    BY <1>1, <1>4, <1>5, <1>6, <1>7, NamesStay DEF AgentInv, NamesOwn, RegisteredIsMapped

\* Every call that is written down works on a process of an instance, and
\* carries a command that names one of the same instance.
LEMMA CallKeeps ==
    ASSUME AgentInv, processes' = processes, NEW t \in Thread,
           NEW u \in [pc : UpdatePc, pid : KillCmd, cmd : KillCmd, missing : BOOLEAN],
           updates' = [updates EXCEPT ![t] = u],
           u.pc \in {"get", "fetched", "find", "write"} =>
               /\ u.pid \in Pid /\ processes[u.pid].of \in Instance
               /\ Names(u.cmd, processes[u.pid].of)
    PROVE  /\ updates' \in [Thread -> [pc : UpdatePc, pid : KillCmd,
                                      cmd : KillCmd, missing : BOOLEAN]]
           /\ CallsAgree'
  <1>1. updates' \in [Thread -> [pc : UpdatePc, pid : KillCmd, cmd : KillCmd, missing : BOOLEAN]]
    BY DEF AgentInv, TypeOK
  <1>2. \A s \in Thread : updates'[s] = IF s = t THEN u ELSE updates[s]
    BY DEF AgentInv, TypeOK
  <1> QED
    BY <1>1, <1>2 DEF AgentInv, CallsAgree, Running, Names

\* What Complete puts into the map and into the call.
LEMMA CompleteKeeps ==
    ASSUME AgentInv, processes' = processes, NEW t \in Thread, NEW cmd \in KillCmd,
           NEW p \in Pid, processes[p].of \in Instance, Names(cmd, processes[p].of),
           Complete(t, cmd, p)
    PROVE  /\ instanceMap' \in [Instance -> KillCmd \cup {Absent}]
           /\ \A i \in Instance : Names(instanceMap'[i], i)
           /\ \A i \in Instance : instanceMap[i] # Absent => instanceMap'[i] # Absent
           /\ updates' \in [Thread -> [pc : UpdatePc, pid : KillCmd,
                                      cmd : KillCmd, missing : BOOLEAN]]
           /\ CallsAgree'
  <1>1. PICK new \in Pid : new = Format(cmd, p)
    BY DEF Format, KillCmd
  <1>2. processes[new].of = processes[p].of
    BY <1>1 DEF Format, Names, KillCmd
  <1>3. PICK i \in Instance : i = processes[p].of
    OBVIOUS
  <1>4. /\ instanceMap' = [instanceMap EXCEPT ![i] = new]
        /\ updates' = [updates EXCEPT ![t] = Call("find", p, new)]
    BY <1>1, <1>3 DEF Complete, InstanceOf
  <1>5. /\ instanceMap' \in [Instance -> KillCmd \cup {Absent}]
        /\ \A j \in Instance : Names(instanceMap'[j], j)
        /\ \A j \in Instance : instanceMap[j] # Absent => instanceMap'[j] # Absent
    BY <1>2, <1>3, <1>4, Distinct DEF AgentInv, TypeOK, NamesOwn, Names, KillCmd
  <1>6. PICK u \in [pc : UpdatePc, pid : KillCmd, cmd : KillCmd, missing : BOOLEAN] :
           u = [pc |-> "find", pid |-> p, cmd |-> new, missing |-> FALSE]
    BY DEF UpdatePc, KillCmd
  <1>7. updates' = [updates EXCEPT ![t] = u]
    BY <1>4, <1>6 DEF Call
  <1>8. Names(u.cmd, processes[u.pid].of)
    BY <1>2, <1>6 DEF Names
  <1> QED
    BY <1>5, <1>6, <1>7, <1>8, CallKeeps

\* An answer that is fetched, and the command that is completed from it, are for the
\* instance of the call.
LEMMA CallsKeep ==
    ASSUME AgentInv, NEW t \in Thread,
           GetInstance(t) \/ CompleteFetched(t)
    PROVE  AgentInv'
  <1> DEFINE u == updates[t]
  <1>1. /\ rows' = rows /\ phy' = phy /\ suspect' = suspect /\ agent' = agent /\ todo' = todo
        /\ instanceProcessesMap' = instanceProcessesMap /\ deploying' = deploying
        /\ processes' = processes /\ param' = param /\ reports' = reports /\ trouble' = trouble
        /\ Running(t)
    BY DEF GetInstance, CompleteFetched, armed, Running
  <1>2. /\ u \in [pc : UpdatePc, pid : KillCmd, cmd : KillCmd, missing : BOOLEAN]
        /\ u.pid \in Pid /\ processes[u.pid].of \in Instance /\ u.cmd \in KillCmd
        /\ Names(u.cmd, processes[u.pid].of)
    BY <1>1 DEF AgentInv, TypeOK, CallsAgree
  <1>3. PICK i \in Instance : i = processes[u.pid].of
    BY <1>2
  <1>4. \/ \E cmd \in KillCmd : Names(cmd, i) /\ Complete(t, cmd, u.pid)
        \/ /\ instanceMap' = instanceMap
           /\ updates' = [updates EXCEPT ![t] = Idle]
        \/ /\ instanceMap' = instanceMap /\ rows[i] # Absent
           /\ updates' = [updates EXCEPT ![t] = Call("fetched", u.pid, rows[i])]
    <2>1. CASE CompleteFetched(t)
      BY <2>1, <1>2, <1>3 DEF CompleteFetched
    <2>2. CASE GetInstance(t) /\ instanceMap[i] # Absent
      BY <2>2, <1>2, <1>3 DEF GetInstance, InstanceOf, AgentInv, TypeOK, NamesOwn
    <2>3. CASE GetInstance(t) /\ instanceMap[i] = Absent
      BY <2>3, <1>2, <1>3 DEF GetInstance, InstanceOf
    <2> QED
      BY <2>1, <2>2, <2>3
  <1>5. /\ instanceMap' \in [Instance -> KillCmd \cup {Absent}]
        /\ \A j \in Instance : Names(instanceMap'[j], j)
        /\ \A j \in Instance : instanceMap[j] # Absent => instanceMap'[j] # Absent
        /\ updates' \in [Thread -> [pc : UpdatePc, pid : KillCmd,
                                   cmd : KillCmd, missing : BOOLEAN]]
        /\ CallsAgree'
    <2> HIDE DEF u
    <2>1. CASE \E cmd \in KillCmd : Names(cmd, i) /\ Complete(t, cmd, u.pid)
      BY <2>1, <1>1, <1>2, <1>3, CompleteKeeps
    <2>2. ASSUME NEW new \in [pc : UpdatePc, pid : KillCmd, cmd : KillCmd, missing : BOOLEAN],
                 instanceMap' = instanceMap, updates' = [updates EXCEPT ![t] = new],
                 new.pc \in {"get", "fetched", "find", "write"} =>
                     new.pid = u.pid /\ Names(new.cmd, i)
          PROVE  /\ updates' \in [Thread -> [pc : UpdatePc, pid : KillCmd,
                                            cmd : KillCmd, missing : BOOLEAN]]
                 /\ CallsAgree'
      BY <2>2, <1>1, <1>2, <1>3, CallKeeps
    <2>3. Idle \in [pc : UpdatePc, pid : KillCmd, cmd : KillCmd, missing : BOOLEAN]
          /\ Idle.pc = "idle"
      BY DEF Idle, Call, UpdatePc, KillCmd
    <2>4. CASE instanceMap' = instanceMap /\ updates' = [updates EXCEPT ![t] = Idle]
      BY <2>2, <2>3, <2>4 DEF AgentInv, TypeOK, NamesOwn
    <2>5. ASSUME rows[i] # Absent
          PROVE  /\ Call("fetched", u.pid, rows[i]) \in
                       [pc : UpdatePc, pid : KillCmd, cmd : KillCmd, missing : BOOLEAN]
                 /\ Call("fetched", u.pid, rows[i]).pid = u.pid
                 /\ Call("fetched", u.pid, rows[i]).cmd = rows[i]
                 /\ Names(rows[i], i)
      BY <2>5, <1>2 DEF Call, UpdatePc, AgentInv, TypeOK, NamesOwn
    <2>6. CASE /\ instanceMap' = instanceMap /\ rows[i] # Absent
               /\ updates' = [updates EXCEPT ![t] = Call("fetched", u.pid, rows[i])]
      BY <2>2, <2>5, <2>6 DEF AgentInv, TypeOK, NamesOwn
    <2> QED
      BY <2>1, <2>4, <2>6, <1>4
  <1>6. TypeOK'
    BY <1>1, <1>5 DEF AgentInv, TypeOK
  <1> QED
    BY <1>1, <1>5, <1>6, NamesStay DEF AgentInv, NamesOwn, ParsedIsReport, RegisteredIsMapped

\* A table of kill commands in which one row is written.
LEMMA SetOneRow ==
    ASSUME NEW table \in [Instance -> KillCmd \cup {Absent}],
           \A i \in Instance : Names(table[i], i),
           NEW of \in Instance, NEW cmd \in KillCmd, Names(cmd, of)
    PROVE  /\ [table EXCEPT ![of] = cmd] \in [Instance -> KillCmd \cup {Absent}]
           /\ \A i \in Instance : Names([table EXCEPT ![of] = cmd][i], i)
           /\ \A i \in Instance : table[i] # Absent => [table EXCEPT ![of] = cmd][i] # Absent
  <1>1. cmd # Absent
    BY Distinct
  <1> QED
    BY <1>1

\* The records of the calls and of the deployments have their types.
LEMMA CallAndDeploymentTypes ==
    ASSUME AgentInv
    PROVE  /\ \A t \in Thread : updates[t] \in [pc : UpdatePc, pid : KillCmd,
                                               cmd : KillCmd, missing : BOOLEAN]
           /\ \A i \in Instance : deploying[i] \in [pc : DeployPc, result : KillCmd,
                                                   missing : BOOLEAN]
  BY DEF AgentInv, TypeOK

\* Looking for the row of an instance changes the call only.
LEMMA FindRowKeeps ==
    ASSUME AgentInv, NEW t \in Thread, FindRow(t)
    PROVE  AgentInv'
  <1>1. /\ rows' = rows /\ phy' = phy /\ suspect' = suspect /\ agent' = agent /\ todo' = todo
        /\ instanceMap' = instanceMap /\ instanceProcessesMap' = instanceProcessesMap
        /\ deploying' = deploying /\ processes' = processes /\ param' = param
        /\ reports' = reports /\ trouble' = trouble /\ Running(t)
    BY DEF FindRow, armed, maps, Running
  <1>2. PICK missing \in BOOLEAN :
           updates' = [updates EXCEPT ![t] = [@ EXCEPT !.pc = "write", !.missing = missing]]
    BY DEF FindRow
  <1>3. PICK u \in [pc : UpdatePc, pid : KillCmd, cmd : KillCmd, missing : BOOLEAN] :
           /\ u = [updates[t] EXCEPT !.pc = "write", !.missing = missing]
           /\ u.pid = updates[t].pid /\ u.cmd = updates[t].cmd
    <2>1. PICK old \in [pc : UpdatePc, pid : KillCmd, cmd : KillCmd, missing : BOOLEAN] :
             old = updates[t]
      BY CallAndDeploymentTypes
    <2> DEFINE v == [old EXCEPT !.pc = "write", !.missing = missing]
    <2>2. /\ v \in [pc : UpdatePc, pid : KillCmd, cmd : KillCmd, missing : BOOLEAN]
          /\ v.pid = old.pid /\ v.cmd = old.cmd
      BY DEF UpdatePc
    <2> QED
      BY <2>1, <2>2
  <1>4. updates' = [updates EXCEPT ![t] = u]
    BY <1>2, <1>3
  <1>5. /\ updates' \in [Thread -> [pc : UpdatePc, pid : KillCmd, cmd : KillCmd, missing : BOOLEAN]]
        /\ CallsAgree'
    <2>1. /\ u.pid \in Pid /\ processes[u.pid].of \in Instance
          /\ Names(u.cmd, processes[u.pid].of)
      BY <1>1, <1>3 DEF AgentInv, CallsAgree
    <2> QED
      BY <2>1, <1>1, <1>4, CallKeeps
  <1>6. TypeOK'
    BY <1>1, <1>5 DEF AgentInv, TypeOK
  <1> QED
    BY <1>1, <1>5, <1>6, NamesStay DEF AgentInv, NamesOwn, ParsedIsReport, RegisteredIsMapped

\* A call that an exception ends still names its process.
LEMMA FailType ==
    ASSUME AgentInv, NEW t \in Thread, Fail(t)
    PROVE  \E u \in [pc : UpdatePc, pid : KillCmd, cmd : KillCmd, missing : BOOLEAN] :
              /\ u.pc = "failed" /\ u.pid = updates[t].pid
              /\ updates' = [updates EXCEPT ![t] = u]
  <1>1. PICK pid \in KillCmd : pid = updates[t].pid
    BY CallAndDeploymentTypes
  <1>2. Call("failed", pid, NoPid) \in [pc : UpdatePc, pid : KillCmd, cmd : KillCmd, missing : BOOLEAN]
    BY DEF Call, UpdatePc, KillCmd
  <1>3. Call("failed", pid, NoPid).pc = "failed" /\ Call("failed", pid, NoPid).pid = pid
    BY DEF Call
  <1> QED
    BY <1>1, <1>2, <1>3 DEF Fail

\* A thread without a call.
LEMMA IdleType == Idle \in [pc : UpdatePc, pid : KillCmd, cmd : KillCmd, missing : BOOLEAN] /\ Idle.pc = "idle" /\ Idle.pid = NoPid
  BY DEF Idle, Call, UpdatePc, KillCmd

\* The bound on what fails is kept.
LEMMA TroubleType ==
    ASSUME AgentInv, trouble' = trouble \/ Trouble
    PROVE  trouble' \in 0 .. MaxTrouble
  BY MduManagerAssumption DEF AgentInv, TypeOK, Trouble

\* A call that fails changes nothing else.
LEMMA CallFailsKeeps ==
    ASSUME AgentInv, NEW t \in Thread, CallFails(t)
    PROVE  AgentInv'
  <1>1. /\ rows' = rows /\ phy' = phy /\ suspect' = suspect /\ agent' = agent /\ todo' = todo
        /\ instanceMap' = instanceMap /\ instanceProcessesMap' = instanceProcessesMap
        /\ deploying' = deploying /\ processes' = processes /\ param' = param
        /\ reports' = reports /\ Trouble /\ Fail(t)
    BY DEF CallFails, armed, maps
  <1>2. PICK u \in [pc : UpdatePc, pid : KillCmd, cmd : KillCmd, missing : BOOLEAN] :
           u.pc = "failed" /\ updates' = [updates EXCEPT ![t] = u]
    BY <1>1, FailType
  <1>3. /\ updates' \in [Thread -> [pc : UpdatePc, pid : KillCmd, cmd : KillCmd, missing : BOOLEAN]]
        /\ CallsAgree'
    BY <1>1, <1>2, CallKeeps
  <1>4. TypeOK'
    BY <1>1, <1>3, TroubleType DEF AgentInv, TypeOK
  <1> QED
    BY <1>1, <1>3, <1>4, NamesStay DEF AgentInv, NamesOwn, ParsedIsReport, RegisteredIsMapped

\* What is written names a process of the instance whose row it is.
LEMMA WriteRowKeeps ==
    ASSUME AgentInv, NEW t \in Thread, WriteRow(t)
    PROVE  AgentInv'
  <1> DEFINE u == updates[t]
  <1>1. /\ phy' = phy /\ suspect' = suspect /\ agent' = agent /\ todo' = todo
        /\ instanceMap' = instanceMap /\ instanceProcessesMap' = instanceProcessesMap
        /\ deploying' = deploying /\ processes' = processes /\ param' = param
        /\ reports' = reports /\ (trouble' = trouble \/ Trouble) /\ Running(t)
    BY DEF WriteRow, maps, Running
  <1>2. /\ u.pid \in Pid /\ processes[u.pid].of \in Instance /\ u.cmd \in KillCmd
        /\ Names(u.cmd, processes[u.pid].of)
    BY <1>1 DEF AgentInv, TypeOK, CallsAgree
  <1>3. rows' = rows \/ rows' = [rows EXCEPT ![processes[u.pid].of] = u.cmd]
    BY DEF WriteRow, InstanceOf
  <1>4. /\ rows' \in [Instance -> KillCmd \cup {Absent}]
        /\ \A i \in Instance : Names(rows'[i], i)
    <2>1. /\ rows \in [Instance -> KillCmd \cup {Absent}]
          /\ \A i \in Instance : Names(rows[i], i)
      BY DEF AgentInv, TypeOK, NamesOwn
    <2>2. PICK of \in Instance, cmd \in KillCmd :
             of = processes[u.pid].of /\ cmd = u.cmd /\ Names(cmd, of)
      BY <1>2
    <2>3. CASE rows' = [rows EXCEPT ![of] = cmd]
      <3> HIDE DEF u
      <3> QED
        BY <2>1, <2>2, <2>3, SetOneRow
    <2> QED
      BY <1>2, <1>3, <2>1, <2>2, <2>3 DEF Names
  <1>5. PICK new \in [pc : UpdatePc, pid : KillCmd, cmd : KillCmd, missing : BOOLEAN] :
           new.pc \in {"idle", "failed"} /\ updates' = [updates EXCEPT ![t] = new]
    <2>1. CASE updates' = [updates EXCEPT ![t] = Idle]
      BY <2>1, IdleType
    <2>2. CASE Fail(t)
      BY <2>2, FailType
    <2> QED
      BY <2>1, <2>2 DEF WriteRow
  <1>6. /\ updates' \in [Thread -> [pc : UpdatePc, pid : KillCmd, cmd : KillCmd, missing : BOOLEAN]]
        /\ CallsAgree'
    BY <1>1, <1>5, CallKeeps
  <1>7. TypeOK'
    BY <1>1, <1>4, <1>6, TroubleType DEF AgentInv, TypeOK
  <1> QED
    BY <1>1, <1>4, <1>6, <1>7, NamesStay DEF AgentInv, NamesOwn, ParsedIsReport, RegisteredIsMapped

\* The steps of a deployment that no call of updateProcessInfo takes.
LEMMA DeploymentKeeps ==
    ASSUME AgentInv, NEW i \in Instance,
           \/ RegisterInstance(i) \/ CheckProcess(i) \/ Updated(i)
           \/ Answer(i) \/ FindInstance(i) \/ InsertInstance(i)
    PROVE  AgentInv'
  <1>1. /\ phy' = phy /\ suspect' = suspect /\ agent' = agent /\ todo' = todo
        /\ instanceProcessesMap' = instanceProcessesMap /\ processes' = processes
        /\ param' = param /\ reports' = reports /\ trouble' = trouble
    BY DEF RegisterInstance, CheckProcess, Updated, Answer, FindInstance, InsertInstance,
           armed, maps
  <1>2. \/ instanceMap' = instanceMap
        \/ instanceMap[i] = Absent /\ instanceMap' = [instanceMap EXCEPT ![i] = NoPid]
    <2>1. CASE RegisterInstance(i)
      <3>1. instanceMap' = [instanceMap EXCEPT ![i] = IF @ = Absent THEN NoPid ELSE @]
        BY <2>1 DEF RegisterInstance
      <3> QED
        BY <3>1 DEF AgentInv, TypeOK
    <2> QED
      BY <2>1 DEF CheckProcess, Updated, Answer, FindInstance, InsertInstance, maps
  <1>3. PICK d \in [pc : DeployPc, result : KillCmd, missing : BOOLEAN] :
           /\ deploying' = [deploying EXCEPT ![i] = d]
           /\ Names(d.result, i)
           /\ d.pc \in {"checking", "updating", "answering"} => instanceMap'[i] # Absent
    <2>1. ASSUME NEW from \in DeployPc, NEW to \in DeployPc, Go(i, from, to),
                 to \in {"checking", "updating", "answering"} => instanceMap'[i] # Absent
          PROVE  \E d \in [pc : DeployPc, result : KillCmd, missing : BOOLEAN] :
                    /\ deploying' = [deploying EXCEPT ![i] = d]
                    /\ Names(d.result, i)
                    /\ d.pc \in {"checking", "updating", "answering"} => instanceMap'[i] # Absent
      <3>1. /\ [deploying[i] EXCEPT !.pc = to] \in [pc : DeployPc, result : KillCmd, missing : BOOLEAN]
            /\ [deploying[i] EXCEPT !.pc = to].pc = to
            /\ Names([deploying[i] EXCEPT !.pc = to].result, i)
        BY DEF AgentInv, TypeOK, NamesOwn
      <3>2. deploying' = [deploying EXCEPT ![i] = [deploying[i] EXCEPT !.pc = to]]
        BY <2>1 DEF Go
      <3> QED
        BY <3>1, <3>2, <2>1
    <2>2. CASE RegisterInstance(i)
      <3>1. Go(i, "waiting", "checking")
        BY <2>2 DEF RegisterInstance
      <3>2. instanceMap' = [instanceMap EXCEPT ![i] = IF @ = Absent THEN NoPid ELSE @]
        BY <2>2 DEF RegisterInstance
      <3>3. instanceMap'[i] # Absent
        BY <3>2, Distinct DEF AgentInv, TypeOK
      <3> QED
        BY <3>1, <3>3, <2>1 DEF DeployPc
    <2>3. CASE CheckProcess(i)
      <3>1. instanceMap' = instanceMap /\ deploying[i].pc = "checking"
        BY <2>3 DEF CheckProcess, maps, Go
      <3>2. instanceMap'[i] # Absent
        BY <3>1 DEF AgentInv, RegisteredIsMapped
      <3>3. Go(i, "checking", "answering") \/ Go(i, "checking", "updating")
        BY <2>3 DEF CheckProcess
      <3> QED
        BY <3>2, <3>3, <2>1 DEF DeployPc
    <2>4. CASE Updated(i)
      <3>1. instanceMap' = instanceMap /\ deploying[i].pc = "updating"
        BY <2>4 DEF Updated, maps, Go
      <3>2. instanceMap'[i] # Absent
        BY <3>1 DEF AgentInv, RegisteredIsMapped
      <3>3. Go(i, "updating", "answering") \/ Go(i, "updating", "ended")
        BY <2>4 DEF Updated
      <3> QED
        BY <3>2, <3>3, <2>1 DEF DeployPc
    <2>5. CASE Answer(i)
      <3>1. /\ deploying[i].pc = "answering"
            /\ deploying' = [deploying EXCEPT ![i].pc = "find", ![i].result = instanceMap[i]]
        BY <2>5 DEF Answer
      <3>2. instanceMap[i] \in KillCmd /\ Names(instanceMap[i], i)
        BY <3>1 DEF AgentInv, TypeOK, RegisteredIsMapped, NamesOwn
      <3> DEFINE new == [deploying[i] EXCEPT !.pc = "find", !.result = instanceMap[i]]
      <3>3. /\ new \in [pc : DeployPc, result : KillCmd, missing : BOOLEAN]
            /\ new.pc = "find" /\ new.result = instanceMap[i]
        BY <3>2, CallAndDeploymentTypes DEF DeployPc
      <3>4. deploying' = [deploying EXCEPT ![i] = new]
        BY <3>1
      <3> QED
        BY <3>2, <3>3, <3>4
    <2>6. CASE FindInstance(i)
      <3>1. PICK missing \in BOOLEAN :
               deploying' = [deploying EXCEPT ![i].pc = "insert", ![i].missing = missing]
        BY <2>6 DEF FindInstance
      <3> DEFINE new == [deploying[i] EXCEPT !.pc = "insert", !.missing = missing]
      <3>2. /\ new \in [pc : DeployPc, result : KillCmd, missing : BOOLEAN]
            /\ new.pc = "insert" /\ Names(new.result, i)
        <4>1. PICK d \in [pc : DeployPc, result : KillCmd, missing : BOOLEAN] :
                 d = deploying[i] /\ Names(d.result, i)
          BY CallAndDeploymentTypes DEF AgentInv, NamesOwn
        <4>2. /\ [d EXCEPT !.pc = "insert", !.missing = missing]
                   \in [pc : DeployPc, result : KillCmd, missing : BOOLEAN]
              /\ [d EXCEPT !.pc = "insert", !.missing = missing].pc = "insert"
              /\ [d EXCEPT !.pc = "insert", !.missing = missing].result = d.result
          BY DEF DeployPc
        <4> QED
          BY <4>1, <4>2
      <3>3. deploying' = [deploying EXCEPT ![i] = new]
        BY <3>1
      <3> QED
        BY <3>2, <3>3
    <2>7. CASE InsertInstance(i)
      <3> DEFINE new == [pc |-> "ended", result |-> NoPid, missing |-> FALSE]
      <3>2. deploying' = [deploying EXCEPT ![i] = new]
        BY <2>7 DEF InsertInstance, Deployment
      <3>3. new \in [pc : DeployPc, result : KillCmd, missing : BOOLEAN]
        BY DEF DeployPc, KillCmd
      <3> QED
        BY <3>2, <3>3, Distinct DEF Names
    <2> QED
      BY <2>2, <2>3, <2>4, <2>5, <2>6, <2>7
  <1>4. /\ instanceMap' \in [Instance -> KillCmd \cup {Absent}]
        /\ \A j \in Instance : Names(instanceMap'[j], j)
        /\ \A j \in Instance : instanceMap[j] # Absent => instanceMap'[j] # Absent
    <2>1. /\ instanceMap \in [Instance -> KillCmd \cup {Absent}]
          /\ \A j \in Instance : Names(instanceMap[j], j)
      BY DEF AgentInv, TypeOK, NamesOwn
    <2> QED
      BY <1>2, <2>1, Distinct, SetOneRow DEF Names, KillCmd
  <1>5. /\ deploying' \in [Instance -> [pc : DeployPc, result : KillCmd, missing : BOOLEAN]]
        /\ \A j \in Instance : Names(deploying'[j].result, j)
        /\ RegisteredIsMapped'
    BY <1>3, <1>4 DEF AgentInv, TypeOK, NamesOwn, RegisteredIsMapped
  <1>6. /\ rows' \in [Instance -> KillCmd \cup {Absent}]
        /\ \A j \in Instance : Names(rows'[j], j)
    <2>1. rows' = rows \/ rows' = [rows EXCEPT ![i] = deploying[i].result]
      BY DEF RegisterInstance, CheckProcess, Updated, Answer, FindInstance, InsertInstance, armed
    <2>2. /\ rows \in [Instance -> KillCmd \cup {Absent}]
          /\ \A j \in Instance : Names(rows[j], j)
          /\ deploying[i].result \in KillCmd /\ Names(deploying[i].result, i)
      BY CallAndDeploymentTypes DEF AgentInv, TypeOK, NamesOwn
    <2> QED
      BY <2>1, <2>2, SetOneRow
  <1>7. /\ updates' \in [Thread -> [pc : UpdatePc, pid : KillCmd, cmd : KillCmd, missing : BOOLEAN]]
        /\ CallsAgree'
    <2>1. CASE updates' = updates
      BY <2>1, <1>1 DEF AgentInv, TypeOK, CallsAgree, Running, Names
    <2>2. CASE CheckProcess(i) /\ updates' # updates
      <3>1. instanceProcessesMap[i] # NoPid /\ Enter(<<"deploy", i>>, instanceProcessesMap[i])
        BY <2>2 DEF CheckProcess
      <3>2. instanceProcessesMap[i] \in Pid /\ processes[instanceProcessesMap[i]].of \in Instance
        BY <3>1 DEF AgentInv, TypeOK, KillCmd, NamesOwn, Names
      <3>3. <<"deploy", i>> \in Thread
        BY DEF Thread
      <3> QED
        BY <3>1, <3>2, <3>3, <1>1, EnterKeepsCalls
    <2> QED
      BY <2>1, <2>2 DEF RegisterInstance, CheckProcess, Updated, Answer, FindInstance, InsertInstance
  <1>8. TypeOK'
    BY <1>1, <1>4, <1>5, <1>6, <1>7 DEF AgentInv, TypeOK
  <1> QED
    BY <1>1, <1>4, <1>5, <1>6, <1>7, <1>8, NamesStay DEF AgentInv, NamesOwn, ParsedIsReport

\* A crash empties the maps; the calls that are left were being written.
LEMMA CrashKeeps ==
    ASSUME AgentInv, Crash
    PROVE  AgentInv'
  <1>1. /\ rows' = rows /\ phy' = phy /\ suspect' = suspect /\ processes' = processes
        /\ agent' = [pc |-> "down", port |-> "closed", beat |-> "off"]
        /\ todo' = [i \in Instance |-> Absent]
        /\ instanceMap' = [i \in Instance |-> Absent]
        /\ instanceProcessesMap' = [i \in Instance |-> NoPid]
        /\ param' = NoPid
    BY DEF Crash, armed
  <1>2. /\ updates' \in [Thread -> [pc : UpdatePc, pid : KillCmd, cmd : KillCmd, missing : BOOLEAN]]
        /\ CallsAgree'
    <2>1. updates' = [t \in Thread |-> IF updates[t].pc = "write" THEN updates[t] ELSE Idle]
      BY DEF Crash
    <2>2. Idle \in [pc : UpdatePc, pid : KillCmd, cmd : KillCmd, missing : BOOLEAN]
          /\ Idle.pc = "idle"
      BY DEF Idle, Call, UpdatePc, KillCmd
    <2>3. \A t \in Thread : updates'[t] = updates[t] \/ updates'[t] = Idle
      BY <2>1
    <2> QED
      BY <1>1, <2>1, <2>2, <2>3 DEF AgentInv, TypeOK, CallsAgree, Running, Names
  <1>3. /\ reports' \in [Pid -> {"none", "parsed", "ended"}]
        /\ ParsedIsReport'
    BY DEF Crash, AgentInv, TypeOK, ParsedIsReport
  <1>4. \A i \in Instance :
           deploying'[i] = IF deploying[i].pc \in {"waiting", "checking", "updating", "answering"}
                           THEN [deploying[i] EXCEPT !.pc = "ended"] ELSE deploying[i]
    BY DEF Crash
  <1>5. \A i \in Instance :
           /\ deploying'[i] \in [pc : DeployPc, result : KillCmd, missing : BOOLEAN]
           /\ Names(deploying'[i].result, i)
           /\ deploying'[i].pc \notin {"checking", "updating", "answering"}
    <2> SUFFICES ASSUME NEW i \in Instance
                 PROVE  /\ deploying'[i] \in [pc : DeployPc, result : KillCmd, missing : BOOLEAN]
                        /\ Names(deploying'[i].result, i)
                        /\ deploying'[i].pc \notin {"checking", "updating", "answering"}
      OBVIOUS
    <2>1. deploying[i] \in [pc : DeployPc, result : KillCmd, missing : BOOLEAN]
          /\ Names(deploying[i].result, i)
      BY DEF AgentInv, TypeOK, NamesOwn
    <2>2. CASE deploying[i].pc \in {"waiting", "checking", "updating", "answering"}
      <3> DEFINE new == [deploying[i] EXCEPT !.pc = "ended"]
      <3>1. /\ new \in [pc : DeployPc, result : KillCmd, missing : BOOLEAN]
            /\ new.pc = "ended" /\ new.result = deploying[i].result
        BY <2>1 DEF DeployPc
      <3>2. deploying'[i] = new
        BY <1>4, <2>2
      <3> QED
        BY <2>1, <3>1, <3>2
    <2>3. CASE deploying[i].pc \notin {"waiting", "checking", "updating", "answering"}
      BY <1>4, <2>1, <2>3
    <2> QED
      BY <2>2, <2>3
  <1>6. deploying' \in [Instance -> [pc : DeployPc, result : KillCmd, missing : BOOLEAN]]
    BY <1>5 DEF Crash
  <1>7. trouble' \in 0 .. MaxTrouble
    BY MduManagerAssumption DEF Crash, Trouble, AgentInv, TypeOK
  <1>8. TypeOK'
    BY <1>1, <1>2, <1>3, <1>6, <1>7 DEF AgentInv, TypeOK, KillCmd
  <1>9. RegisteredIsMapped'
    BY <1>5 DEF RegisteredIsMapped
  <1>10. \A i \in Instance :
            /\ Names(rows'[i], i) /\ Names(todo'[i], i)
            /\ Names(instanceMap'[i], i) /\ Names(instanceProcessesMap'[i], i)
    BY <1>1, Distinct DEF AgentInv, NamesOwn, Names
  <1> QED
    BY <1>1, <1>2, <1>3, <1>5, <1>8, <1>9, <1>10, NamesStay

\* The invariant, step by step.
THEOREM AgentInvariant == Spec => []AgentInv
  <1>1. Init => AgentInv
    <2> SUFFICES ASSUME Init PROVE AgentInv
      OBVIOUS
    <2>1. /\ Idle = [pc |-> "idle", pid |-> NoPid, cmd |-> NoPid, missing |-> FALSE]
          /\ \A i \in Instance : deploying[i] \in [pc : DeployPc, result : KillCmd, missing : BOOLEAN]
                                /\ deploying[i].result = NoPid
                                /\ deploying[i].pc \in {"ended", "none"}
      BY DEF Init, Idle, Call, Deployment, DeployPc, KillCmd
    <2>2. deploying \in [Instance -> [pc : DeployPc, result : KillCmd, missing : BOOLEAN]]
      BY <2>1 DEF Init
    <2>3. TypeOK
      <3>1. updates \in [Thread -> [pc : UpdatePc, pid : KillCmd, cmd : KillCmd, missing : BOOLEAN]]
        BY <2>1 DEF Init, KillCmd, UpdatePc
      <3>2. /\ rows \in [Instance -> KillCmd \cup {Absent}]
            /\ todo \in [Instance -> KillCmd \cup {Absent}]
            /\ instanceMap \in [Instance -> KillCmd \cup {Absent}]
            /\ instanceProcessesMap \in [Instance -> KillCmd] /\ param \in KillCmd
        BY DEF Init, KillCmd
      <3>3. /\ processes \in [Pid -> [of : Instance \cup {Absent},
                                      state : {"unused", "starting", "up", "gone"}]]
            /\ reports \in [Pid -> {"none", "parsed", "ended"}]
            /\ phy \in {Absent, "fresh", "stale", "STOPED"} /\ suspect \in BOOLEAN
        BY DEF Init
      <3>4. /\ agent \in [pc : {"down", "register", "heart", "list", "start", "up"},
                          port : {"closed", "open", "taken", "left"}, beat : {"off", "on", "dead"}]
            /\ trouble \in 0 .. MaxTrouble
        BY MduManagerAssumption DEF Init
      <3> QED
        BY <2>2, <3>1, <3>2, <3>3, <3>4 DEF TypeOK
    <2>4. NamesOwn
      BY <2>1, Distinct DEF Init, NamesOwn, Names
    <2>5. CallsAgree /\ ParsedIsReport /\ RegisteredIsMapped /\ StartedHaveInstance
      BY <2>1 DEF Init, CallsAgree, Running, ParsedIsReport, RegisteredIsMapped, StartedHaveInstance
    <2> QED
      BY <2>3, <2>4, <2>5 DEF AgentInv
  <1>2. AgentInv /\ [Next]_vars => AgentInv'
    <2> SUFFICES ASSUME AgentInv, [Next]_vars PROVE AgentInv'
      OBVIOUS
    <2>1. CASE \/ Register \/ StartBeat \/ List \/ StartupFails \/ Started
               \/ Beat \/ BeatFails \/ Bind \/ Unregister
               \/ Age \/ Inspect \/ MarkStoped \/ Restart
      BY <2>1, RegistrationKeeps
    <2>2. CASE Crash
      BY <2>2, CrashKeeps
    <2>3. ASSUME NEW i \in Instance, Startup(i) \/ Deploy(i)
          PROVE  AgentInv'
      BY <2>3, StartupKeeps, DeployKeeps
    <2>4. ASSUME NEW i \in Instance,
                 \/ RegisterInstance(i) \/ CheckProcess(i) \/ Updated(i)
                 \/ Answer(i) \/ FindInstance(i) \/ InsertInstance(i)
          PROVE  AgentInv'
      BY <2>4, DeploymentKeeps
    <2>5. ASSUME NEW p \in Pid,
                 Serve(p) \/ Die(p) \/ Report(p) \/ ReportFails(p) \/ Execute(p)
          PROVE  AgentInv'
      BY <2>5, ProcessesKeep, ReportKeeps, ReportFailsKeeps, ExecuteKeeps
    <2>6. ASSUME NEW t \in Thread,
                 \/ GetInstance(t) \/ CompleteFetched(t)
                 \/ FindRow(t) \/ WriteRow(t) \/ CallFails(t)
          PROVE  AgentInv'
      BY <2>6, CallsKeep, FindRowKeeps, WriteRowKeeps, CallFailsKeeps
    <2>7. CASE UNCHANGED vars
      BY <2>7 DEF vars, armed, maps, work, AgentInv, TypeOK, StartedHaveInstance, NamesOwn,
                  Names, CallsAgree, Running, ParsedIsReport, RegisteredIsMapped
    <2> QED
      BY <2>1, <2>2, <2>3, <2>4, <2>5, <2>6, <2>7 DEF Next
  <1> QED
    BY <1>1, <1>2, PTL DEF Spec

\* Every variable of the agent and of the manager keeps its type.
THEOREM AgentTypeCorrect == Spec => []TypeOK
  <1>1. AgentInv => TypeOK
    BY DEF AgentInv
  <1> QED
    BY <1>1, AgentInvariant, PTL

\* A command to kill an instance never names a process of another instance.
THEOREM KillIsOwn == Spec => []KillNamesOwn
  <1>1. AgentInv => KillNamesOwn
    BY DEF AgentInv, NamesOwn, Names, KillNamesOwn, InstanceOf
  <1> QED
    BY <1>1, AgentInvariant, PTL
-----------------------------------------------------------------------------
(* Every process that reports is recorded. *)

\* Process numbers are given out in order, so the last process of an instance
\* has its greatest number.
StartedInOrder ==
    \A p, q \in Pid : p < q /\ processes[q].state # "unused" => processes[p].state # "unused"

\* A thread that does not run holds no process,
RestingHoldNothing ==
    \A t \in Thread : updates[t].pc = "idle" => updates[t].pid = NoPid

\* the thread that a report or a deployment will enter has not run,
FreshThreads ==
    /\ \A p \in Pid : reports[p] # "ended" => updates[<<"report", p>>].pc = "idle"
    /\ \A i \in Instance : deploying[i].pc \in {"none", "waiting", "checking"}
                              => updates[<<"deploy", i>>].pc = "idle"

\* and what a thread is about to write is a process number.
WritesPid ==
    \A t \in Thread : updates[t].pc \in {"find", "write"} => updates[t].cmd \in Pid

ThreadsInv == StartedInOrder /\ RestingHoldNothing /\ FreshThreads /\ WritesPid

RecordInv == ThreadsInv /\ PidIsRecorded

\* An instance stays recorded when it neither loses its row nor gets known, and
\* no thread that was at work on it, or failed, is forgotten.
LEMMA StaysRecorded ==
    ASSUME PidIsRecorded, NEW i \in Instance,
           rows[i] \in Pid => rows'[i] \in Pid,
           instanceMap'[i] # Absent => instanceMap[i] # Absent,
           HasReported(i)' => HasReported(i),
           Unsettled(i) => Unsettled(i)'
    PROVE  (instanceMap[i] # Absent /\ HasReported(i) /\ ~Unsettled(i))'
              => (rows[i] \in Pid)'
  BY DEF PidIsRecorded

\* What the maps and the owners of the processes decide.
LEMMA SameReported ==
    ASSUME NEW i \in Instance, instanceProcessesMap'[i] = instanceProcessesMap[i],
           \A p \in Pid : processes'[p].of = processes[p].of
    PROVE  HasReported(i)' => HasReported(i)
  BY DEF HasReported, InstanceOf

\* Work that is under way for an instance remains so while no call moves and no process
\* changes hands.
LEMMA SameWork ==
    ASSUME AgentInv, NEW i \in Instance, updates' = updates,
           \A p \in Pid : processes[p].of # Absent => processes'[p].of = processes[p].of,
           deploying[i].pc = "checking" => deploying'[i].pc = "checking"
    PROVE  (Unsettled(i) => Unsettled(i)')
  <1>1. ASSUME NEW t \in Thread, updates[t].pid # NoPid, processes[updates[t].pid].of = i
        PROVE  processes'[updates[t].pid].of = i
    <2>1. updates[t].pid \in Pid
      BY <1>1, CallAndDeploymentTypes DEF KillCmd
    <2> QED
      BY <1>1, <2>1, Distinct
  <1> QED
    BY <1>1 DEF Unsettled, InstanceOf

\* The steps of the registration, of the beat and of the inspector, and the
\* reports that arrive.
LEMMA OthersRecord ==
    ASSUME AgentInv, RecordInv,
           \/ Register \/ StartBeat \/ List \/ StartupFails \/ Started
           \/ Beat \/ BeatFails \/ Bind \/ Unregister
           \/ Age \/ Inspect \/ MarkStoped \/ Restart
           \/ \E p \in Pid : Report(p) \/ ReportFails(p)
    PROVE  RecordInv'
  <1>1. /\ rows' = rows /\ processes' = processes
        /\ instanceMap' = instanceMap /\ instanceProcessesMap' = instanceProcessesMap
        /\ deploying' = deploying /\ updates' = updates
    BY DEF Register, StartBeat, List, StartupFails, Started, Beat, BeatFails, Bind,
           Unregister, Age, Inspect, MarkStoped, Restart, Report, ReportFails, armed, maps, work
  <1>2. \A p \in Pid : reports'[p] # "ended" => reports[p] # "ended"
    <2>1. CASE \E p \in Pid : Report(p) \/ ReportFails(p)
      <3>1. PICK p \in Pid : /\ reports[p] = "none"
                             /\ reports' = [reports EXCEPT ![p] = reports'[p]]
        BY <2>1 DEF Report, ReportFails, AgentInv, TypeOK
      <3> QED
        BY <3>1 DEF AgentInv, TypeOK
    <2>2. CASE reports' = reports
      BY <2>2
    <2> QED
      BY <2>1, <2>2
         DEF Register, StartBeat, List, StartupFails, Started, Beat, BeatFails, Bind,
             Unregister, Age, Inspect, MarkStoped, Restart, work
  <1>3. ThreadsInv'
    BY <1>1, <1>2
       DEF RecordInv, ThreadsInv, StartedInOrder, RestingHoldNothing, FreshThreads, WritesPid
  <1>4. PidIsRecorded'
    BY <1>1 DEF RecordInv, PidIsRecorded, HasReported, Unsettled, InstanceOf
  <1> QED
    BY <1>3, <1>4 DEF RecordInv

\* Processes that come up or die keep their owners.
LEMMA ProcessesRecord ==
    ASSUME AgentInv, RecordInv, NEW p \in Pid, Serve(p) \/ Die(p)
    PROVE  RecordInv'
  <1>1. /\ rows' = rows /\ instanceMap' = instanceMap /\ deploying' = deploying
        /\ instanceProcessesMap' = instanceProcessesMap
        /\ reports' = reports /\ updates' = updates
    BY DEF Serve, Die, armed, maps, work
  <1>2. PICK state \in {"up", "gone"} :
           processes[p].state # "unused" /\ processes' = [processes EXCEPT ![p].state = state]
    BY DEF Serve, Die
  <1>3. \A q \in Pid : /\ processes'[q].of = processes[q].of
                       /\ processes'[q].state = "unused" <=> processes[q].state = "unused"
    BY <1>2 DEF AgentInv, TypeOK
  <1>4. ThreadsInv'
    BY <1>1, <1>3
       DEF RecordInv, ThreadsInv, StartedInOrder, RestingHoldNothing, FreshThreads, WritesPid
  <1>5. PidIsRecorded'
    <2> SUFFICES ASSUME NEW i \in Instance
                 PROVE  (instanceMap[i] # Absent /\ HasReported(i) /\ ~Unsettled(i))'
                           => (rows[i] \in Pid)'
      BY DEF PidIsRecorded
    <2>1. HasReported(i)' => HasReported(i)
      BY <1>1, <1>3, SameReported
    <2>2. (Unsettled(i) => Unsettled(i)')
      BY <1>1, <1>3, SameWork
    <2> QED
      BY <1>1, <2>1, <2>2, StaysRecorded DEF RecordInv
  <1> QED
    BY <1>4, <1>5 DEF RecordInv

\* A process that is started now has a greater number than every process that
\* has reported: its instance has not reported again.
LEMMA StartNotReported ==
    ASSUME AgentInv, StartedInOrder, NEW i \in Instance, Start(i),
           instanceProcessesMap' = instanceProcessesMap
    PROVE  /\ StartedInOrder'
           /\ \A j \in Instance : HasReported(j)' => HasReported(j) /\ j # i
  <1>1. PICK p \in Pid : /\ processes[p].state = "unused"
                         /\ \A q \in Pid : q < p => processes[q].state # "unused"
                         /\ processes' = [processes EXCEPT ![p] = [of |-> i, state |-> "starting"]]
    BY DEF Start, Unused
  <1>2. /\ processes'[p].of = i /\ processes'[p].state = "starting"
        /\ \A q \in Pid \ {p} : processes'[q] = processes[q]
    BY <1>1 DEF AgentInv, TypeOK
  <1>3. StartedInOrder'
    <2> SUFFICES ASSUME NEW q \in Pid, NEW r \in Pid, q < r, processes'[r].state # "unused"
                 PROVE  processes'[q].state # "unused"
      BY DEF StartedInOrder
    <2>1. CASE q = p
      BY <2>1, <1>2
    <2>2. CASE q # p /\ r = p
      BY <2>2, <1>1, <1>2
    <2>3. CASE q # p /\ r # p
      BY <2>3, <1>2 DEF StartedInOrder
    <2> QED
      BY <2>1, <2>2, <2>3
  <1>4. ASSUME NEW j \in Instance, HasReported(j)'
        PROVE  HasReported(j) /\ j # i
    <2>1. /\ instanceProcessesMap[j] # NoPid
          /\ \A q \in Pid : processes'[q].of = j => q <= instanceProcessesMap[j]
      BY <1>4 DEF HasReported, InstanceOf
    <2>2. PICK last \in Pid : last = instanceProcessesMap[j] /\ processes[last].of = j
      BY <2>1 DEF AgentInv, TypeOK, KillCmd, NamesOwn, Names
    <2>3. processes[last].state # "unused"
      BY <2>2, Distinct DEF AgentInv, StartedHaveInstance
    <2>4. ~(p <= last)
      <3>1. p # last
        BY <1>1, <2>3
      <3>2. ~(p < last)
        BY <1>1, <2>3 DEF StartedInOrder
      <3> QED
        BY <3>1, <3>2 DEF Pid
    <2>5. j # i
      BY <1>2, <2>1, <2>2, <2>4
    <2>6. \A q \in Pid : processes[q].of = j => q <= instanceProcessesMap[j]
      <3>1. processes[p].of = Absent
        BY <1>1 DEF AgentInv, StartedHaveInstance
      <3> QED
        BY <1>2, <2>1, <3>1, Distinct
    <2> QED
      BY <2>1, <2>5, <2>6 DEF HasReported, InstanceOf
  <1> QED
    BY <1>3, <1>4

\* A start gives an instance a new process; its report and its row are still to come.
LEMMA StartRecords ==
    ASSUME AgentInv, RecordInv, NEW i \in Instance, Startup(i) \/ Deploy(i)
    PROVE  RecordInv'
  <1>1. /\ rows' = rows /\ instanceProcessesMap' = instanceProcessesMap
        /\ reports' = reports /\ updates' = updates
        /\ \A j \in Instance \ {i} : instanceMap'[j] = instanceMap[j]
        /\ \/ Start(i)
           \/ processes' = processes /\ instanceMap' = instanceMap
    BY DEF Startup, Deploy, armed, maps, work, AgentInv, TypeOK
  <1>2. \A j \in Instance :
           /\ deploying[j].pc = "checking" <=> deploying'[j].pc = "checking"
           /\ deploying'[j].pc \in {"none", "waiting", "checking"}
                => deploying[j].pc \in {"none", "waiting", "checking"}
    BY DEF Startup, Deploy, Go, work, AgentInv, TypeOK
  <1>3. \A p \in Pid : processes[p].of # Absent => processes'[p].of = processes[p].of
    BY <1>1, StartGivesInstance
  <1>4. /\ StartedInOrder'
        /\ Start(i) => \A j \in Instance : HasReported(j)' => HasReported(j) /\ j # i
    <2>1. CASE Start(i)
      BY <2>1, <1>1, StartNotReported DEF RecordInv, ThreadsInv
    <2>2. CASE ~Start(i)
      BY <2>2, <1>1 DEF RecordInv, ThreadsInv, StartedInOrder
    <2> QED
      BY <2>1, <2>2
  <1>5. ThreadsInv'
    BY <1>1, <1>2, <1>4 DEF RecordInv, ThreadsInv, RestingHoldNothing, FreshThreads, WritesPid
  <1>6. PidIsRecorded'
    <2> SUFFICES ASSUME NEW j \in Instance
                 PROVE  (instanceMap[j] # Absent /\ HasReported(j) /\ ~Unsettled(j))'
                           => (rows[j] \in Pid)'
      BY DEF PidIsRecorded
    <2>1. (Unsettled(j) => Unsettled(j)')
      BY <1>1, <1>2, <1>3, SameWork
    <2>2. CASE Start(i)
      <3>1. HasReported(j)' => HasReported(j) /\ j # i
        BY <1>4, <2>2
      <3>2. CASE j # i
        BY <1>1, <2>1, <3>1, <3>2, StaysRecorded DEF RecordInv
      <3> QED
        BY <3>1, <3>2
    <2>3. CASE processes' = processes /\ instanceMap' = instanceMap
      <3>1. HasReported(j)' => HasReported(j)
        BY <1>1, <2>3, SameReported
      <3> QED
        BY <1>1, <2>1, <2>3, <3>1, StaysRecorded DEF RecordInv
    <2> QED
      BY <1>1, <2>2, <2>3
  <1> QED
    BY <1>5, <1>6 DEF RecordInv

\* The steps of a deployment, but for the one that enters a thread.
LEMMA DeploymentRecords ==
    ASSUME AgentInv, RecordInv, NEW i \in Instance,
           \/ RegisterInstance(i) \/ Updated(i)
           \/ Answer(i) \/ FindInstance(i) \/ InsertInstance(i)
           \/ CheckProcess(i) /\ instanceProcessesMap[i] = NoPid
    PROVE  RecordInv'
  <1>1. /\ instanceProcessesMap' = instanceProcessesMap /\ processes' = processes
        /\ reports' = reports /\ updates' = updates
    BY DEF RegisterInstance, CheckProcess, Updated, Answer, FindInstance, InsertInstance, armed, maps
  <1>2. \A j \in Instance : rows[j] \in Pid => rows'[j] \in Pid
    <2>1. ASSUME InsertInstance(i), rows[i] = Absent, rows' = [rows EXCEPT ![i] = deploying[i].result]
          PROVE  \A j \in Instance : rows[j] \in Pid => rows'[j] \in Pid
      BY <2>1, Distinct DEF AgentInv, TypeOK
    <2> QED
      BY <2>1 DEF RegisterInstance, CheckProcess, Updated, Answer, FindInstance, InsertInstance, armed
  <1>3. /\ \A j \in Instance \ {i} : instanceMap'[j] = instanceMap[j]
        /\ RegisterInstance(i) \/ instanceMap' = instanceMap
    BY DEF RegisterInstance, CheckProcess, Updated, Answer, FindInstance, InsertInstance, maps,
           AgentInv, TypeOK
  <1>4. /\ \A j \in Instance \ {i} : deploying'[j] = deploying[j]
        /\ deploying'[i].pc \in {"none", "waiting", "checking"} => deploying[i].pc = "waiting"
        /\ RegisterInstance(i) => deploying'[i].pc = "checking"
        /\ \/ CheckProcess(i) /\ instanceProcessesMap[i] = NoPid
           \/ deploying[i].pc # "checking"
    <2>1. CASE \/ RegisterInstance(i) \/ Updated(i)
               \/ CheckProcess(i) /\ instanceProcessesMap[i] = NoPid
      <3>1. PICK from \in DeployPc, to \in DeployPc :
               /\ Go(i, from, to)
               /\ to \in {"none", "waiting", "checking"} => from = "waiting"
               /\ RegisterInstance(i) => to = "checking"
               /\ \/ CheckProcess(i) /\ instanceProcessesMap[i] = NoPid
                  \/ from # "checking"
        <4>1. CASE RegisterInstance(i)
          <5>1. Go(i, "waiting", "checking")
            BY <4>1 DEF RegisterInstance
          <5> QED
            BY <5>1 DEF DeployPc
        <4>2. CASE CheckProcess(i) /\ instanceProcessesMap[i] = NoPid /\ ~RegisterInstance(i)
          <5>1. Go(i, "checking", "answering") \/ Go(i, "checking", "updating")
            BY <4>2 DEF CheckProcess
          <5> QED
            BY <4>2, <5>1 DEF DeployPc
        <4>3. CASE Updated(i) /\ ~RegisterInstance(i)
          <5>1. Go(i, "updating", "answering") \/ Go(i, "updating", "ended")
            BY <4>3 DEF Updated
          <5> QED
            BY <4>3, <5>1 DEF DeployPc
        <4> QED
          BY <2>1, <4>1, <4>2, <4>3
      <3>2. deploying' = [deploying EXCEPT ![i].pc = to] /\ deploying[i].pc = from
        BY <3>1 DEF Go
      <3>3. \A j \in Instance : deploying'[j].pc = IF j = i THEN to ELSE deploying[j].pc
        BY <3>2, CallAndDeploymentTypes DEF AgentInv, TypeOK
      <3>4. \A j \in Instance \ {i} : deploying'[j] = deploying[j]
        BY <3>2 DEF AgentInv, TypeOK
      <3> QED
        BY <3>1, <3>2, <3>3, <3>4
    <2>2. CASE Answer(i)
      <3>1. deploying[i].pc = "answering" /\ ~RegisterInstance(i)
        BY <2>2 DEF Answer, RegisterInstance, Go
      <3>2. deploying' = [deploying EXCEPT ![i].pc = "find", ![i].result = instanceMap[i]]
        BY <2>2 DEF Answer
      <3>3. deploying'[i].pc = "find" /\ \A j \in Instance \ {i} : deploying'[j] = deploying[j]
        BY <3>2, CallAndDeploymentTypes DEF AgentInv, TypeOK
      <3> QED
        BY <3>1, <3>3
    <2>3. CASE FindInstance(i)
      <3>1. deploying[i].pc = "find" /\ ~RegisterInstance(i)
        BY <2>3 DEF FindInstance, RegisterInstance, Go
      <3>2. PICK missing \in BOOLEAN :
               deploying' = [deploying EXCEPT ![i].pc = "insert", ![i].missing = missing]
        BY <2>3 DEF FindInstance
      <3>3. deploying'[i].pc = "insert" /\ \A j \in Instance \ {i} : deploying'[j] = deploying[j]
        BY <3>2, CallAndDeploymentTypes DEF AgentInv, TypeOK
      <3> QED
        BY <3>1, <3>3
    <2>4. CASE InsertInstance(i)
      <3>1. deploying[i].pc = "insert" /\ ~RegisterInstance(i)
        BY <2>4 DEF InsertInstance, RegisterInstance, Go
      <3>2. deploying' = [deploying EXCEPT ![i] = Deployment("ended")]
        BY <2>4 DEF InsertInstance
      <3>3. deploying'[i].pc = "ended" /\ \A j \in Instance \ {i} : deploying'[j] = deploying[j]
        BY <3>2 DEF AgentInv, TypeOK, Deployment
      <3> QED
        BY <3>1, <3>3
    <2> QED
      BY <2>1, <2>2, <2>3, <2>4
  <1>5. ThreadsInv'
    BY <1>1, <1>4
       DEF RecordInv, ThreadsInv, StartedInOrder, RestingHoldNothing, FreshThreads, WritesPid
  <1>6. PidIsRecorded'
    <2> SUFFICES ASSUME NEW j \in Instance
                 PROVE  (instanceMap[j] # Absent /\ HasReported(j) /\ ~Unsettled(j))'
                           => (rows[j] \in Pid)'
      BY DEF PidIsRecorded
    <2>1. HasReported(j)' => HasReported(j)
      BY <1>1, SameReported
    <2>2. CASE j = i /\ RegisterInstance(i)
      BY <2>2, <1>4 DEF Unsettled
    <2>3. CASE j = i /\ CheckProcess(i) /\ instanceProcessesMap[i] = NoPid
      BY <2>3, <1>1 DEF HasReported
    <2>4. CASE j # i \/ (deploying[i].pc # "checking" /\ ~RegisterInstance(i))
      <3>1. (Unsettled(j) => Unsettled(j)')
        BY <2>4, <1>1, <1>4, SameWork
      <3> QED
        BY <2>1, <2>4, <3>1, <1>2, <1>3, StaysRecorded DEF RecordInv
    <2>5. \/ CheckProcess(i) /\ instanceProcessesMap[i] = NoPid
          \/ deploying[i].pc # "checking"
      BY <1>4
    <2> QED
      BY <2>2, <2>3, <2>4, <2>5
  <1> QED
    BY <1>5, <1>6 DEF RecordInv

\* A thread that takes a step, or starts to run, keeps the instance it is at
\* work on, and gives up no other.
LEMMA ThreadRecords ==
    ASSUME AgentInv, ThreadsInv, processes' = processes, NEW t \in Thread,
           NEW u \in [pc : UpdatePc, pid : KillCmd, cmd : KillCmd, missing : BOOLEAN],
           updates' = [updates EXCEPT ![t] = u],
           u.pc = "idle" => u.pid = NoPid,
           u.pc \in {"find", "write"} => u.cmd \in Pid,
           NEW i \in Instance, deploying[i].pc = "checking" => deploying'[i].pc = "checking",
           \/ updates[t].pc = "idle"
           \/ u.pid = updates[t].pid
           \/ processes[updates[t].pid].of # i
    PROVE  /\ StartedInOrder' /\ RestingHoldNothing' /\ WritesPid'
           /\ Unsettled(i) => Unsettled(i)'
           /\ (u.pid # NoPid /\ processes[u.pid].of = i) => Unsettled(i)'
  <1>1. /\ updates'[t] = u
        /\ \A s \in Thread \ {t} : updates'[s] = updates[s]
    BY DEF AgentInv, TypeOK
  <1>2. StartedInOrder' /\ RestingHoldNothing' /\ WritesPid'
    BY <1>1 DEF ThreadsInv, StartedInOrder, RestingHoldNothing, WritesPid
  <1>3. (u.pid # NoPid /\ processes[u.pid].of = i) => Unsettled(i)'
    BY <1>1 DEF Unsettled, InstanceOf
  <1>4. ASSUME NEW s \in Thread, updates[s].pid # NoPid, processes[updates[s].pid].of = i
        PROVE  Unsettled(i)'
    <2>1. CASE s # t
      BY <1>1, <1>4, <2>1 DEF Unsettled, InstanceOf
    <2>2. CASE s = t
      <3>1. updates[t].pc # "idle"
        BY <1>4, <2>2 DEF ThreadsInv, RestingHoldNothing
      <3> QED
        BY <1>3, <1>4, <2>2, <3>1
    <2> QED
      BY <2>1, <2>2
  <1>5. Unsettled(i) => Unsettled(i)'
    BY <1>4 DEF Unsettled, InstanceOf
  <1> QED
    BY <1>2, <1>3, <1>5

\* A thread of a deployment or of a report is entered once.
LEMMA EnterRecords ==
    ASSUME AgentInv, ThreadsInv, processes' = processes, NEW t \in Thread, NEW p \in Pid,
           updates[t].pc = "idle", Enter(t, p),
           NEW i \in Instance,
           \/ deploying[i].pc = "checking" => deploying'[i].pc = "checking"
           \/ processes[p].of = i
    PROVE  /\ StartedInOrder' /\ RestingHoldNothing' /\ WritesPid'
           /\ Unsettled(i) => Unsettled(i)'
           /\ processes[p].of = i => Unsettled(i)'
  <1>1. PICK u \in [pc : UpdatePc, pid : KillCmd, cmd : KillCmd, missing : BOOLEAN] :
           u = [pc |-> "get", pid |-> p, cmd |-> NoPid, missing |-> FALSE]
    BY DEF UpdatePc, KillCmd
  <1>2. updates' = [updates EXCEPT ![t] = u]
    BY <1>1 DEF Enter, Call
  <1>3. /\ updates'[t] = u
        /\ \A s \in Thread \ {t} : updates'[s] = updates[s]
    BY <1>2 DEF AgentInv, TypeOK
  <1>4. processes[p].of = i => Unsettled(i)'
    BY <1>1, <1>3, Distinct DEF Unsettled, InstanceOf
  <1>5. StartedInOrder' /\ RestingHoldNothing' /\ WritesPid'
    BY <1>1, <1>3 DEF ThreadsInv, StartedInOrder, RestingHoldNothing, WritesPid
  <1>6. CASE processes[p].of # i
    <2>1. Unsettled(i) => Unsettled(i)'
      BY <1>1, <1>2, <1>6, ThreadRecords
    <2> QED
      BY <1>4, <1>5, <2>1
  <1> QED
    BY <1>4, <1>5, <1>6

\* A report that is executed is one of a process of the instance, which is being
\* worked on from then on.
LEMMA ExecuteRecords ==
    ASSUME AgentInv, RecordInv, NEW p \in Pid, Execute(p)
    PROVE  RecordInv'
  <1>1. PICK q \in Pid, i \in Instance : q = param /\ i = processes[q].of
    BY DEF Execute, AgentInv, ParsedIsReport
  <1>2. /\ rows' = rows /\ instanceMap' = instanceMap /\ deploying' = deploying
        /\ processes' = processes /\ reports[p] = "parsed"
        /\ reports' = [reports EXCEPT ![p] = "ended"]
        /\ instanceProcessesMap' = [instanceProcessesMap EXCEPT ![i] = q]
        /\ Enter(<<"report", p>>, q)
    BY <1>1 DEF Execute, armed, InstanceOf
  <1>3. PICK t \in Thread : t = <<"report", p>>
    BY DEF Thread
  <1>4. updates[t].pc = "idle"
    BY <1>2, <1>3 DEF RecordInv, ThreadsInv, FreshThreads
  <1>5. \A j \in Instance : /\ StartedInOrder' /\ RestingHoldNothing' /\ WritesPid'
                            /\ Unsettled(j) => Unsettled(j)'
                            /\ i = j => Unsettled(j)'
    BY <1>1, <1>2, <1>3, <1>4, EnterRecords DEF RecordInv
  <1>6. StartedInOrder' /\ RestingHoldNothing' /\ WritesPid'
    BY <1>1, <1>5
  <1>7. FreshThreads'
    <2>1. \A r \in Pid : reports'[r] # "ended" => reports[r] # "ended" /\ r # p
      BY <1>2 DEF AgentInv, TypeOK
    <2>2. \A s \in Thread \ {t} : updates'[s] = updates[s]
      BY <1>2, <1>3 DEF Enter
    <2>3. /\ \A r \in Pid \ {p} : <<"report", r>> \in Thread \ {t}
          /\ \A j \in Instance : <<"deploy", j>> \in Thread \ {t}
      BY <1>3 DEF Thread
    <2> QED
      BY <1>2, <2>1, <2>2, <2>3 DEF RecordInv, ThreadsInv, FreshThreads
  <1>8. PidIsRecorded'
    <2> SUFFICES ASSUME NEW j \in Instance
                 PROVE  (instanceMap[j] # Absent /\ HasReported(j) /\ ~Unsettled(j))'
                           => (rows[j] \in Pid)'
      BY DEF PidIsRecorded
    <2>1. CASE j = i
      BY <1>5, <2>1
    <2>2. CASE j # i
      <3>1. HasReported(j)' => HasReported(j)
        BY <1>2, <2>2, SameReported DEF AgentInv, TypeOK
      <3> QED
        BY <1>2, <1>5, <3>1, StaysRecorded DEF RecordInv
    <2> QED
      BY <2>1, <2>2
  <1> QED
    BY <1>6, <1>7, <1>8 DEF RecordInv, ThreadsInv

\* A deployment finds the process that has reported before its instance.
LEMMA CheckProcessRecords ==
    ASSUME AgentInv, RecordInv, NEW i \in Instance,
           CheckProcess(i), instanceProcessesMap[i] # NoPid
    PROVE  RecordInv'
  <1>1. PICK p \in Pid : p = instanceProcessesMap[i] /\ processes[p].of = i
    BY DEF AgentInv, TypeOK, KillCmd, NamesOwn, Names
  <1>2. /\ rows' = rows /\ instanceMap' = instanceMap /\ reports' = reports
        /\ instanceProcessesMap' = instanceProcessesMap /\ processes' = processes
        /\ deploying[i].pc = "checking" /\ deploying' = [deploying EXCEPT ![i].pc = "updating"]
        /\ Enter(<<"deploy", i>>, p)
    BY <1>1 DEF CheckProcess, Go, armed, maps
  <1>3. PICK t \in Thread : t = <<"deploy", i>>
    BY DEF Thread
  <1>4. updates[t].pc = "idle"
    BY <1>2, <1>3 DEF RecordInv, ThreadsInv, FreshThreads
  <1>5. \A j \in Instance \ {i} : deploying'[j] = deploying[j]
    BY <1>2 DEF AgentInv, TypeOK
  <1>6. \A j \in Instance : /\ StartedInOrder' /\ RestingHoldNothing' /\ WritesPid'
                            /\ Unsettled(j) => Unsettled(j)'
                            /\ i = j => Unsettled(j)'
    BY <1>1, <1>2, <1>3, <1>4, <1>5, EnterRecords DEF RecordInv
  <1>7. StartedInOrder' /\ RestingHoldNothing' /\ WritesPid'
    BY <1>6
  <1>8. FreshThreads'
    <2>1. \A s \in Thread \ {t} : updates'[s] = updates[s]
      BY <1>2, <1>3 DEF Enter
    <2>2. /\ \A r \in Pid : <<"report", r>> \in Thread \ {t}
          /\ \A j \in Instance \ {i} : <<"deploy", j>> \in Thread \ {t}
      BY <1>3 DEF Thread
    <2>3. deploying'[i].pc = "updating"
      BY <1>2, CallAndDeploymentTypes DEF AgentInv, TypeOK
    <2> QED
      BY <1>2, <1>5, <2>1, <2>2, <2>3 DEF RecordInv, ThreadsInv, FreshThreads
  <1>9. PidIsRecorded'
    <2> SUFFICES ASSUME NEW j \in Instance
                 PROVE  (instanceMap[j] # Absent /\ HasReported(j) /\ ~Unsettled(j))'
                           => (rows[j] \in Pid)'
      BY DEF PidIsRecorded
    <2>1. HasReported(j)' => HasReported(j)
      BY <1>2, SameReported
    <2> QED
      BY <1>2, <1>6, <2>1, StaysRecorded DEF RecordInv
  <1> QED
    BY <1>7, <1>8, <1>9 DEF RecordInv, ThreadsInv

\* A thread that runs leaves the others, and those not yet entered, alone.
LEMMA RunningRecords ==
    ASSUME AgentInv, RecordInv, NEW t \in Thread, Running(t),
           NEW u \in [pc : UpdatePc, pid : KillCmd, cmd : KillCmd, missing : BOOLEAN],
           updates' = [updates EXCEPT ![t] = u],
           u.pc = "idle" => u.pid = NoPid,
           u.pc \in {"find", "write"} => u.cmd \in Pid,
           processes' = processes, reports' = reports, deploying' = deploying,
           instanceProcessesMap' = instanceProcessesMap,
           NEW of \in Instance, processes[updates[t].pid].of = of,
           \A j \in Instance \ {of} : /\ rows'[j] = rows[j]
                                      /\ instanceMap'[j] = instanceMap[j],
           \/ u.pid = updates[t].pid /\ rows' = rows
           \/ (instanceMap[of] # Absent /\ HasReported(of) /\ ~Unsettled(of))'
                => (rows[of] \in Pid)'
    PROVE  RecordInv'
  <1>1. updates[t].pc # "idle"
    BY DEF Running
  <1>2. \A j \in Instance :
           (u.pid = updates[t].pid \/ of # j) =>
               /\ StartedInOrder' /\ RestingHoldNothing' /\ WritesPid'
               /\ Unsettled(j) => Unsettled(j)'
               /\ (u.pid # NoPid /\ processes[u.pid].of = j) => Unsettled(j)'
    BY <1>1, ThreadRecords DEF RecordInv
  <1>3. /\ updates'[t] = u
        /\ \A s \in Thread \ {t} : updates'[s] = updates[s]
    BY DEF AgentInv, TypeOK
  <1>4. ThreadsInv'
    <2>1. \A s \in Thread : updates[s].pc = "idle" => updates'[s].pc = "idle"
      BY <1>1, <1>3
    <2>2. /\ \A r \in Pid : <<"report", r>> \in Thread
          /\ \A j \in Instance : <<"deploy", j>> \in Thread
      BY DEF Thread
    <2>3. FreshThreads'
      BY <2>1, <2>2 DEF RecordInv, ThreadsInv, FreshThreads
    <2>4. StartedInOrder' /\ RestingHoldNothing' /\ WritesPid'
      BY <1>3 DEF RecordInv, ThreadsInv, StartedInOrder, RestingHoldNothing, WritesPid
    <2> QED
      BY <2>3, <2>4 DEF ThreadsInv
  <1>5. PidIsRecorded'
    <2> SUFFICES ASSUME NEW j \in Instance
                 PROVE  (instanceMap[j] # Absent /\ HasReported(j) /\ ~Unsettled(j))'
                           => (rows[j] \in Pid)'
      BY DEF PidIsRecorded
    <2>1. HasReported(j)' => HasReported(j)
      BY SameReported
    <2>2. CASE j # of
      BY <1>2, <2>1, <2>2, StaysRecorded DEF RecordInv
    <2>3. CASE j = of /\ u.pid = updates[t].pid
      <3>1. u.pid \in Pid /\ processes[u.pid].of = of
        BY <2>3 DEF AgentInv, CallsAgree
      <3> QED
        BY <1>2, <2>3, <3>1, Distinct
    <2> QED
      BY <2>2, <2>3
  <1> QED
    BY <1>4, <1>5 DEF RecordInv

\* Complete stays at work on the instance, and is about to write a process.
LEMMA CompleteRecords ==
    ASSUME AgentInv, RecordInv, NEW t \in Thread, Running(t),
           NEW cmd \in KillCmd, Complete(t, cmd, updates[t].pid),
           rows' = rows, processes' = processes, reports' = reports, deploying' = deploying,
           instanceProcessesMap' = instanceProcessesMap
    PROVE  RecordInv'
  <1>1. PICK p \in Pid, of \in Instance : p = updates[t].pid /\ of = processes[p].of
    BY DEF AgentInv, CallsAgree
  <1>2. PICK new \in Pid : new = Format(cmd, p)
    BY DEF Format, KillCmd
  <1>3. PICK u \in [pc : UpdatePc, pid : KillCmd, cmd : KillCmd, missing : BOOLEAN] :
           u = [pc |-> "find", pid |-> p, cmd |-> new, missing |-> FALSE]
    BY DEF UpdatePc, KillCmd
  <1>4. /\ instanceMap' = [instanceMap EXCEPT ![of] = new]
        /\ updates' = [updates EXCEPT ![t] = u]
    <2>1. InstanceOf(updates[t].pid) = of
      BY <1>1 DEF InstanceOf
    <2>2. Call("find", updates[t].pid, Format(cmd, updates[t].pid)) = u
      BY <1>1, <1>2, <1>3 DEF Call
    <2> QED
      BY <1>1, <1>2, <2>1, <2>2 DEF Complete
  <1>5. \A j \in Instance \ {of} : rows'[j] = rows[j] /\ instanceMap'[j] = instanceMap[j]
    BY <1>4 DEF AgentInv, TypeOK
  <1>6. /\ u.pc = "idle" => u.pid = NoPid
        /\ u.pc \in {"find", "write"} => u.cmd \in Pid
        /\ u.pid = updates[t].pid /\ rows' = rows
    BY <1>1, <1>3
  <1>7. processes[updates[t].pid].of = of
    BY <1>1
  <1>8. /\ u.pc = "idle" => u.pid = NoPid
        /\ u.pc \in {"find", "write"} => u.cmd \in Pid
        /\ \/ u.pid = updates[t].pid /\ rows' = rows
           \/ (instanceMap[of] # Absent /\ HasReported(of) /\ ~Unsettled(of))'
                => (rows[of] \in Pid)'
    BY <1>6
  <1>9. updates' = [updates EXCEPT ![t] = u]
    BY <1>4
  <1> QED
    BY <1>5, <1>7, <1>8, <1>9, RunningRecords

\* An instance that is neither in the map nor on the manager is given up; its
\* process reported before it was known.
LEMMA GetInstanceRecords ==
    ASSUME AgentInv, RecordInv, NEW t \in Thread, GetInstance(t)
    PROVE  RecordInv'
  <1>1. /\ rows' = rows /\ processes' = processes /\ reports' = reports
        /\ deploying' = deploying /\ instanceProcessesMap' = instanceProcessesMap
        /\ Running(t)
    BY DEF GetInstance, armed, Running
  <1>2. PICK p \in Pid, of \in Instance : p = updates[t].pid /\ of = processes[p].of
    BY <1>1 DEF AgentInv, CallsAgree
  <1>3. CASE instanceMap[of] # Absent
    <2>1. Complete(t, instanceMap[of], updates[t].pid) /\ instanceMap[of] \in KillCmd
      BY <1>2, <1>3 DEF GetInstance, InstanceOf, AgentInv, TypeOK
    <2> QED
      BY <1>1, <2>1, CompleteRecords
  <1>4. CASE instanceMap[of] = Absent
    <2>1. instanceMap' = instanceMap
      BY <1>2, <1>4 DEF GetInstance, InstanceOf
    <2>2. CASE rows[of] = Absent
      <3>1. PICK u \in [pc : UpdatePc, pid : KillCmd, cmd : KillCmd, missing : BOOLEAN] :
               u = [pc |-> "idle", pid |-> NoPid, cmd |-> NoPid, missing |-> FALSE]
        BY DEF UpdatePc, KillCmd
      <3>2. updates' = [updates EXCEPT ![t] = u]
        BY <1>2, <1>4, <2>2, <3>1 DEF GetInstance, InstanceOf, Idle, Call
      <3>3. /\ u.pc = "idle" => u.pid = NoPid
            /\ u.pc \in {"find", "write"} => u.cmd \in Pid
        BY <3>1
      <3>4. (instanceMap[of] # Absent /\ HasReported(of) /\ ~Unsettled(of))'
               => (rows[of] \in Pid)'
        BY <1>4, <2>1
      <3>5. processes[updates[t].pid].of = of
        BY <1>2
      <3>6. \A j \in Instance \ {of} : rows'[j] = rows[j] /\ instanceMap'[j] = instanceMap[j]
        BY <1>1, <2>1
      <3> QED
        BY <1>1, <3>2, <3>3, <3>4, <3>5, <3>6, RunningRecords
    <2>3. CASE rows[of] # Absent
      <3>1. rows[of] \in KillCmd
        BY <2>3 DEF AgentInv, TypeOK
      <3>2. PICK u \in [pc : UpdatePc, pid : KillCmd, cmd : KillCmd, missing : BOOLEAN] :
               u = [pc |-> "fetched", pid |-> p, cmd |-> rows[of], missing |-> FALSE]
        BY <3>1 DEF UpdatePc, KillCmd
      <3>3. updates' = [updates EXCEPT ![t] = u]
        BY <1>2, <1>4, <2>3, <3>2 DEF GetInstance, InstanceOf, Call
      <3>4. u.pc = "fetched" /\ u.pid = updates[t].pid
        BY <1>2, <3>2
      <3>5. processes[updates[t].pid].of = of
        BY <1>2
      <3> QED
        BY <1>1, <2>1, <3>3, <3>4, <3>5, RunningRecords
    <2> QED
      BY <2>2, <2>3
  <1> QED
    BY <1>3, <1>4

\* A call that completes its command goes on to the row.
LEMMA CompleteFetchedRecords ==
    ASSUME AgentInv, RecordInv, NEW t \in Thread, CompleteFetched(t)
    PROVE  RecordInv'
  <1>1. /\ rows' = rows /\ processes' = processes /\ reports' = reports
        /\ deploying' = deploying /\ instanceProcessesMap' = instanceProcessesMap
        /\ Running(t) /\ Complete(t, updates[t].cmd, updates[t].pid)
    BY DEF CompleteFetched, armed, Running
  <1>2. updates[t].cmd \in KillCmd
    BY CallAndDeploymentTypes
  <1> QED
    BY <1>1, <1>2, CompleteRecords

\* A call that looks for the row is still under way, whether it finds it or not.
LEMMA FindRowRecords ==
    ASSUME AgentInv, RecordInv, NEW t \in Thread, FindRow(t)
    PROVE  RecordInv'
  <1>1. /\ rows' = rows /\ processes' = processes /\ reports' = reports
        /\ deploying' = deploying /\ instanceProcessesMap' = instanceProcessesMap
        /\ instanceMap' = instanceMap /\ Running(t) /\ updates[t].pc = "find"
    BY DEF FindRow, armed, maps, Running
  <1>2. PICK missing \in BOOLEAN :
           updates' = [updates EXCEPT ![t] = [@ EXCEPT !.pc = "write", !.missing = missing]]
    BY DEF FindRow
  <1>3. PICK old \in [pc : UpdatePc, pid : KillCmd, cmd : KillCmd, missing : BOOLEAN] :
           old = updates[t]
    BY CallAndDeploymentTypes
  <1> DEFINE v == [old EXCEPT !.pc = "write", !.missing = missing]
  <1>4. /\ v \in [pc : UpdatePc, pid : KillCmd, cmd : KillCmd, missing : BOOLEAN]
        /\ v.pc = "write" /\ v.pid = old.pid /\ v.cmd = old.cmd
    BY DEF UpdatePc
  <1>5. PICK u \in [pc : UpdatePc, pid : KillCmd, cmd : KillCmd, missing : BOOLEAN] :
           u = v /\ u.pc = "write" /\ u.pid = old.pid /\ u.cmd = old.cmd
    BY <1>4
  <1>6. updates' = [updates EXCEPT ![t] = u]
    BY <1>2, <1>3, <1>5
  <1>7. u.pc = "write" /\ u.pid = updates[t].pid /\ u.cmd \in Pid
    BY <1>1, <1>3, <1>5 DEF RecordInv, ThreadsInv, WritesPid
  <1>8. PICK of \in Instance : processes[updates[t].pid].of = of
    BY <1>1 DEF AgentInv, CallsAgree
  <1> QED
    BY <1>1, <1>6, <1>7, <1>8, RunningRecords

\* A call that fails leaves the instance unsettled.
LEMMA FailRecords ==
    ASSUME AgentInv, RecordInv, NEW t \in Thread, Running(t), Fail(t),
           rows' = rows, instanceMap' = instanceMap,
           processes' = processes, reports' = reports, deploying' = deploying,
           instanceProcessesMap' = instanceProcessesMap
    PROVE  RecordInv'
  <1>1. PICK u \in [pc : UpdatePc, pid : KillCmd, cmd : KillCmd, missing : BOOLEAN] :
           /\ u.pc = "failed" /\ u.pid = updates[t].pid
           /\ updates' = [updates EXCEPT ![t] = u]
    BY FailType
  <1>2. PICK of \in Instance : processes[updates[t].pid].of = of
    BY DEF AgentInv, CallsAgree
  <1> QED
    BY <1>1, <1>2, RunningRecords

\* getAppServerInstance or updateAppServerInstance fails.
LEMMA CallFailsRecords ==
    ASSUME AgentInv, RecordInv, NEW t \in Thread, CallFails(t)
    PROVE  RecordInv'
  <1>1. /\ rows' = rows /\ processes' = processes /\ reports' = reports
        /\ deploying' = deploying /\ instanceProcessesMap' = instanceProcessesMap
        /\ instanceMap' = instanceMap /\ Running(t) /\ Fail(t)
    BY DEF CallFails, armed, maps, Running
  <1> QED
    BY <1>1, FailRecords

\* A row that is written holds a process number; one that is not, or whose answer
\* is lost, is one of a call that failed.
LEMMA WriteRowRecords ==
    ASSUME AgentInv, RecordInv, NEW t \in Thread, WriteRow(t)
    PROVE  RecordInv'
  <1>1. /\ processes' = processes /\ reports' = reports /\ deploying' = deploying
        /\ instanceProcessesMap' = instanceProcessesMap /\ instanceMap' = instanceMap
        /\ Running(t) /\ updates[t].pc = "write"
    BY DEF WriteRow, maps, Running
  <1>2. PICK of \in Instance : processes[updates[t].pid].of = of
    BY <1>1 DEF AgentInv, CallsAgree
  <1>3. PICK cmd \in Pid : cmd = updates[t].cmd
    BY <1>1 DEF RecordInv, ThreadsInv, WritesPid
  <1>4. CASE rows' = rows /\ Fail(t)
    BY <1>1, <1>4, FailRecords
  <1>5. CASE rows' = [rows EXCEPT ![of] = cmd]
    <2>1. PICK u \in [pc : UpdatePc, pid : KillCmd, cmd : KillCmd, missing : BOOLEAN] :
             /\ u.pc \in {"idle", "failed"} /\ (u.pc = "idle" => u.pid = NoPid)
             /\ updates' = [updates EXCEPT ![t] = u]
      <3>1. CASE updates' = [updates EXCEPT ![t] = Idle]
        BY <3>1, IdleType
      <3>2. CASE Fail(t)
        BY <3>2, FailType
      <3>3. updates' = [updates EXCEPT ![t] = Idle] \/ Fail(t)
        BY DEF WriteRow
      <3> QED
        BY <3>1, <3>2, <3>3
    <2>2. u.pc \notin {"find", "write"}
      BY <2>1
    <2>3. \A j \in Instance \ {of} : rows'[j] = rows[j] /\ instanceMap'[j] = instanceMap[j]
      BY <1>1, <1>5 DEF AgentInv, TypeOK
    <2>4. (instanceMap[of] # Absent /\ HasReported(of) /\ ~Unsettled(of))' => (rows[of] \in Pid)'
      BY <1>5 DEF AgentInv, TypeOK
    <2> QED
      BY <1>1, <1>2, <2>1, <2>2, <2>3, <2>4, RunningRecords
  <1> QED
    BY <1>2, <1>3, <1>4, <1>5 DEF WriteRow, InstanceOf

\* After a crash the agent knows no instance.
LEMMA CrashRecords ==
    ASSUME AgentInv, RecordInv, Crash
    PROVE  RecordInv'
  <1>1. /\ rows' = rows /\ processes' = processes
        /\ instanceMap' = [i \in Instance |-> Absent]
    BY DEF Crash, armed
  <1>2. \A t \in Thread : updates'[t] = updates[t] \/ updates'[t] = Idle
    BY DEF Crash
  <1>3. Idle.pc = "idle" /\ Idle.pid = NoPid
    BY DEF Idle, Call
  <1>4. \A p \in Pid : reports'[p] # "ended" => reports[p] # "ended"
    BY DEF Crash
  <1>5. \A i \in Instance : deploying'[i].pc \in {"none", "waiting", "checking"}
                              => deploying[i].pc \in {"none", "waiting", "checking"}
    <2> SUFFICES ASSUME NEW i \in Instance,
                        deploying[i].pc \notin {"none", "waiting", "checking"}
                 PROVE  deploying'[i].pc \notin {"none", "waiting", "checking"}
      OBVIOUS
    <2>1. \/ deploying'[i] = [deploying[i] EXCEPT !.pc = "ended"]
          \/ deploying'[i] = deploying[i]
      BY DEF Crash
    <2>2. [deploying[i] EXCEPT !.pc = "ended"].pc = "ended"
      BY CallAndDeploymentTypes
    <2> QED
      BY <2>1, <2>2
  <1>6. /\ \A r \in Pid : <<"report", r>> \in Thread
        /\ \A j \in Instance : <<"deploy", j>> \in Thread
    BY DEF Thread
  <1>7. ThreadsInv'
    <2>1. FreshThreads'
      BY <1>2, <1>3, <1>4, <1>5, <1>6 DEF RecordInv, ThreadsInv, FreshThreads
    <2>2. StartedInOrder' /\ RestingHoldNothing' /\ WritesPid'
      BY <1>1, <1>2, <1>3
         DEF RecordInv, ThreadsInv, StartedInOrder, RestingHoldNothing, WritesPid
    <2> QED
      BY <2>1, <2>2 DEF ThreadsInv
  <1>8. PidIsRecorded'
    BY <1>1 DEF PidIsRecorded
  <1> QED
    BY <1>7, <1>8 DEF RecordInv

\* Once the agent knows an instance and its last process, the manager has a
\* process number.
THEOREM PidRecorded == Spec => []PidIsRecorded
  <1>1. Init => RecordInv
    <2> SUFFICES ASSUME Init PROVE RecordInv
      OBVIOUS
    <2>1. Idle.pc = "idle" /\ Idle.pid = NoPid
      BY DEF Idle, Call
    <2>2. /\ \A r \in Pid : <<"report", r>> \in Thread
          /\ \A j \in Instance : <<"deploy", j>> \in Thread
      BY DEF Thread
    <2>3. /\ \A p \in Pid : processes[p].state = "unused"
          /\ \A t \in Thread : updates[t] = Idle
          /\ \A i \in Instance : instanceMap[i] = Absent
      BY DEF Init
    <2>4. ThreadsInv
      BY <2>1, <2>2, <2>3
         DEF ThreadsInv, StartedInOrder, RestingHoldNothing, FreshThreads, WritesPid
    <2>5. PidIsRecorded
      BY <2>3 DEF PidIsRecorded
    <2> QED
      BY <2>4, <2>5 DEF RecordInv
  <1>2. AgentInv /\ RecordInv /\ [Next]_vars => RecordInv'
    <2> SUFFICES ASSUME AgentInv, RecordInv, [Next]_vars PROVE RecordInv'
      OBVIOUS
    <2>1. CASE \/ Register \/ StartBeat \/ List \/ StartupFails \/ Started
               \/ Beat \/ BeatFails \/ Bind \/ Unregister
               \/ Age \/ Inspect \/ MarkStoped \/ Restart
      BY <2>1, OthersRecord
    <2>2. CASE Crash
      BY <2>2, CrashRecords
    <2>3. ASSUME NEW i \in Instance, Startup(i) \/ Deploy(i)
          PROVE  RecordInv'
      BY <2>3, StartRecords
    <2>4. ASSUME NEW i \in Instance,
                 \/ RegisterInstance(i) \/ CheckProcess(i) \/ Updated(i)
                 \/ Answer(i) \/ FindInstance(i) \/ InsertInstance(i)
          PROVE  RecordInv'
      BY <2>4, DeploymentRecords, CheckProcessRecords
    <2>5. ASSUME NEW p \in Pid,
                 Serve(p) \/ Die(p) \/ Report(p) \/ ReportFails(p) \/ Execute(p)
          PROVE  RecordInv'
      BY <2>5, ProcessesRecord, OthersRecord, ExecuteRecords
    <2>6. ASSUME NEW t \in Thread,
                 \/ GetInstance(t) \/ CompleteFetched(t)
                 \/ FindRow(t) \/ WriteRow(t) \/ CallFails(t)
          PROVE  RecordInv'
      BY <2>6, GetInstanceRecords, CompleteFetchedRecords, FindRowRecords, WriteRowRecords,
         CallFailsRecords
    <2>7. CASE UNCHANGED vars
      <3>1. /\ rows' = rows /\ processes' = processes /\ updates' = updates
            /\ instanceMap' = instanceMap /\ instanceProcessesMap' = instanceProcessesMap
            /\ deploying' = deploying /\ reports' = reports
        BY <2>7 DEF vars, armed, maps, work
      <3> QED
        BY <3>1 DEF RecordInv, ThreadsInv, StartedInOrder, RestingHoldNothing, FreshThreads,
                    WritesPid, PidIsRecorded, HasReported, Unsettled, InstanceOf
    <2> QED
      BY <2>1, <2>2, <2>3, <2>4, <2>5, <2>6, <2>7 DEF Next
  <1>3. RecordInv => PidIsRecorded
    BY DEF RecordInv
  <1> QED
    BY <1>1, <1>2, <1>3, AgentInvariant, PTL DEF Spec
=============================================================================
