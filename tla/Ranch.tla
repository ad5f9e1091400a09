------------------------------- MODULE Ranch -------------------------------
(***************************************************************************)
(* The management group of one application (worker/Ranch.java) together    *)
(* with a task dispatcher that it reports to.                              *)
(*                                                                         *)
(* Every running instance has a Ranch, here named by the instance itself.  *)
(* The Ranches of an application form a JGroups group; its first member is *)
(* the coordinator, the only one that also joins the dispatchers' group.   *)
(* The others send the coordinator their registration and, every ten       *)
(* seconds, their load; it relays registrations and reports all instances  *)
(* it has the load of, itself included.                                    *)
(*                                                                         *)
(* JGroups is external.  Modelled of it: the membership is agreed on, and  *)
(* every member gets each view later, in order; messages between two       *)
(* members are reliable and in order, but what a departed member sent is   *)
(* dropped once the view without it is installed, but for a message that a *)
(* thread has in its hands; a crashed member is suspected by the others    *)
(* before or after that view.  The channel has the new view before the     *)
(* callback viewAccepted runs.  That callback has a thread, and the        *)
(* messages of each sender have one, which share the maps of a Ranch       *)
(* without a lock for more than a single call.  No member is suspected     *)
(* that did not crash, and the group does not split.                       *)
(*                                                                         *)
(* The dispatcher handles one message at a time here: CattleManager has    *)
(* its threads.  One host name stands for those of the application.        *)
(***************************************************************************)
EXTENDS Shed, SequencesExt

CONSTANTS
    NoCattle,           \* null
    DeployedAfter,      \* the instances that are deployed before an instance
    ViewsDuringStart,   \* may a view arrive while the constructor still runs?
    Commands,           \* the commands ServerService may give to a Ranch
    MaxRunning,         \* bound: instances running at the same time
    MaxCrashes, MaxStops, MaxRestarts, MaxCommands,  \* bounds on how often
    MaxEvents,          \* bound: all of these together
    MaxQueue            \* bound: periodic messages wait for a shorter queue

GroupOp == {"REGISTER", "UNREGISTER", "LOAD", "RANCH_LOAD", "COORDINATOR",
            "APP_PAUSE", "APP_SET_DEFAULT_VERSION"}

RanchMessage == [op : GroupOp, cattle : Cattle, load : SUBSET Cattle,
                 version : AppVersion \cup {NoVersion}]

ASSUME RanchAssumption ==
    /\ NoCattle \notin Cattle
    /\ DeployedAfter \in [Cattle -> SUBSET Cattle]
    /\ ViewsDuringStart \in BOOLEAN
    /\ Commands \subseteq [op : {"APP_PAUSE", "APP_SET_DEFAULT_VERSION"},
                           version : AppVersion \cup {NoVersion}]
    /\ {MaxRunning, MaxCrashes, MaxStops, MaxRestarts, MaxCommands, MaxEvents,
        MaxQueue} \subseteq Nat

VARIABLES
    ranch,       \* the fields of each Ranch
    group,       \* the members JGroups agrees on, the coordinator first
    views,       \* the views each member has not been given yet
    suspects,    \* the suspicions each member has not been given yet
    chan,        \* chan[s][m]: messages from s to m in the management group
    toTd,        \* messages each Ranch sent in the dispatchers' group
    syn,         \* the Ranches a TASK_SYN of the dispatcher is under way to
    tdSuspects,  \* the suspicions the dispatcher has not been given yet
    shed,        \* the dispatcher's Shed for the application
    paused,      \* are the hosts of the application paused?
    managers,    \* ranchManagerAddrs of the dispatcher
    used         \* how often each bounded event happened

groupVars == <<group, views, suspects>>
tdVars    == <<syn, tdSuspects, shed, paused, managers>>
vars      == <<ranch, group, views, suspects, chan, toTd, syn, tdSuspects, shed,
               paused, managers, used>>

RanchState == [status : {"new", "up", "stoped", "crashed"},
               localAddress : BOOLEAN,              \* has it been assigned?
               coordinatorAddress : Cattle \cup {NoCattle},
               ranchMgrChannel : BOOLEAN,           \* is the channel open?
               taskDispatcherChannel : BOOLEAN,
               view : Seq(Cattle),                  \* the channel's view
               accepting : BOOLEAN,                 \* viewAccepted is still to run
               scanning : BOOLEAN,                  \* viewAccepted goes over the addresses
               keys : SUBSET Cattle,                \* the addresses when it began
               toScan : SUBSET Cattle,              \* those it has not come to
               storing : SUBSET Cattle,             \* senders of loads half stored
               leftover : SUBSET Cattle,            \* history: who may not be cleaned up
               cattleLoad : SUBSET Cattle,
               cattleAddress : SUBSET Cattle]

NewRanch == [status |-> "new", localAddress |-> FALSE, coordinatorAddress |-> NoCattle,
             ranchMgrChannel |-> FALSE, taskDispatcherChannel |-> FALSE,
             view |-> <<>>, accepting |-> FALSE, scanning |-> FALSE, keys |-> {},
             toScan |-> {}, storing |-> {}, leftover |-> {}, cattleLoad |-> {},
             cattleAddress |-> {}]

-----------------------------------------------------------------------------
(* JGroups. *)

Msg(op, c) == [op |-> op, cattle |-> c, load |-> {}, version |-> NoVersion]

\* The members get a view, other than those that install it at once.
Announce(members, except) ==
    views' = [m \in Cattle |-> IF m \in ToSet(members) \ except
                               THEN Append(views[m], members) ELSE views[m]]

Place(seq, n) == CHOOSE i \in DOMAIN seq : seq[i] = n

\* A member occurs once.
Without(seq, n) ==
    IF n \in ToSet(seq)
    THEN SubSeq(seq, 1, Place(seq, n) - 1) \o SubSeq(seq, Place(seq, n) + 1, Len(seq))
    ELSE seq

\* The channel of n leaves its group, and failed tells whether the others suspect
\* it.  What is sent to a member that left reaches nobody.
LeavesGroup(n, failed) ==
    /\ group' = Without(group, n)
    /\ suspects' = [m \in Cattle |->
                       IF m = n THEN {}
                       ELSE IF failed /\ m \in ToSet(group)
                            THEN suspects[m] \cup {n} ELSE suspects[m]]
    /\ views' = [m \in Cattle |-> IF m = n THEN <<>>
                                  ELSE IF {m, n} \subseteq ToSet(group)
                                       THEN Append(views[m], group') ELSE views[m]]

Sent(queues, from, to, msg) ==
    IF to \in ToSet(group) THEN [queues EXCEPT ![from][to] = Append(@, msg)] ELSE queues

DroppedFor(n, queues) == [s \in Cattle |-> [queues[s] EXCEPT ![n] = <<>>]]

\* send on the dispatchers' channel; a null channel is logged, nothing else.
SentToTd(n, msgs) == IF ranch[n].taskDispatcherChannel
                     THEN [toTd EXCEPT ![n] = @ \o msgs] ELSE toTd

\* A member that leaves the dispatchers' group will never be suspected in it.
ForgetTd(n) == [managers EXCEPT ![n] = NoCattle]

\* One more of the bounded events.
Happens(event, max) ==
    /\ used[event] < max
    /\ used.crashes + used.stops + used.restarts + used.commands < MaxEvents
    /\ used' = [used EXCEPT ![event] = @ + 1]

-----------------------------------------------------------------------------
(* Ranch. *)

InGroup(n) == ranch[n].status = "up" /\ ranch[n].ranchMgrChannel

IsCoordinator(n) == ranch[n].localAddress /\ ranch[n].coordinatorAddress = n

\* closeChannels, as a change of the fields.  What the callbacks still do without
\* channels shows nowhere.
Closed(state) == [state EXCEPT !.ranchMgrChannel = FALSE, !.taskDispatcherChannel = FALSE,
                               !.view = <<>>, !.accepting = FALSE, !.scanning = FALSE,
                               !.keys = {}, !.toScan = {}, !.storing = {}]

\* Slip: every member joins the dispatchers' group.
JoinSpeaking(n) ==
    LET members == Append(group, n)
    IN  /\ ranch[n].status = "new"
        /\ \A m \in DeployedAfter[n] : ranch[m].status # "new"
        /\ Cardinality({m \in Cattle : ranch[m].status = "up"}) < MaxRunning
        /\ group' = members
        /\ Announce(members, {n})
        /\ ranch' = [ranch EXCEPT ![n] =
                        [NewRanch EXCEPT !.status = "up", !.ranchMgrChannel = TRUE,
                            !.view = members, !.coordinatorAddress = Head(members),
                            !.taskDispatcherChannel = TRUE]]
        /\ UNCHANGED <<suspects, chan, toTd, tdVars, used>>

\* joinRanchGroup up to connect, which runs viewAccepted before localAddress is
\* assigned: only a group of one makes its member join the dispatchers' group.
Join(n) ==
    LET members == Append(group, n)
    IN  /\ ranch[n].status = "new"
        /\ \A m \in DeployedAfter[n] : ranch[m].status # "new"
        /\ Cardinality({m \in Cattle : ranch[m].status = "up"}) < MaxRunning
        /\ group' = members
        /\ Announce(members, {n})
        /\ ranch' = [ranch EXCEPT ![n] =
                        [NewRanch EXCEPT !.status = "up", !.ranchMgrChannel = TRUE,
                            !.view = members, !.coordinatorAddress = Head(members),
                            !.taskDispatcherChannel = (Len(members) = 1)]]
        /\ UNCHANGED <<suspects, chan, toTd, tdVars, used>>

\* The rest of joinRanchGroup and the assignment in init.
Started(n) ==
    /\ InGroup(n) /\ ~ranch[n].localAddress
    /\ ~ranch[n].accepting /\ ~ranch[n].scanning
    /\ chan' = Sent(chan, n, ranch[n].coordinatorAddress, Msg("REGISTER", n))
    /\ ranch' = [ranch EXCEPT ![n].localAddress = TRUE]
    /\ UNCHANGED <<groupVars, toTd, tdVars, used>>

\* The channel of m installs a view, and the callback runs on a thread of its own.
\* A message of a departed member is dropped, unless a thread has it in its hands.
InstallView(m) ==
    LET departed == ToSet(ranch[m].view) \ ToSet(Head(views[m]))
    IN  /\ InGroup(m) /\ ~ranch[m].accepting /\ ~ranch[m].scanning /\ views[m] # <<>>
        /\ ranch[m].localAddress \/ ViewsDuringStart
        /\ ranch' = [ranch EXCEPT ![m].view = Head(views[m]), ![m].accepting = TRUE]
        /\ views' = [views EXCEPT ![m] = Tail(@)]
        /\ \E inHands \in SUBSET {s \in departed \ ranch[m].storing : chan[s][m] # <<>>} :
              chan' = [s \in Cattle |->
                          IF s \in inHands THEN [chan[s] EXCEPT ![m] = <<Head(@)>>]
                          ELSE IF s \in departed THEN [chan[s] EXCEPT ![m] = <<>>]
                          ELSE chan[s]]
        /\ UNCHANGED <<group, suspects, toTd, tdVars, used>>

\* prcessViewAccepted up to the loop over the addresses, which does nothing if no
\* member is missing.
AcceptView(m) ==
    LET members == ranch[m].view
        missing == ranch[m].cattleAddress \ ToSet(members)
        keys == IF missing = {} THEN {} ELSE ranch[m].cattleAddress
        unnoticed == IF Head(members) = m THEN missing ELSE {}
    IN  /\ InGroup(m) /\ ranch[m].accepting
        /\ IF Len(members) = 1 \/ (ranch[m].localAddress /\ Head(members) = m)
           THEN /\ ranch' = [ranch EXCEPT ![m] =
                       [ranch[m] EXCEPT !.accepting = FALSE,
                                        !.coordinatorAddress = Head(members),
                                        !.taskDispatcherChannel = TRUE,
                                        !.scanning = (missing # {}),
                                        !.keys = keys, !.toScan = keys]]
                /\ UNCHANGED managers
           ELSE /\ ranch' = [ranch EXCEPT ![m] =
                       [ranch[m] EXCEPT !.accepting = FALSE,
                                        !.coordinatorAddress = Head(members),
                                        !.taskDispatcherChannel = FALSE,
                                        !.leftover = @ \cup unnoticed]]
                /\ managers' = IF ranch[m].taskDispatcherChannel THEN ForgetTd(m)
                               ELSE managers
        /\ UNCHANGED <<groupVars, chan, toTd, syn, tdSuspects, shed, paused, used>>

\* Slip: the load of a missing member is kept.
ScanMemberKeepingLoad(m, c) ==
    /\ ranch[m].scanning /\ c \in ranch[m].toScan
    /\ ranch[m].cattleAddress = ranch[m].keys
    /\ ranch' = [ranch EXCEPT ![m] = [ranch[m] EXCEPT !.toScan = @ \ {c}]]
    /\ toTd' = IF c \in ToSet(ranch[m].view) THEN toTd
               ELSE SentToTd(m, <<Msg("UNREGISTER", c)>>)
    /\ UNCHANGED <<groupVars, chan, tdVars, used>>

\* One turn of the loop.  The iterator is of the map itself, and goes on as long as
\* no address came to it.
ScanMember(m, c) ==
    LET rest == [ranch[m] EXCEPT !.toScan = @ \ {c}]
    IN  /\ ranch[m].scanning /\ c \in ranch[m].toScan
        /\ ranch[m].cattleAddress = ranch[m].keys
        /\ \/ /\ c \in ToSet(ranch[m].view)
              /\ ranch' = [ranch EXCEPT ![m] = rest]
              /\ UNCHANGED toTd
           \/ /\ c \notin ToSet(ranch[m].view)
              /\ ranch' = [ranch EXCEPT ![m] = [rest EXCEPT !.cattleLoad = @ \ {c},
                                                            !.leftover = @ \ {c}]]
              /\ toTd' = SentToTd(m, <<Msg("UNREGISTER", c)>>)
        /\ UNCHANGED <<groupVars, chan, tdVars, used>>

\* The second loop removes the addresses of the missing members.
ScanEnds(m) ==
    LET missing == ranch[m].keys \ ToSet(ranch[m].view)
    IN  /\ ranch[m].scanning /\ ranch[m].toScan = {}
        /\ ranch' = [ranch EXCEPT ![m] =
               [ranch[m] EXCEPT !.scanning = FALSE, !.keys = {},
                                !.cattleAddress = @ \ missing,
                                !.leftover = @ \cup (missing \cap ranch[m].storing)]]
        /\ UNCHANGED <<groupVars, chan, toTd, tdVars, used>>

\* An address came during the loop: a ConcurrentModificationException ends it.
ScanFails(m) ==
    /\ ranch[m].scanning /\ ranch[m].toScan # {}
    /\ ranch[m].cattleAddress # ranch[m].keys
    /\ ranch' = [ranch EXCEPT ![m] =
           [ranch[m] EXCEPT !.scanning = FALSE, !.keys = {}, !.toScan = {},
                            !.leftover = @ \cup (ranch[m].toScan \ ToSet(ranch[m].view))]]
    /\ UNCHANGED <<groupVars, chan, toTd, tdVars, used>>

\* processReceivedMessage, of a LOAD up to the put of the address.
Deliver(s, m) ==
    LET msg   == Head(chan[s][m])
        heard == [ranch[m] EXCEPT !.cattleAddress = @ \cup {s}]
    IN  /\ InGroup(m) /\ chan[s][m] # <<>> /\ s \notin ranch[m].storing
        /\ chan' = [chan EXCEPT ![s][m] = Tail(@)]
        /\ \/ /\ msg.op = "LOAD"
              /\ ranch' = [ranch EXCEPT ![m] = [heard EXCEPT !.storing = @ \cup {s}]]
              /\ UNCHANGED toTd
           \/ /\ msg.op = "COORDINATOR"
              /\ ranch' = [ranch EXCEPT ![m] =
                     IF ranch[m].localAddress /\ s # m
                     THEN [heard EXCEPT !.coordinatorAddress = s] ELSE heard]
              /\ UNCHANGED toTd
           \/ /\ msg.op \notin {"LOAD", "COORDINATOR"}
              /\ ranch' = [ranch EXCEPT ![m] = heard]
              /\ toTd' = IF IsCoordinator(m) THEN SentToTd(m, <<msg>>) ELSE toTd
        /\ UNCHANGED <<groupVars, tdVars, used>>

\* The put of the load, which may come after a view without its sender.
StoreLoad(s, m) ==
    /\ s \in ranch[m].storing
    /\ ranch' = [ranch EXCEPT ![m] =
           [ranch[m] EXCEPT !.storing = @ \ {s},
                            !.cattleLoad = @ \cup {s},
                            !.leftover = IF s \in ToSet(ranch[m].view) THEN @
                                         ELSE @ \cup {s}]]
    /\ UNCHANGED <<groupVars, chan, toTd, tdVars, used>>

\* suspect at a coordinator: unregister the failed instance, which closes the
\* coordinator's own channels.
SuspectAsCoordinator(m, s) ==
    /\ InGroup(m) /\ s \in suspects[m] /\ IsCoordinator(m)
    /\ IF s \in ranch[m].cattleAddress
       THEN /\ toTd' = SentToTd(m, <<Msg("UNREGISTER", s)>>)
            /\ ranch' = [ranch EXCEPT ![m] = Closed(@)]
            /\ managers' = ForgetTd(m)
            /\ chan' = DroppedFor(m, chan)
            /\ LeavesGroup(m, FALSE)
       ELSE /\ suspects' = [suspects EXCEPT ![m] = @ \ {s}]
            /\ UNCHANGED <<toTd, ranch, managers, chan, group, views>>
    /\ UNCHANGED <<syn, tdSuspects, shed, paused, used>>

\* suspect elsewhere: the first member of the channel's view takes over.  The
\* addresses are compared by reference, so the same address may differ.
SuspectTakesOver(m, s) ==
    LET members == ranch[m].view
        taking  == [ranch[m] EXCEPT !.coordinatorAddress = m,
                                    !.taskDispatcherChannel = TRUE]
    IN  /\ InGroup(m) /\ s \in suspects[m] /\ ~IsCoordinator(m)
        /\ Head(members) = m
        /\ IF s \in ranch[m].cattleAddress
           THEN /\ toTd' = [toTd EXCEPT ![m] = Append(@, Msg("UNREGISTER", s))]
                /\ ranch' = [ranch EXCEPT ![m] = Closed(taking)]
                /\ chan' = DroppedFor(m, chan)
                /\ LeavesGroup(m, FALSE)
           ELSE /\ toTd' = [toTd EXCEPT ![m] = Append(@, Msg("REGISTER", m))]
                /\ ranch' = [ranch EXCEPT ![m] = taking]
                /\ chan' = [chan EXCEPT ![m] = [c \in Cattle |->
                              IF c \in ToSet(members) \cap ToSet(group)
                              THEN Append(chan[m][c], Msg("COORDINATOR", m)) ELSE chan[m][c]]]
                /\ suspects' = [suspects EXCEPT ![m] = @ \ {s}]
                /\ UNCHANGED <<group, views>>
        /\ UNCHANGED <<tdVars, used>>

SuspectIgnored(m, s) ==
    /\ InGroup(m) /\ s \in suspects[m] /\ ~IsCoordinator(m)
    /\ Len(ranch[m].view) > 1
    /\ suspects' = [suspects EXCEPT ![m] = @ \ {s}]
    /\ UNCHANGED <<ranch, group, views, chan, toTd, tdVars, used>>

\* Slip: the coordinator leaves itself out.
SendRanchLoadOfOthers(n) ==
    /\ ranch[n].status = "up" /\ IsCoordinator(n)
    /\ ranch[n].cattleLoad # {}
    /\ Len(toTd[n]) < MaxQueue
    /\ toTd' = SentToTd(n, <<[Msg("RANCH_LOAD", n) EXCEPT !.load = ranch[n].cattleLoad]>>)
    /\ UNCHANGED <<ranch, groupVars, chan, tdVars, used>>

\* One turn of run, every ten seconds: the coordinator reports, others send it
\* their load.
SendRanchLoad(n) ==
    LET cattles == ranch[n].cattleLoad \cup {n}
    IN  /\ ranch[n].status = "up" /\ IsCoordinator(n)
        /\ Len(toTd[n]) < MaxQueue
        /\ ranch' = [ranch EXCEPT ![n].cattleLoad = cattles]
        /\ toTd' = SentToTd(n, <<[Msg("RANCH_LOAD", n) EXCEPT !.load = cattles]>>)
        /\ UNCHANGED <<groupVars, chan, tdVars, used>>

SendLocalLoad(n) ==
    LET coordinator == ranch[n].coordinatorAddress
    IN  /\ InGroup(n) /\ ranch[n].localAddress /\ ~IsCoordinator(n)
        /\ Len(chan[n][coordinator]) < MaxQueue
        /\ chan' = Sent(chan, n, coordinator, Msg("LOAD", n))
        /\ UNCHANGED <<ranch, groupVars, toTd, tdVars, used>>

\* The coordinator's answer to the TASK_SYN of a dispatcher.
AnswerSyn(n) ==
    /\ n \in syn
    /\ syn' = syn \ {n}
    /\ toTd' = IF ranch[n].status = "up" /\ IsCoordinator(n)
               THEN SentToTd(n, <<[Msg("RANCH_LOAD", n) EXCEPT
                                      !.load = ranch[n].cattleLoad \cup {n}]>>)
               ELSE toTd
    /\ UNCHANGED <<ranch, groupVars, chan, tdSuspects, shed, paused, managers, used>>

\* Messages for the dispatchers, which the coordinator sends itself and the others
\* hand to the coordinator.
Submit(n, msg, queues) ==
    IF IsCoordinator(n) THEN toTd' = SentToTd(n, <<msg>>) /\ chan' = queues
    ELSE /\ chan' = IF ranch[n].ranchMgrChannel
                    THEN Sent(queues, n, ranch[n].coordinatorAddress, msg) ELSE queues
         /\ UNCHANGED toTd

\* pauseApp and setAppDefaultVersion.
Command(n, k) ==
    /\ ranch[n].status = "up" /\ ranch[n].localAddress
    /\ Happens("commands", MaxCommands)
    /\ Submit(n, [Msg(k.op, n) EXCEPT !.version = k.version], chan)
    /\ UNCHANGED <<ranch, groupVars, tdVars>>

\* unregister, which a graceful upgrade calls: the instance leaves its groups, but
\* it runs on, and so does the loop of its Ranch.
Unregister(n) ==
    /\ InGroup(n) /\ ranch[n].localAddress
    /\ Happens("commands", MaxCommands)
    /\ Submit(n, Msg("UNREGISTER", n), DroppedFor(n, chan))
    /\ ranch' = [ranch EXCEPT ![n] = Closed(@)]
    /\ managers' = ForgetTd(n)
    /\ LeavesGroup(n, FALSE)
    /\ UNCHANGED <<syn, tdSuspects, shed, paused>>

\* stop.
Stop(n) ==
    /\ ranch[n].status = "up" /\ ranch[n].localAddress
    /\ Happens("stops", MaxStops)
    /\ Submit(n, Msg("UNREGISTER", n), DroppedFor(n, chan))
    /\ ranch' = [ranch EXCEPT ![n] = [Closed(@) EXCEPT !.status = "stoped"]]
    /\ managers' = ForgetTd(n)
    /\ LeavesGroup(n, FALSE)
    /\ UNCHANGED <<syn, tdSuspects, shed, paused>>

\* The process ends; messages of its last moments may be lost.
Crash(n) ==
    /\ ranch[n].status = "up"
    /\ Happens("crashes", MaxCrashes)
    /\ ranch' = [ranch EXCEPT ![n] = [Closed(@) EXCEPT !.status = "crashed"]]
    /\ \E k \in 0 .. Len(toTd[n]) : toTd' = [toTd EXCEPT ![n] = SubSeq(@, 1, k)]
    /\ tdSuspects' = IF ranch[n].taskDispatcherChannel THEN tdSuspects \cup {n}
                     ELSE tdSuspects
    /\ chan' = DroppedFor(n, chan)
    /\ LeavesGroup(n, n \in ToSet(group))
    /\ UNCHANGED <<syn, shed, paused, managers>>

-----------------------------------------------------------------------------
(* The dispatcher. *)

\* receive.
Dispatch(n) ==
    LET msg == Head(toTd[n])
    IN  /\ toTd[n] # <<>>
        /\ toTd' = [toTd EXCEPT ![n] = Tail(@)]
        /\ managers' = [managers EXCEPT ![n] = msg.cattle]
        /\ shed' \in CASE msg.op = "REGISTER"   -> {AddCattle(shed, msg.cattle)}
                       [] msg.op = "UNREGISTER" -> {RemoveCattle(shed, msg.cattle)}
                       [] msg.op = "RANCH_LOAD" -> ReloadResults(shed, msg.load)
                       [] msg.op = "APP_SET_DEFAULT_VERSION" ->
                              {SetDefaultVersion(shed, msg.version)}
                       [] OTHER -> {shed}
        /\ paused' = (paused \/ msg.op = "APP_PAUSE")
        /\ UNCHANGED <<ranch, groupVars, chan, syn, tdSuspects, used>>

\* suspect.
SuspectManager(n) ==
    /\ n \in tdSuspects
    /\ tdSuspects' = tdSuspects \ {n}
    /\ managers' = ForgetTd(n)
    /\ shed' = IF managers[n] = NoCattle THEN shed ELSE RemoveCattle(shed, managers[n])
    /\ UNCHANGED <<ranch, groupVars, chan, toTd, syn, paused, used>>

\* The dispatcher fails and starts again: joinGroup sends a TASK_SYN.
RestartDispatcher ==
    /\ Happens("restarts", MaxRestarts)
    /\ shed' = EmptyShed
    /\ paused' = FALSE
    /\ managers' = [n \in Cattle |-> NoCattle]
    /\ tdSuspects' = {}
    /\ toTd' = [n \in Cattle |-> <<>>]
    /\ syn' = {n \in Cattle : ranch[n].taskDispatcherChannel}
    /\ UNCHANGED <<ranch, groupVars, chan>>

-----------------------------------------------------------------------------
Init ==
    /\ ranch = [n \in Cattle |-> NewRanch]
    /\ group = <<>>
    /\ views = [n \in Cattle |-> <<>>]
    /\ suspects = [n \in Cattle |-> {}]
    /\ chan = [s \in Cattle |-> [m \in Cattle |-> <<>>]]
    /\ toTd = [n \in Cattle |-> <<>>]
    /\ syn = {} /\ tdSuspects = {}
    /\ shed = EmptyShed
    /\ paused = FALSE
    /\ managers = [n \in Cattle |-> NoCattle]
    /\ used = [crashes |-> 0, stops |-> 0, restarts |-> 0, commands |-> 0]

\* Failures are detected later than a constructor takes.
Suspect(m, s) ==
    /\ ranch[m].localAddress
    /\ SuspectAsCoordinator(m, s) \/ SuspectTakesOver(m, s) \/ SuspectIgnored(m, s)

\* The thread that is given the views of n, the one that is given what s sends to n,
\* and the loop of n.
Views(n)       == InstallView(n) \/ AcceptView(n) \/ ScanEnds(n) \/ ScanFails(n)
                     \/ \E c \in Cattle : ScanMember(n, c)
Messages(s, n) == Deliver(s, n) \/ StoreLoad(s, n)
Reports(n)     == SendRanchLoad(n) \/ SendLocalLoad(n)

Next ==
    \/ \E n \in Cattle :
          \/ Join(n) \/ Started(n) \/ Views(n) \/ Reports(n) \/ AnswerSyn(n)
          \/ Unregister(n) \/ Stop(n) \/ Crash(n) \/ Dispatch(n) \/ SuspectManager(n)
          \/ \E k \in Commands : Command(n, k)
          \/ \E m \in Cattle : Messages(n, m) \/ Suspect(n, m)
    \/ RestartDispatcher

\* JGroups delivers everything, and every thread goes on.
Fairness ==
    \A n \in Cattle :
        /\ WF_vars(Started(n)) /\ WF_vars(Views(n)) /\ WF_vars(Reports(n))
        /\ WF_vars(AnswerSyn(n)) /\ WF_vars(Dispatch(n)) /\ WF_vars(SuspectManager(n))
        /\ \A m \in Cattle : WF_vars(Messages(n, m)) /\ WF_vars(Suspect(n, m))

Spec == Init /\ [][Next]_vars

FairSpec == Spec /\ Fairness

-----------------------------------------------------------------------------
(* Properties. *)

TypeOK ==
    /\ ranch \in [Cattle -> RanchState]
    /\ group \in Seq(Cattle)
    /\ views \in [Cattle -> Seq(Seq(Cattle))]
    /\ suspects \in [Cattle -> SUBSET Cattle]
    /\ chan \in [Cattle -> [Cattle -> Seq(RanchMessage)]]
    /\ toTd \in [Cattle -> Seq(RanchMessage)]
    /\ syn \subseteq Cattle /\ tdSuspects \subseteq Cattle
    /\ shed \in ShedRecord
    /\ paused \in BOOLEAN
    /\ managers \in [Cattle -> Cattle \cup {NoCattle}]
    /\ used \in [crashes : 0 .. MaxCrashes, stops : 0 .. MaxStops,
                 restarts : 0 .. MaxRestarts, commands : 0 .. MaxCommands]

\* n has handled every view of the group it is in.
Settled(n) == InGroup(n) /\ ~ranch[n].accepting /\ views[n] = <<>>

\* Once the views are handled, only the first member of the group speaks to the
\* dispatchers, through take-overs, crashes and closed channels (Ranch.java:374-409).
OnlyFirstSpeaks ==
    \A n \in Cattle :
        Settled(n) /\ ranch[n].taskDispatcherChannel => Head(group) = n

\* The hazard of a late load is confined: a coordinator that has handled the views
\* has loads of members only, but for instances whose load a thread stored while the
\* view was without them, whose removal was broken off by an address that came during
\* the loop, or that left before the first member knew its own address
\* (Ranch.java:323-333, 381-401).
ReportsMembersOnly ==
    \A n \in Cattle :
        Settled(n) /\ ~ranch[n].scanning /\ IsCoordinator(n) =>
            ranch[n].cattleLoad \subseteq ToSet(group) \cup ranch[n].leftover

Routed(n) == n \in shed.cattles /\ shed.versionsMap[n] > 0

\* Every instance that stays in its group ends up routed, whatever instances stop
\* or crash and however often the dispatcher restarts (Ranch.java:421-445, 475-532).
ConnectedIsRouted == \A n \in Cattle : <>[](InGroup(n) => Routed(n))

\* An instance that stopped, crashed or left its group ends up not routed, as long
\* as one is left to report and none of those left missed its removal as above
\* (Ranch.java:136-163, 374-409, CattleManager.java:480-487).
DepartedIsDropped ==
    \A n \in Cattle :
        <>[](/\ ~InGroup(n)
             /\ \E m \in Cattle : InGroup(m)
             /\ \A m \in Cattle : InGroup(m) => n \notin ranch[m].leftover
             => shed.versionsMap[n] = 0)

\* All instances of the application are reported to the dispatchers, so every
\* running one ends up routed (Ranch.java:35).
RunningIsRouted == \A n \in Cattle : <>[](ranch[n].status = "up" => Routed(n))

=============================================================================
