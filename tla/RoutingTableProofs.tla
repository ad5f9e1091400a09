------------------------- MODULE RoutingTableProofs -------------------------
(***************************************************************************)
(* CattleManager implements RoutingTable: a reload takes effect for all    *)
(* who use the lock of a shed when it empties the shed.                    *)
(*                                                                         *)
(* The refinement mapping is sound because the lock of a shed is held by   *)
(* the handler that fills it and by no one else: LoaderHoldsLock, from     *)
(* CattleManagerProofs, and WriterLoads, the other direction, with         *)
(* ReloadIsExclusive for what such a shed contains.  The default version   *)
(* is mapped step by step: what an instance that is added finds missing is *)
(* written later, and the command for it takes no lock.                    *)
(***************************************************************************)
EXTENDS CattleManagerProofs

\* Who holds the lock of a shed across steps is adding instances to that shed.
WriterLoads ==
    \A s \in ShedId : writer[s] # NoAddress =>
        rx[writer[s]].pc = "locked" /\ rx[writer[s]].shed = s

\* A request under way carries one of the cookies it may carry.
CookiesKnown ==
    \A r \in Request : req[r].pc \notin {"idle", "done"} => req[r].cookie \in Cookies

\* What is done to a shed is one of the four tasks; what is still to be added under
\* its lock was reported.
TaskOps == {"REGISTER", "UNREGISTER", "RANCH_LOAD", "APP_SET_DEFAULT_VERSION"}

TasksKnown ==
    \A a \in Address :
        /\ rx[a].pc \in {"create", "apply"} => rx[a].op \in TaskOps
        /\ rx[a].pc = "locked" /\ rx[a].todo # {} => rx[a].op = "RANCH_LOAD"

RefinementInv ==
    /\ TypeInv /\ LoaderHoldsLock /\ ReloadIsExclusive
    /\ WriterLoads /\ CookiesKnown /\ TasksKnown

-----------------------------------------------------------------------------
(* The parts of the mapping. *)

\* A shed with nothing left to add is filled.
LEMMA FilledWithNothing ==
    ASSUME NEW shed \in ShedRecord
    PROVE  Filled(shed, {}) = shed
BY DEF Filled, ShedRecord

\* A default version is set before or after the rest is added, all the same.
LEMMA FilledDefault ==
    ASSUME NEW shed \in ShedRecord, NEW todo \in SUBSET Cattle,
           NEW v \in AppVersion \cup {NoVersion}
    PROVE  Filled(SetDefaultVersion(shed, v), todo) = SetDefaultVersion(Filled(shed, todo), v)
<1> DEFINE new == SetDefaultVersion(shed, v)
           def == IF v = NoVersion THEN shed.defaultVersion ELSE v
<1>1. /\ new.cattles = shed.cattles /\ new.versionsMap = shed.versionsMap
      /\ new.defaultVersion = def
    BY DEF SetDefaultVersion, ShedRecord
<1>2. \A x, y, z, w : [[cattles |-> x, versionsMap |-> y, defaultVersion |-> z]
                          EXCEPT !.defaultVersion = w]
                        = [cattles |-> x, versionsMap |-> y, defaultVersion |-> w]
    OBVIOUS
<1>3. PICK loads : loads = [c \in Cattle |-> IF c \in todo THEN 1 ELSE shed.versionsMap[c]]
    OBVIOUS
<1>4. Filled(shed, todo) = [cattles |-> shed.cattles \cup todo, versionsMap |-> loads,
                            defaultVersion |-> shed.defaultVersion]
    BY <1>3 DEF Filled
<1>5. Filled(new, todo) = [cattles |-> shed.cattles \cup todo, versionsMap |-> loads,
                           defaultVersion |-> def]
    <2> HIDE DEF new, def
    <2> QED
        BY <1>1, <1>3 DEF Filled
<1>6. SetDefaultVersion(Filled(shed, todo), v) = [Filled(shed, todo) EXCEPT !.defaultVersion = def]
    <2>1. Filled(shed, todo).defaultVersion = shed.defaultVersion
        BY <1>4
    <2>2. CASE v = NoVersion
        BY <2>1, <2>2 DEF SetDefaultVersion
    <2>3. CASE v # NoVersion
        BY <2>3 DEF SetDefaultVersion
    <2> QED
        BY <2>2, <2>3
<1> HIDE DEF new, def
<1>7. Filled(new, todo) = SetDefaultVersion(Filled(shed, todo), v)
    BY <1>2, <1>4, <1>5, <1>6
<1> QED
    BY <1>7 DEF new

\* The four mapped variables, from their parts.
LEMMA TableStutters ==
    ASSUME \A s \in ShedId : TableOf(s)' = TableOf(s),
           \A a \in Address : TaskOf(a)' = TaskOf(a) /\ AdoptionOf(a)' = AdoptionOf(a),
           \A r \in Request : req'[r].version = req[r].version
    PROVE  UNCHANGED Table!vars
BY DEF Table!vars

\* A member that finds no default version.
LEMMA TableFinds ==
    ASSUME NEW a \in Address, NEW s \in ShedId, NEW added, NEW c \in added,
           TableOf(s).defaultVersion = NoVersion,
           AdoptionOf(a)' = [op |-> "adopt", shed |-> s, version |-> VersionOf[c]],
           \A b \in Address : b # a => AdoptionOf(b)' = AdoptionOf(b)
    PROVE  Table!FindsNoDefault(a, s, added)
<1> DEFINE adopting == [b \in Address |-> AdoptionOf(b)]
<1>1. adopting' = [adopting EXCEPT ![a] = [op |-> "adopt", shed |-> s, version |-> VersionOf[c]]]
    OBVIOUS
<1> QED
    BY <1>1 DEF Table!FindsNoDefault

\* What a shed has to do for the abstract table to carry out a command,
LEMMA TablePerforms ==
    ASSUME NEW a \in Address, TaskOf(a).op # "none", TaskOf(a).shed \in ShedId,
           \A s \in ShedId : TableOf(s)' = IF s = TaskOf(a).shed
                                           THEN Table!Effect(TableOf(s), TaskOf(a))
                                           ELSE TableOf(s),
           \A b \in Address : TaskOf(b)' = IF b = a THEN Table!NoTask ELSE TaskOf(b),
           \/ \A b \in Address : AdoptionOf(b)' = AdoptionOf(b)
           \/ /\ TaskOf(a).op = "REGISTER"
              /\ Table!FindsNoDefault(a, TaskOf(a).shed, {TaskOf(a).cattle}),
           UNCHANGED req
    PROVE  Table!Perform(a)
<1> DEFINE table    == [s \in ShedId |-> TableOf(s)]
           pending  == [b \in Address |-> TaskOf(b)]
           adopting == [b \in Address |-> AdoptionOf(b)]
<1>1. pending[a] = TaskOf(a) /\ TaskOf(a) # Table!NoTask
    BY DEF Table!NoTask
<1>2. table' = [table EXCEPT ![TaskOf(a).shed] = Table!Effect(@, TaskOf(a))]
    OBVIOUS
<1>3. pending' = [pending EXCEPT ![a] = Table!NoTask]
    OBVIOUS
<1>4. \/ UNCHANGED adopting
      \/ pending[a].op = "REGISTER"
         /\ Table!FindsNoDefault(a, pending[a].shed, {pending[a].cattle})
    BY <1>1
<1> QED
    BY <1>1, <1>2, <1>3, <1>4 DEF Table!Perform

\* and to accept one.
LEMMA TableAccepts ==
    ASSUME NEW a \in Address, TaskOf(a) = Table!NoTask, TaskOf(a)' \in Table!Task,
           \A s \in ShedId : TableOf(s)' = TableOf(s),
           \A b \in Address : b # a => TaskOf(b)' = TaskOf(b),
           \A b \in Address : AdoptionOf(b)' = AdoptionOf(b),
           UNCHANGED req
    PROVE  Table!Accept(a)
<1> DEFINE table    == [s \in ShedId |-> TableOf(s)]
           pending  == [b \in Address |-> TaskOf(b)]
           adopting == [b \in Address |-> AdoptionOf(b)]
<1>1. pending[a] = Table!NoTask /\ pending'[a] \in Table!Task
    OBVIOUS
<1>2. pending' = [pending EXCEPT ![a] = pending'[a]]
    OBVIOUS
<1>3. UNCHANGED <<table, adopting>>
    OBVIOUS
<1> QED
    BY <1>1, <1>2, <1>3 DEF Table!Accept

\* A shed whose lock nobody takes or gives back looks the same.
LEMMA TableOfKept ==
    ASSUME RefinementInv, NEW s \in ShedId,
           sheds'[s] = sheds[s], writer'[s] = writer[s],
           \/ UNCHANGED rx
           \/ \E a \in Address : /\ \A b \in Address : b # a => rx'[b] = rx[b]
                                 /\ \/ rx[a].pc # "locked"
                                    \/ rx[a].shed # s
    PROVE  TableOf(s)' = TableOf(s)
<1>1. writer[s] \in Address \cup {NoAddress}
    BY DEF RefinementInv, TypeInv, TypeOK
<1>2. writer[s] # NoAddress => rx'[writer[s]] = rx[writer[s]]
    BY <1>1 DEF RefinementInv, WriterLoads
<1> QED
    BY <1>1, <1>2 DEF TableOf

\* A handler that does nothing has the task it had.
LEMMA OthersKeepTask ==
    ASSUME NEW b \in Address, rx'[b] = rx[b]
    PROVE  TaskOf(b)' = TaskOf(b) /\ AdoptionOf(b)' = AdoptionOf(b)
BY DEF TaskOf, AdoptionOf

\* Nor has a handler without a lock anything to adopt.
LEMMA NothingToAdopt ==
    ASSUME NEW a \in Address, TypeInv, rx[a].pc # "locked"
    PROVE  rx[a].adopts = NoVersion /\ AdoptionOf(a) = Table!NoAdoption
BY DEF TypeInv, HandlersReady, AdoptionOf, Table!NoAdoption

\* The handler that holds the lock of its shed is the one that shed is mapped by.
LEMMA LockedShed ==
    ASSUME RefinementInv, NEW a \in Address, rx[a].pc = "locked"
    PROVE  /\ rx[a].shed \in ShedId /\ sheds[rx[a].shed] \in ShedRecord
           /\ writer[rx[a].shed] = a /\ a # NoAddress
           /\ rx[a].todo \in SUBSET Cattle /\ rx[a].adopts \in AppVersion \cup {NoVersion}
           /\ TableOf(rx[a].shed) = Filled(sheds[rx[a].shed], rx[a].todo)
<1>1. rx[a].shed \in ShedId /\ writer[rx[a].shed] = a /\ a # NoAddress
    BY CattleManagerAssumption DEF RefinementInv, TypeInv, HandlersReady, LoaderHoldsLock
<1>2. sheds \in [ShedId -> ShedRecord] /\ rx[a] \in RxState
    BY DEF RefinementInv, TypeInv, TypeOK
<1>3. rx[a].todo \in SUBSET Cattle /\ rx[a].adopts \in AppVersion \cup {NoVersion}
    BY <1>2 DEF RxState
<1> QED
    BY <1>1, <1>2, <1>3 DEF TableOf

-----------------------------------------------------------------------------
(* The steps of a receiver thread. *)

\* The two tasks that are one step of the handler too.
LEMMA SimpleTasks ==
    ASSUME RefinementInv, NEW a \in Address,
           UnregisterCattle(a) \/ ChangeDefaultVersion(a)
    PROVE  Table!Perform(a)
<1>0. /\ rx[a].pc = "apply" /\ rx[a].shed \in ShedId
    BY DEF UnregisterCattle, ChangeDefaultVersion, Applies,
           RefinementInv, TypeInv, HandlersReady
<1> PICK s \in ShedId : s = rx[a].shed
    BY <1>0
<1>1. /\ rx[a].pc = "apply" /\ s = rx[a].shed /\ rx \in [Address -> RxState]
      /\ sheds \in [ShedId -> ShedRecord] /\ writer \in [ShedId -> Address \cup {NoAddress}]
    BY <1>0 DEF RefinementInv, TypeInv, TypeOK
<1>2. /\ UNCHANGED <<writer, req>>
      /\ rx' = [rx EXCEPT ![a].pc = "hosts", ![a].host = NoHost, ![a].shed = NoShed]
    BY DEF UnregisterCattle, ChangeDefaultVersion, NextHost
<1>3. TaskOf(a) = [op |-> rx[a].op, shed |-> s, cattle |-> rx[a].cattle,
                   version |-> rx[a].version, load |-> rx[a].load]
    BY <1>1 DEF TaskOf
<1>4. rx[a].op \in {"UNREGISTER", "APP_SET_DEFAULT_VERSION"}
    BY DEF UnregisterCattle, ChangeDefaultVersion, Applies
<1>5. \A b \in Address : TaskOf(b)' = IF b = a THEN Table!NoTask ELSE TaskOf(b)
    <2>1. TaskOf(a)' = Table!NoTask
        BY <1>1, <1>2 DEF TaskOf, Table!NoTask, RxState
    <2>2. \A b \in Address : b # a => rx'[b] = rx[b]
        BY <1>1, <1>2
    <2> QED
        BY <2>1, <2>2, OthersKeepTask
<1>9. \A b \in Address : AdoptionOf(b)' = AdoptionOf(b)
    <2>1. \A b \in Address : b # a => rx'[b] = rx[b]
        BY <1>1, <1>2
    <2>2. rx'[a].adopts = NoVersion /\ rx[a].adopts = NoVersion
        <3>1. rx'[a].adopts = rx[a].adopts
            BY <1>1, <1>2 DEF RxState
        <3> QED
            BY <1>1, <3>1, NothingToAdopt DEF RefinementInv
    <2> QED
        BY <2>1, <2>2, OthersKeepTask DEF AdoptionOf
<1>6. \A t \in ShedId : t # s => TableOf(t)' = TableOf(t)
    <2> SUFFICES ASSUME NEW t \in ShedId, t # s PROVE TableOf(t)' = TableOf(t)
        OBVIOUS
    <2>1. sheds'[t] = sheds[t]
        BY <1>1 DEF UnregisterCattle, ChangeDefaultVersion
    <2> QED
        BY <1>1, <1>2, <2>1, TableOfKept
<1>7. TableOf(s)' = Table!Effect(TableOf(s), TaskOf(a))
    <2>1. CASE UnregisterCattle(a)
        <3>1. /\ writer[s] = NoAddress /\ rx[a].op = "UNREGISTER"
              /\ sheds'[s] = RemoveCattle(sheds[s], rx[a].cattle)
            BY <1>1, <2>1 DEF UnregisterCattle, WriteUnlocked, Applies
        <3>2. TableOf(s) = sheds[s] /\ TableOf(s)' = sheds'[s]
            BY <1>1, <1>2, <3>1 DEF TableOf
        <3>3. TaskOf(a).op = "UNREGISTER" /\ TaskOf(a).cattle = rx[a].cattle
            BY <1>3, <3>1
        <3>4. Table!RemoveCattle(sheds[s], rx[a].cattle) = RemoveCattle(sheds[s], rx[a].cattle)
            BY DEF Table!RemoveCattle, RemoveCattle
        <3> QED
            BY <3>1, <3>2, <3>3, <3>4 DEF Table!Effect
    <2>2. CASE ChangeDefaultVersion(a)
        <3>1. /\ rx[a].op = "APP_SET_DEFAULT_VERSION"
              /\ sheds'[s] = SetDefaultVersion(sheds[s], rx[a].version)
            BY <1>1, <2>2 DEF ChangeDefaultVersion, Applies
        <3>2. writer[s] # NoAddress => rx'[writer[s]] = rx[writer[s]]
            BY <1>1, <1>2 DEF RefinementInv, WriterLoads
        <3>3. TableOf(s)' = SetDefaultVersion(TableOf(s), rx[a].version)
            <4>1. CASE writer[s] = NoAddress
                BY <1>1, <1>2, <3>1, <4>1 DEF TableOf
            <4>2. CASE writer[s] # NoAddress
                <5> DEFINE todo == rx[writer[s]].todo
                           shed == sheds[s]
                           v    == rx[a].version
                <5>1. TableOf(s) = Filled(shed, todo)
                      /\ TableOf(s)' = Filled(SetDefaultVersion(shed, v), todo)
                    BY <1>2, <3>1, <3>2, <4>2 DEF TableOf
                <5>2. /\ shed \in ShedRecord /\ todo \in SUBSET Cattle
                      /\ v \in AppVersion \cup {NoVersion}
                    BY <1>1, <4>2 DEF RxState
                <5> HIDE DEF shed, todo, v
                <5>3. TableOf(s)' = SetDefaultVersion(TableOf(s), v)
                    BY <5>1, <5>2, FilledDefault
                <5> QED
                    BY <5>3 DEF v
            <4> QED
                BY <4>1, <4>2
        <3> QED
            BY <1>3, <3>1, <3>3 DEF Table!Effect, Table!SetDefaultVersion, SetDefaultVersion
    <2> QED
        BY <2>1, <2>2
<1>8. TaskOf(a).op # "none" /\ TaskOf(a).shed = s
    BY <1>3, <1>4
<1> QED
    BY <1>1, <1>2, <1>5, <1>6, <1>7, <1>8, <1>9, TablePerforms

\* A registration takes effect when the instance is entered; what the default
\* version is to become comes later.
LEMMA RegistrationStarts ==
    ASSUME RefinementInv, NEW a \in Address, RegisterCattle(a)
    PROVE  Table!Perform(a)
<1>0. rx[a].pc = "apply" /\ rx[a].shed \in ShedId /\ rx[a].cattle \in Cattle
    BY DEF RegisterCattle, Applies, RefinementInv, TypeInv, HandlersReady
<1> PICK s \in ShedId : s = rx[a].shed
    BY <1>0
<1>1. /\ rx[a].op = "REGISTER" /\ s = rx[a].shed
      /\ rx \in [Address -> RxState] /\ sheds[s] \in ShedRecord
      /\ sheds \in [ShedId -> ShedRecord] /\ writer \in [ShedId -> Address \cup {NoAddress}]
    BY <1>0 DEF RefinementInv, TypeInv, TypeOK, RegisterCattle, Applies
<1> DEFINE c    == rx[a].cattle
           shed == sheds[s]
           v    == FoundDefault(shed, c)
<1>2. /\ UNCHANGED req /\ writer[s] = NoAddress /\ a # NoAddress
      /\ writer' = [writer EXCEPT ![s] = a]
      /\ sheds' = [sheds EXCEPT ![s] = PutCattle(shed, c)]
      /\ rx' = [rx EXCEPT ![a].pc = "locked", ![a].todo = {}, ![a].adopts = v]
    BY <1>1, CattleManagerAssumption DEF RegisterCattle, WriteUnlocked
<1>3. TaskOf(a) = [op |-> rx[a].op, shed |-> s, cattle |-> c,
                   version |-> rx[a].version, load |-> rx[a].load]
    BY <1>0, <1>1 DEF TaskOf
<1>31. TaskOf(a).op = "REGISTER" /\ TaskOf(a).shed = s /\ TaskOf(a).cattle = c
    BY <1>1, <1>3
<1>4. \A b \in Address : b # a => rx'[b] = rx[b]
    BY <1>1, <1>2
<1> HIDE DEF v
<1>41. rx'[a].pc = "locked" /\ rx'[a].todo = {} /\ rx'[a].adopts = v /\ rx'[a].shed = s
    BY <1>1, <1>2 DEF RxState
<1>5. \A b \in Address : TaskOf(b)' = IF b = a THEN Table!NoTask ELSE TaskOf(b)
    <2>1. TaskOf(a)' = Table!NoTask
        BY <1>41 DEF TaskOf, Table!NoTask
    <2> QED
        BY <1>4, <2>1, OthersKeepTask
<1>6. \A t \in ShedId : t # s => TableOf(t)' = TableOf(t)
    <2> SUFFICES ASSUME NEW t \in ShedId, t # s PROVE TableOf(t)' = TableOf(t)
        OBVIOUS
    <2>1. sheds'[t] = sheds[t] /\ writer'[t] = writer[t]
        BY <1>1, <1>2
    <2> QED
        BY <1>1, <1>4, <2>1, TableOfKept
<1>7. TableOf(s) = shed /\ TableOf(s)' = PutCattle(shed, c)
    <2>1. TableOf(s) = shed
        BY <1>2 DEF TableOf
    <2>2. writer'[s] = a /\ sheds'[s] = PutCattle(shed, c)
        BY <1>1, <1>2
    <2>3. TableOf(s)' = Filled(PutCattle(shed, c), {})
        BY <1>2, <1>41, <2>2 DEF TableOf
    <2> QED
        BY <1>0, <1>1, <2>1, <2>3, PutCattleType, FilledWithNothing
<1>8. TableOf(s)' = Table!Effect(TableOf(s), TaskOf(a))
    <2>1. Table!PutCattle(shed, c) = PutCattle(shed, c)
        BY DEF Table!PutCattle, PutCattle
    <2> QED
        BY <1>7, <1>31, <2>1 DEF Table!Effect
<1>9. \A b \in Address : b # a => AdoptionOf(b)' = AdoptionOf(b)
    BY <1>4, OthersKeepTask
<1>10. CASE shed.defaultVersion # NoVersion
    <2>1. v = NoVersion
        BY <1>10 DEF v, FoundDefault
    <2>2. AdoptionOf(a)' = AdoptionOf(a)
        BY <1>0, <1>41, <2>1, NothingToAdopt DEF AdoptionOf, RefinementInv
    <2> QED
        BY <1>2, <1>5, <1>6, <1>8, <1>9, <1>31, <2>2, TablePerforms
<1>11. CASE shed.defaultVersion = NoVersion
    <2>1. v = VersionOf[c] /\ v # NoVersion
        BY <1>0, <1>11, ShedAssumption DEF v, FoundDefault
    <2>2. AdoptionOf(a)' = [op |-> "adopt", shed |-> s, version |-> VersionOf[c]]
        BY <1>41, <2>1 DEF AdoptionOf
    <2>3. Table!FindsNoDefault(a, s, {c})
        BY <1>7, <1>9, <1>11, <2>2, TableFinds
    <2> QED
        BY <1>2, <1>5, <1>6, <1>8, <1>31, <2>3, TablePerforms
<1> QED
    BY <1>10, <1>11

\* Emptying the shed under its lock stands for the whole reload.
LEMMA ReloadStarts ==
    ASSUME RefinementInv, NEW a \in Address, ReloadClear(a)
    PROVE  Table!Perform(a)
<1>0. rx[a].pc = "apply" /\ rx[a].shed \in ShedId
    BY DEF ReloadClear, Applies, RefinementInv, TypeInv, HandlersReady
<1> PICK s \in ShedId : s = rx[a].shed
    BY <1>0
<1>1. /\ rx[a].pc = "apply" /\ rx[a].op = "RANCH_LOAD" /\ s = rx[a].shed
      /\ rx \in [Address -> RxState] /\ rx[a].load \in SUBSET Cattle
      /\ sheds \in [ShedId -> ShedRecord] /\ writer \in [ShedId -> Address \cup {NoAddress}]
    BY <1>0 DEF RefinementInv, TypeInv, TypeOK, ReloadClear, Applies, RxState
<1>2. /\ UNCHANGED req /\ writer[s] = NoAddress /\ a # NoAddress
      /\ writer' = [writer EXCEPT ![s] = a]
      /\ sheds' = [sheds EXCEPT ![s] = ClearCattles(sheds[s])]
      /\ rx' = [rx EXCEPT ![a].pc = "locked", ![a].todo = rx[a].load]
    BY <1>1, CattleManagerAssumption DEF ReloadClear, WriteUnlocked
<1>3. TaskOf(a) = [op |-> rx[a].op, shed |-> s, cattle |-> rx[a].cattle,
                   version |-> rx[a].version, load |-> rx[a].load]
    BY <1>1 DEF TaskOf
<1>4. \A b \in Address : b # a => rx'[b] = rx[b]
    BY <1>1, <1>2
<1>5. \A b \in Address : TaskOf(b)' = IF b = a THEN Table!NoTask ELSE TaskOf(b)
    <2>1. TaskOf(a)' = Table!NoTask
        BY <1>1, <1>2 DEF TaskOf, Table!NoTask, RxState
    <2> QED
        BY <1>4, <2>1, OthersKeepTask
<1>6. \A t \in ShedId : t # s => TableOf(t)' = TableOf(t)
    <2> SUFFICES ASSUME NEW t \in ShedId, t # s PROVE TableOf(t)' = TableOf(t)
        OBVIOUS
    <2>1. sheds'[t] = sheds[t] /\ writer'[t] = writer[t]
        BY <1>1, <1>2
    <2> QED
        BY <1>1, <1>4, <2>1, TableOfKept
<1>7. TableOf(s)' = Table!Effect(TableOf(s), TaskOf(a))
    <2> DEFINE shed == sheds[s]
               load == rx[a].load
    <2>1. TableOf(s) = shed
        BY <1>2 DEF TableOf
    <2>2. TableOf(s)' = Filled(ClearCattles(shed), load)
        <3>1. writer'[s] = a /\ sheds'[s] = ClearCattles(shed) /\ rx'[a].todo = load
            BY <1>1, <1>2 DEF RxState
        <3> QED
            BY <1>2, <3>1 DEF TableOf
    <2>3. shed \in ShedRecord /\ load \in SUBSET Cattle
        BY <1>1
    <2> HIDE DEF shed, load
    <2>4. Filled(ClearCattles(shed), load) = Table!Loaded(shed, load)
        <3> DEFINE clear == ClearCattles(shed)
        <3>1. /\ clear.cattles = {} /\ clear.defaultVersion = shed.defaultVersion
              /\ \A c \in Cattle : clear.versionsMap[c] = 0
            BY <2>3 DEF ClearCattles, ShedRecord
        <3> HIDE DEF clear
        <3>2. [c \in Cattle |-> IF c \in load THEN 1 ELSE clear.versionsMap[c]]
                = [c \in Cattle |-> IF c \in load THEN 1 ELSE 0]
            BY <3>1
        <3>3. clear.cattles \cup load = load
            BY <3>1
        <3>4. Filled(clear, load) = Table!Loaded(shed, load)
            BY <3>1, <3>2, <3>3 DEF Filled, Table!Loaded
        <3> QED
            BY <3>4 DEF clear
    <2>5. Table!Effect(TableOf(s), TaskOf(a)) = Table!Loaded(shed, load)
        BY <1>1, <1>3, <2>1 DEF Table!Effect, load
    <2> QED
        BY <2>2, <2>4, <2>5
<1>9. \A b \in Address : AdoptionOf(b)' = AdoptionOf(b)
    <2>1. rx'[a].adopts = rx[a].adopts
        BY <1>1, <1>2 DEF RxState
    <2>2. rx[a].adopts = NoVersion
        BY <1>1, NothingToAdopt DEF RefinementInv
    <2> QED
        BY <1>4, <2>1, <2>2, OthersKeepTask DEF AdoptionOf
<1>8. TaskOf(a).op # "none" /\ TaskOf(a).shed = s
    BY <1>1, <1>3
<1> QED
    BY <1>2, <1>5, <1>6, <1>7, <1>8, <1>9, TablePerforms

\* Filling it again shows in what is found of the default version at most.
LEMMA ReloadGoesOn ==
    ASSUME RefinementInv, NEW a \in Address, NEW c \in Cattle, ReloadAdd(a, c)
    PROVE  Table!Next \/ UNCHANGED Table!vars
<1>0. /\ rx[a].pc = "locked" /\ c \in rx[a].todo /\ rx[a].adopts = NoVersion
      /\ rx[a].op = "RANCH_LOAD" /\ rx[a].shed \in ShedId
    BY LockedShed DEF ReloadAdd, RefinementInv, TasksKnown
<1> PICK s \in ShedId : s = rx[a].shed
    BY <1>0
<1> DEFINE shed == sheds[s]
           todo == rx[a].todo
           new  == PutCattle(shed, c)
           left == todo \ {c}
           v    == FoundDefault(shed, c)
<1>1. /\ s = rx[a].shed /\ rx \in [Address -> RxState] /\ todo \in SUBSET Cattle
      /\ sheds \in [ShedId -> ShedRecord] /\ writer[s] = a /\ a # NoAddress
      /\ shed \in ShedRecord /\ TableOf(s) = Filled(shed, todo)
    BY <1>0, LockedShed DEF RefinementInv, TypeInv, TypeOK
<1>2. /\ UNCHANGED <<writer, req>>
      /\ sheds' = [sheds EXCEPT ![s] = new]
      /\ rx' = [rx EXCEPT ![a].todo = left, ![a].adopts = v]
    BY <1>1 DEF ReloadAdd
<1>3. \A b \in Address : b # a => rx'[b] = rx[b]
    BY <1>1, <1>2
<1> HIDE DEF v
<1>4. /\ rx'[a].todo = left /\ rx'[a].adopts = v
      /\ rx'[a].pc = "locked" /\ rx'[a].shed = s
    BY <1>0, <1>1, <1>2 DEF RxState
<1>5. \A b \in Address : TaskOf(b)' = TaskOf(b)
    BY <1>0, <1>3, <1>4, OthersKeepTask DEF TaskOf
<1>6. \A t \in ShedId : t # s => TableOf(t)' = TableOf(t)
    <2> SUFFICES ASSUME NEW t \in ShedId, t # s PROVE TableOf(t)' = TableOf(t)
        OBVIOUS
    <2>1. sheds'[t] = sheds[t] /\ writer'[t] = writer[t]
        BY <1>1, <1>2
    <2> QED
        BY <1>1, <1>3, <2>1, TableOfKept
<1>7. TableOf(s)' = Filled(new, left)
    <2>1. writer'[s] = a /\ sheds'[s] = new
        BY <1>1, <1>2
    <2> QED
        BY <1>1, <1>4, <2>1 DEF TableOf
<1>8. Filled(new, left) = Filled(shed, todo) /\ c \in Filled(shed, todo).cattles
      /\ Filled(shed, todo).defaultVersion = shed.defaultVersion
    <2>1. shed \in ShedRecord /\ c \in todo /\ todo \in SUBSET Cattle
        BY <1>0, <1>1
    <2>2. shed.versionsMap[c] = 0
        BY <1>0, <1>1 DEF RefinementInv, ReloadIsExclusive
    <2> HIDE DEF shed, todo
    <2>3. /\ new.cattles = shed.cattles \cup {c}
          /\ \A d \in Cattle : new.versionsMap[d] = IF d = c THEN 1 ELSE shed.versionsMap[d]
          /\ new.defaultVersion = shed.defaultVersion
        BY <2>1, <2>2 DEF PutCattle, ShedRecord
    <2> HIDE DEF new
    <2>4. new.cattles \cup left = shed.cattles \cup todo
        BY <2>1, <2>3
    <2>5. [d \in Cattle |-> IF d \in left THEN 1 ELSE new.versionsMap[d]]
            = [d \in Cattle |-> IF d \in todo THEN 1 ELSE shed.versionsMap[d]]
        BY <2>1, <2>3
    <2> HIDE DEF left
    <2> QED
        BY <2>1, <2>3, <2>4, <2>5 DEF Filled
<1>9. TableOf(s)' = TableOf(s)
    BY <1>1, <1>7, <1>8
<1>10. \A t \in ShedId : TableOf(t)' = TableOf(t)
    BY <1>6, <1>9
<1>11. \A b \in Address : b # a => AdoptionOf(b)' = AdoptionOf(b)
    BY <1>3, OthersKeepTask
<1>12. CASE shed.defaultVersion # NoVersion
    <2>1. v = NoVersion
        BY <1>12 DEF v, FoundDefault
    <2>2. AdoptionOf(a)' = AdoptionOf(a)
        BY <1>0, <1>4, <2>1 DEF AdoptionOf
    <2> QED
        BY <1>2, <1>5, <1>10, <1>11, <2>2, TableStutters
<1>13. CASE shed.defaultVersion = NoVersion
    <2> DEFINE table == [t \in ShedId |-> TableOf(t)]
    <2>1. v = VersionOf[c] /\ v # NoVersion
        BY <1>13, ShedAssumption DEF v, FoundDefault
    <2>2. AdoptionOf(a)' = [op |-> "adopt", shed |-> s, version |-> VersionOf[c]]
        BY <1>4, <2>1 DEF AdoptionOf
    <2>3. TableOf(s).defaultVersion = NoVersion /\ c \in TableOf(s).cattles
        BY <1>1, <1>8, <1>13
    <2>4. Table!FindsNoDefault(a, s, TableOf(s).cattles)
        BY <1>11, <2>2, <2>3, TableFinds
    <2>5. Table!FindsNoDefault(a, s, table[s].cattles)
        BY <2>4
    <2>6. UNCHANGED <<table, [b \in Address |-> TaskOf(b)], [r \in Request |-> req[r].version]>>
        BY <1>2, <1>5, <1>10
    <2>7. Table!MissDefault(a, s)
        BY <2>5, <2>6 DEF Table!MissDefault
    <2> QED
        BY <2>7 DEF Table!Next
<1> QED
    BY <1>12, <1>13

\* What was found missing is written, under the lock of the shed.
LEMMA AdoptionTakesEffect ==
    ASSUME RefinementInv, NEW a \in Address, AdoptDefault(a)
    PROVE  Table!AdoptDefault(a)
<1>0. rx[a].pc = "locked" /\ rx[a].adopts # NoVersion /\ rx[a].shed \in ShedId
    BY LockedShed DEF AdoptDefault
<1> PICK s \in ShedId : s = rx[a].shed
    BY <1>0
<1> DEFINE shed == sheds[s]
           todo == rx[a].todo
           v    == rx[a].adopts
           new  == SetDefaultVersion(shed, v)
<1>1. /\ s = rx[a].shed /\ rx \in [Address -> RxState] /\ todo \in SUBSET Cattle
      /\ sheds \in [ShedId -> ShedRecord] /\ writer[s] = a /\ a # NoAddress
      /\ shed \in ShedRecord /\ v \in AppVersion \cup {NoVersion}
      /\ TableOf(s) = Filled(shed, todo)
    BY <1>0, LockedShed DEF RefinementInv, TypeInv, TypeOK
<1>2. /\ UNCHANGED <<writer, req>>
      /\ sheds' = [sheds EXCEPT ![s] = new]
      /\ rx' = [rx EXCEPT ![a].adopts = NoVersion]
    BY <1>1 DEF AdoptDefault
<1>3. \A b \in Address : b # a => rx'[b] = rx[b]
    BY <1>1, <1>2
<1>4. /\ rx'[a].todo = todo /\ rx'[a].adopts = NoVersion
      /\ rx'[a].pc = "locked" /\ rx'[a].shed = s
    BY <1>0, <1>1, <1>2 DEF RxState
<1>5. \A b \in Address : TaskOf(b)' = TaskOf(b)
    BY <1>0, <1>3, <1>4, OthersKeepTask DEF TaskOf
<1>6. \A t \in ShedId : t # s => TableOf(t)' = TableOf(t)
    <2> SUFFICES ASSUME NEW t \in ShedId, t # s PROVE TableOf(t)' = TableOf(t)
        OBVIOUS
    <2>1. sheds'[t] = sheds[t] /\ writer'[t] = writer[t]
        BY <1>1, <1>2
    <2> QED
        BY <1>1, <1>3, <2>1, TableOfKept
<1>7. TableOf(s)' = SetDefaultVersion(TableOf(s), v)
    <2>1. writer'[s] = a /\ sheds'[s] = new
        BY <1>1, <1>2
    <2>2. TableOf(s)' = Filled(new, todo)
        BY <1>1, <1>4, <2>1 DEF TableOf
    <2> HIDE DEF shed, todo, v
    <2> QED
        BY <1>1, <2>2, FilledDefault
<1>8. AdoptionOf(a) = [op |-> "adopt", shed |-> s, version |-> v]
    BY <1>0, <1>1 DEF AdoptionOf
<1>9. AdoptionOf(a)' = Table!NoAdoption
    BY <1>4 DEF AdoptionOf, Table!NoAdoption
<1>10. \A b \in Address : b # a => AdoptionOf(b)' = AdoptionOf(b)
    BY <1>3, OthersKeepTask
<1> DEFINE table    == [t \in ShedId |-> TableOf(t)]
           adopting == [b \in Address |-> AdoptionOf(b)]
<1> HIDE DEF shed, todo, v, new
<1>11. adopting[a].shed = s /\ adopting[a].version = v /\ adopting[a] # Table!NoAdoption
    <2>1. adopting[a].op = "adopt"
        BY <1>8
    <2> QED
        BY <1>8, <2>1 DEF Table!NoAdoption
<1>12. adopting' = [adopting EXCEPT ![a] = Table!NoAdoption]
    BY <1>9, <1>10
<1>13. Table!SetDefaultVersion(TableOf(s), v) = SetDefaultVersion(TableOf(s), v)
    BY DEF Table!SetDefaultVersion, SetDefaultVersion
<1>14. table' = [table EXCEPT ![s] = Table!SetDefaultVersion(@, v)]
    BY <1>6, <1>7, <1>13
<1>15. UNCHANGED <<[b \in Address |-> TaskOf(b)], [r \in Request |-> req[r].version]>>
    BY <1>2, <1>5
<1> HIDE DEF table, adopting
<1> QED
    BY <1>11, <1>12, <1>14, <1>15 DEF Table!AdoptDefault, table, adopting

\* Giving the lock back is no step of the table: the effect came when it was taken.
LEMMA ReloadEnds ==
    ASSUME RefinementInv, NEW a \in Address, Unlock(a)
    PROVE  UNCHANGED Table!vars
<1>0. rx[a].pc = "locked" /\ rx[a].todo = {} /\ rx[a].adopts = NoVersion /\ rx[a].shed \in ShedId
    BY LockedShed DEF Unlock
<1> PICK s \in ShedId : s = rx[a].shed
    BY <1>0
<1>1. /\ s = rx[a].shed /\ rx \in [Address -> RxState]
      /\ sheds[s] \in ShedRecord /\ writer[s] = a /\ a # NoAddress
      /\ writer \in [ShedId -> Address \cup {NoAddress}]
      /\ TableOf(s) = Filled(sheds[s], {})
    BY <1>0, LockedShed DEF RefinementInv, TypeInv, TypeOK
<1>2. /\ UNCHANGED <<sheds, req>>
      /\ writer' = [writer EXCEPT ![s] = NoAddress]
      /\ rx' = [rx EXCEPT ![a].pc = "hosts", ![a].host = NoHost, ![a].shed = NoShed]
    BY <1>1 DEF Unlock, NextHost
<1>3. \A b \in Address : b # a => rx'[b] = rx[b]
    BY <1>1, <1>2
<1>4. rx'[a].pc = "hosts" /\ rx'[a].adopts = NoVersion
    BY <1>0, <1>1, <1>2 DEF RxState
<1>5. \A b \in Address : TaskOf(b)' = TaskOf(b) /\ AdoptionOf(b)' = AdoptionOf(b)
    <2>1. TaskOf(a)' = TaskOf(a) /\ AdoptionOf(a)' = AdoptionOf(a)
        BY <1>0, <1>4 DEF TaskOf, AdoptionOf
    <2> QED
        BY <1>3, <2>1, OthersKeepTask
<1>6. \A t \in ShedId : t # s => TableOf(t)' = TableOf(t)
    <2> SUFFICES ASSUME NEW t \in ShedId, t # s PROVE TableOf(t)' = TableOf(t)
        OBVIOUS
    <2>1. sheds'[t] = sheds[t] /\ writer'[t] = writer[t]
        BY <1>1, <1>2
    <2> QED
        BY <1>1, <1>3, <2>1, TableOfKept
<1>7. TableOf(s)' = TableOf(s)
    <2>1. TableOf(s)' = sheds[s]
        BY <1>1, <1>2 DEF TableOf
    <2> QED
        BY <1>1, <2>1, FilledWithNothing
<1> QED
    BY <1>2, <1>5, <1>6, <1>7, TableStutters

\* The steps of a receiver that touch no shed: those that take a message, find
\* or create a shed for it, or are done with it.
QuietStep(a) ==
    /\ rx[a].pc \notin {"apply", "locked"} /\ rx'[a].pc # "locked"
    /\ rx'[a].pc \in {"create", "apply"} => rx'[a].op \in TaskOps
    /\ \A b \in Address : b # a => rx'[b] = rx[b]
    /\ UNCHANGED <<sheds, writer, req>>

\* Looking up hosts, and pausing, restarting and stopping an application, change no
\* shed.
LEMMA QuietHostSteps ==
    ASSUME RefinementInv, NEW a \in Address, NEW h \in Host,
           \/ LookupToFill(a, h) \/ LookupToUpdate(a, h)
           \/ PauseApp(a, h) \/ RestartApp(a, h) \/ StopApp(a, h)
    PROVE  QuietStep(a)
<1>1. TakesHost(a, h) /\ rx \in [Address -> RxState] /\ rx[a].pc = "hosts" /\ TypeInv
    BY DEF RefinementInv, TypeInv, TypeOK, LookupToFill, LookupToUpdate, PauseApp,
           RestartApp, StopApp, TakesHost
<1>2. UNCHANGED <<sheds, writer, req>>
    BY DEF LookupToFill, LookupToUpdate, PauseApp, RestartApp, StopApp, mapVars
<1> DEFINE rest  == RestOfHosts(a, h)
           pc    == IF hostsMapping[h] = NoShed THEN "create" ELSE "apply"
           fill  == [rest EXCEPT !.pc = pc, !.host = h, !.shed = hostsMapping[h]]
           apply == [rest EXCEPT !.pc = "apply", !.host = h, !.shed = hostsMapping[h]]
<1>3. rest \in RxState /\ rest.pc = "hosts" /\ rest.op = rx[a].op
    BY <1>1, RestOfHostsType DEF RestOfHosts, RxState
<1>4. fill.pc \in {"create", "apply"} /\ apply.pc = "apply"
      /\ fill.op = rx[a].op /\ apply.op = rx[a].op
    <2> HIDE DEF pc, rest
    <2>1. pc \in {"create", "apply"}
        BY DEF pc
    <2> QED
        BY <1>3, <2>1 DEF RxState
<1>5. \/ rx' = [rx EXCEPT ![a] = rest]
      \/ rx' = [rx EXCEPT ![a] = fill] /\ rx[a].op \in TaskOps
      \/ rx' = [rx EXCEPT ![a] = apply] /\ rx[a].op \in TaskOps
    <2>1. CASE LookupToFill(a, h)
        BY <2>1 DEF LookupToFill, TaskOps
    <2>2. CASE LookupToUpdate(a, h)
        BY <2>2 DEF LookupToUpdate, TaskOps
    <2>3. CASE PauseApp(a, h) \/ RestartApp(a, h) \/ StopApp(a, h)
        BY <2>3 DEF PauseApp, RestartApp, StopApp
    <2> QED
        BY <2>1, <2>2, <2>3
<1> HIDE DEF rest, fill, apply
<1> QED
    BY <1>1, <1>2, <1>3, <1>4, <1>5 DEF QuietStep

\* Nor do the making of a shed, the end of a handler and the arrival of a message.
LEMMA QuietSteps ==
    ASSUME RefinementInv, NEW a \in Address,
           \/ CreateShed(a) \/ HandlerDone(a)
           \/ \E m \in Inbound[a] : Receive(a, m)
           \/ Suspect(a)
    PROVE  QuietStep(a)
<1>1. rx \in [Address -> RxState]
    BY DEF RefinementInv, TypeInv, TypeOK
<1>2. CASE CreateShed(a)
    <2>1. rx[a].op \in TaskOps
        BY <1>2 DEF RefinementInv, TasksKnown, CreateShed
    <2>2. PICK s \in ShedId : rx' = [rx EXCEPT ![a].pc = "apply", ![a].shed = s]
        BY <1>2 DEF CreateShed
    <2>3. rx'[a].op = rx[a].op /\ rx'[a].pc = "apply" /\ \A b \in Address : b # a => rx'[b] = rx[b]
        BY <1>1, <2>2 DEF RxState
    <2> QED
        BY <1>2, <2>1, <2>3 DEF CreateShed, QuietStep
<1>3. CASE HandlerDone(a)
    BY <1>1, <1>3 DEF HandlerDone, QuietStep, IdleRx, mapVars
<1>4. ASSUME NEW m \in Inbound[a], Receive(a, m)  PROVE QuietStep(a)
    <2> DEFINE new == [IdleRx EXCEPT !.pc = "hosts", !.op = m.op, !.cattle = m.cattle,
                          !.version = m.version, !.load = m.load, !.hosts = HostsOf[m.cattle]]
    <2>1. new.pc = "hosts"
        BY DEF IdleRx
    <2>2. rx' = [rx EXCEPT ![a] = new]
        BY <1>4 DEF Receive
    <2> HIDE DEF new
    <2> QED
        BY <1>1, <1>4, <2>1, <2>2 DEF Receive, QuietStep, mapVars
<1>5. CASE Suspect(a)
    <2> DEFINE new == [IdleRx EXCEPT !.pc = "hosts", !.op = "UNREGISTER",
                          !.cattle = ranchManagerAddrs[a], !.hosts = HostsOf[ranchManagerAddrs[a]]]
    <2>1. new.pc = "hosts"
        BY DEF IdleRx
    <2>2. rx' = [rx EXCEPT ![a] = new]
        BY <1>5 DEF Suspect
    <2> HIDE DEF new
    <2> QED
        BY <1>1, <1>5, <2>1, <2>2 DEF Suspect, QuietStep, mapVars
<1> QED
    BY <1>2, <1>3, <1>4, <1>5

\* A step that changes no shed is the acceptance of a task or no step of the table.
LEMMA QuietImplements ==
    ASSUME RefinementInv, TypeInv', NEW a \in Address, QuietStep(a)
    PROVE  Table!Next \/ UNCHANGED Table!vars
<1>1. \A s \in ShedId : TableOf(s)' = TableOf(s)
    BY TableOfKept DEF QuietStep
<1>2. \A b \in Address : b # a => TaskOf(b)' = TaskOf(b)
    BY OthersKeepTask DEF QuietStep
<1>3. TaskOf(a) = Table!NoTask
    BY DEF QuietStep, TaskOf, Table!NoTask
<1>6. \A b \in Address : AdoptionOf(b)' = AdoptionOf(b)
    <2>1. rx[a].adopts = NoVersion
        BY NothingToAdopt DEF QuietStep, RefinementInv
    <2>2. rx'[a].adopts = NoVersion
        BY DEF QuietStep, TypeInv, HandlersReady
    <2>3. AdoptionOf(a)' = AdoptionOf(a)
        BY <2>1, <2>2 DEF AdoptionOf
    <2> QED
        BY <2>3, OthersKeepTask DEF QuietStep
<1>4. CASE rx'[a].pc = "apply"
    <2>1. /\ rx'[a].shed \in ShedId /\ rx'[a].cattle \in Cattle /\ rx'[a].op \in TaskOps
          /\ rx'[a].version \in AppVersion \cup {NoVersion} /\ rx'[a].load \in SUBSET Cattle
        BY <1>4 DEF TypeInv, TypeOK, HandlersReady, RxState, QuietStep
    <2>2. TaskOf(a)' \in Table!Task
        BY <1>4, <2>1 DEF TaskOf, Table!Task, TaskOps
    <2>3. Table!Accept(a)
        BY <1>1, <1>2, <1>3, <1>6, <2>2, TableAccepts DEF QuietStep
    <2> QED
        BY <2>3 DEF Table!Next
<1>5. CASE rx'[a].pc # "apply"
    <2>1. TaskOf(a)' = TaskOf(a)
        BY <1>3, <1>5 DEF TaskOf, Table!NoTask
    <2> QED
        BY <1>1, <1>2, <1>6, <2>1, TableStutters DEF QuietStep
<1> QED
    BY <1>4, <1>5

-----------------------------------------------------------------------------
(* The steps of a request thread. *)

\* A version is kept, dropped, or chosen from a shed that nobody is filling.
VersionStep(r, new) ==
    /\ \/ new.version = req[r].version
       \/ new.version = NoVersion
       \/ \E s \in ShedId, k \in Cookies :
             writer[s] = NoAddress /\ new.version = Select(sheds[s], k)
    /\ new.pc \notin {"idle", "done"} => new.cookie \in Cookies

\* Looking up a shed chooses no version.
LEMMA LooksUpVersion ==
    ASSUME NEW r \in Request, NEW asked, NEW path, NEW cookie \in Cookies, NEW excl,
           LooksUp(r, asked, path, cookie, excl)
    PROVE  \E new : Moves(r, new) /\ VersionStep(r, new)
<1> DEFINE host == ComputeHost(asked, path)
           none == [IdleReq EXCEPT !.pc = "done", !.result = "404", !.excluded = excl]
           some == [IdleReq EXCEPT !.pc = "paused", !.asked = asked,
                       !.path = ContextPath(asked, path), !.host = host,
                       !.cookie = cookie, !.excluded = excl]
<1>1. VersionStep(r, none) /\ VersionStep(r, some)
    BY DEF VersionStep, IdleReq
<1>2. Moves(r, none) \/ Moves(r, some)
    BY DEF LooksUp
<1> QED
    BY <1>1, <1>2

\* Nor does the end of a request.
LEMMA EndedVersion ==
    ASSUME NEW r \in Request, NEW result, Moves(r, Ended(r, result))
    PROVE  \E new : Moves(r, new) /\ VersionStep(r, new)
<1>1. VersionStep(r, Ended(r, result))
    BY DEF VersionStep, Ended, IdleReq
<1> QED
    BY <1>1

\* Each step of a request keeps its version, drops it, or has it chosen from a shed.
LEMMA RequestVersion ==
    ASSUME RefinementInv, NEW r \in Request,
           \/ \E h \in Host, p \in Paths, k \in Cookies : Arrive(r, h, p, k)
           \/ Process(r)
    PROVE  \E new : Moves(r, new) /\ VersionStep(r, new)
<1> DEFINE Goal == \E new : Moves(r, new) /\ VersionStep(r, new)
<1>0. /\ req[r] \in ReqState
      /\ req[r].pc \notin {"idle", "done"} => req[r].cookie \in Cookies
      /\ req[r].pc \in {"sticky", "service", "check", "index", "take"} => req[r].shed \in ShedId
    BY DEF RefinementInv, CookiesKnown, TypeInv, TypeOK, RequestsReady
<1>1. ASSUME NEW h \in Host, NEW p \in Paths, NEW k \in Cookies, Arrive(r, h, p, k)
      PROVE  Goal
    BY <1>1, LooksUpVersion DEF Arrive
<1>2. ASSUME NEW new, Moves(r, new), new.version = req[r].version, new.cookie = req[r].cookie,
             req[r].pc \notin {"idle", "done"}
      PROVE  Goal
    BY <1>0, <1>2 DEF VersionStep
<1>3. CASE CheckPaused(r)
    <2> DEFINE new == [req[r] EXCEPT !.pc = "shed"]
    <2>1. new.version = req[r].version /\ new.cookie = req[r].cookie
        BY <1>0 DEF ReqState
    <2>2. req[r].pc = "paused" /\ (Moves(r, Ended(r, "503 paused")) \/ Moves(r, new))
        BY <1>3 DEF CheckPaused, At
    <2> QED
        BY <1>2, <2>1, <2>2, EndedVersion
<1>4. CASE FindShed(r)
    <2> DEFINE s   == hostsMapping[req[r].host]
               pc  == IF SessionSticky THEN "sticky" ELSE "service"
               new == [req[r] EXCEPT !.shed = s, !.pc = pc]
    <2>1. new.version = req[r].version /\ new.cookie = req[r].cookie
        <3> HIDE DEF s, pc
        <3> QED
            BY <1>0 DEF ReqState
    <2>2. req[r].pc = "shed" /\ (Moves(r, Ended(r, "404")) \/ Moves(r, new))
        BY <1>4 DEF FindShed, At
    <2> HIDE DEF new
    <2> QED
        BY <1>2, <2>1, <2>2, EndedVersion
<1>5. CASE FindSticked(r)
    <2>1. req[r].pc = "sticky" /\ \/ Moves(r, [req[r] EXCEPT !.pc = "service"])
                                  \/ \E c : Moves(r, [req[r] EXCEPT !.pc = "connect", !.picked = c])
        BY <1>5 DEF FindSticked, At
    <2>2. ASSUME NEW c
          PROVE  LET new == [req[r] EXCEPT !.pc = "connect", !.picked = c]
                 IN  new.version = req[r].version /\ new.cookie = req[r].cookie
        BY <1>0 DEF ReqState
    <2>3. LET new == [req[r] EXCEPT !.pc = "service"]
          IN  new.version = req[r].version /\ new.cookie = req[r].cookie
        BY <1>0 DEF ReqState
    <2> QED
        BY <1>2, <2>1, <2>2, <2>3
<1>6. CASE Service(r)
    <2> DEFINE shed == sheds[req[r].shed]
               ver  == Select(shed, req[r].cookie)
               copy == req[r].excluded # {}
               view == IF copy THEN CattlesOf(shed, ver) \ req[r].excluded ELSE {}
               new  == [req[r] EXCEPT !.pc = "check", !.version = ver, !.copied = copy,
                                      !.view = view]
    <2>1. Moves(r, new) /\ writer[req[r].shed] = NoAddress /\ req[r].pc = "service"
        BY <1>6 DEF Service, At, WriteUnlocked
    <2>2. new.version = ver /\ new.cookie = req[r].cookie
        <3> HIDE DEF ver, copy, view
        <3> QED
            BY <1>0 DEF ReqState
    <2>3. VersionStep(r, new)
        <3> HIDE DEF new
        <3> QED
            BY <1>0, <2>1, <2>2 DEF VersionStep, ver, shed
    <2> QED
        BY <2>1, <2>3
<1>7. CASE CheckEmpty(r)
    <2> DEFINE new == [req[r] EXCEPT !.pc = "index"]
    <2>1. new.version = req[r].version /\ new.cookie = req[r].cookie
        BY <1>0 DEF ReqState
    <2>2. req[r].pc = "check" /\ (Moves(r, Ended(r, "503")) \/ Moves(r, new))
        BY <1>7 DEF CheckEmpty, At
    <2> QED
        BY <1>2, <2>1, <2>2, EndedVersion
<1>8. CASE ChooseIndex(r)
    <2>1. req[r].pc = "index" /\ \/ Moves(r, Ended(r, "crashed"))
                                 \/ \E i : Moves(r, [req[r] EXCEPT !.pc = "take", !.index = i])
        BY <1>8 DEF ChooseIndex, At
    <2>2. ASSUME NEW i
          PROVE  LET new == [req[r] EXCEPT !.pc = "take", !.index = i]
                 IN  new.version = req[r].version /\ new.cookie = req[r].cookie
        BY <1>0 DEF ReqState
    <2> QED
        BY <1>2, <2>1, <2>2, EndedVersion
<1>9. CASE TakeElement(r)
    <2>1. req[r].pc = "take" /\ \/ Moves(r, Ended(r, "crashed"))
                                \/ \E c : Moves(r, [req[r] EXCEPT !.pc = "connect", !.picked = c])
        BY <1>9 DEF TakeElement, At
    <2>2. ASSUME NEW c
          PROVE  LET new == [req[r] EXCEPT !.pc = "connect", !.picked = c]
                 IN  new.version = req[r].version /\ new.cookie = req[r].cookie
        BY <1>0 DEF ReqState
    <2> QED
        BY <1>2, <2>1, <2>2, EndedVersion
<1>10. CASE Connect(r)
    BY <1>10, EndedVersion DEF Connect
<1>11. CASE ConnectFails(r)
    BY <1>0, <1>11, LooksUpVersion DEF ConnectFails, LooksAgain, At
<1> QED
    BY <1>1, <1>3, <1>4, <1>5, <1>6, <1>7, <1>8, <1>9, <1>10, <1>11 DEF Process

\* So it is a selection in the table, or no step of it.
LEMMA RequestImplements ==
    ASSUME RefinementInv, NEW r \in Request,
           \/ \E h \in Host, p \in Paths, k \in Cookies : Arrive(r, h, p, k)
           \/ Process(r)
    PROVE  Table!Next \/ UNCHANGED Table!vars
<1> DEFINE chosen == [q \in Request |-> req[q].version]
<1>1. PICK new : Moves(r, new) /\ VersionStep(r, new)
    BY RequestVersion
<1>2. /\ UNCHANGED <<sheds, writer, rx>> /\ req' = [req EXCEPT ![r] = new]
      /\ req \in [Request -> ReqState]
    BY <1>1 DEF Moves, mapVars, rxVars, RefinementInv, TypeInv, TypeOK
<1>3. \A s \in ShedId : TableOf(s)' = TableOf(s)
    BY <1>2, TableOfKept
<1>4. \A b \in Address : TaskOf(b)' = TaskOf(b) /\ AdoptionOf(b)' = AdoptionOf(b)
    BY <1>2, OthersKeepTask
<1>5. chosen' = [chosen EXCEPT ![r] = new.version]
    BY <1>2
<1>6. UNCHANGED <<[s \in ShedId |-> TableOf(s)], [b \in Address |-> TaskOf(b)],
                [b \in Address |-> AdoptionOf(b)]>>
    BY <1>3, <1>4
<1>7. CASE new.version = req[r].version
    <2>1. \A q \in Request : req'[q].version = req[q].version
        BY <1>2, <1>7
    <2> QED
        BY <1>3, <1>4, <2>1, TableStutters
<1>8. CASE new.version = NoVersion
    <2>1. Table!Forget(r)
        BY <1>5, <1>6, <1>8 DEF Table!Forget
    <2> QED
        BY <2>1 DEF Table!Next
<1>9. ASSUME NEW s \in ShedId, NEW k \in Cookies, writer[s] = NoAddress,
             new.version = Select(sheds[s], k)
      PROVE  Table!Next
    <2>1. Select(sheds[s], k) = Table!Select(TableOf(s), k)
        BY <1>9 DEF TableOf, Select, Table!Select, AvailableVersions, Table!AvailableVersions
    <2>2. Table!Choose(r, s, k)
        BY <1>5, <1>6, <1>9, <2>1 DEF Table!Choose
    <2> QED
        BY <2>2 DEF Table!Next
<1> QED
    BY <1>1, <1>7, <1>8, <1>9 DEF VersionStep

-----------------------------------------------------------------------------
(* The refinement. *)

\* The steps of handlers keep the writer to the shed it loads.
LEMMA WriterStep ==
    ASSUME RefinementInv, NEW a \in Address,
           \/ Handle(a)
           \/ \E m \in Inbound[a] : Receive(a, m)
           \/ Suspect(a)
    PROVE  WriterLoads' /\ TasksKnown'
<1>0. /\ rx \in [Address -> RxState] /\ writer \in [ShedId -> Address \cup {NoAddress}]
      /\ rx[a].pc \in {"apply", "locked"} => rx[a].shed \in ShedId
      /\ WriterLoads /\ TasksKnown /\ a # NoAddress
    BY CattleManagerAssumption DEF RefinementInv, TypeInv, TypeOK, HandlersReady
<1>1. ASSUME QuietStep(a)  PROVE WriterLoads' /\ TasksKnown'
    BY <1>0, <1>1 DEF QuietStep, WriterLoads, TasksKnown
<1>2. CASE UnregisterCattle(a) \/ ChangeDefaultVersion(a)
    <2>1. /\ rx[a].pc = "apply" /\ UNCHANGED writer
          /\ rx' = [rx EXCEPT ![a].pc = "hosts", ![a].host = NoHost, ![a].shed = NoShed]
        BY <1>2 DEF UnregisterCattle, ChangeDefaultVersion, Applies, NextHost
    <2>2. rx'[a].pc = "hosts" /\ \A b \in Address : b # a => rx'[b] = rx[b]
        BY <1>0, <2>1 DEF RxState
    <2> QED
        BY <1>0, <2>1, <2>2 DEF WriterLoads, TasksKnown
<1>6. CASE RegisterCattle(a)
    <2>1. /\ writer' = [writer EXCEPT ![rx[a].shed] = a] /\ rx[a].shed \in ShedId
          /\ rx[a].pc = "apply"
          /\ rx' = [rx EXCEPT ![a].pc = "locked", ![a].todo = {},
                              ![a].adopts = FoundDefault(sheds[rx[a].shed], rx[a].cattle)]
        BY <1>0, <1>6 DEF RegisterCattle, Applies
    <2>2. /\ rx'[a].pc = "locked" /\ rx'[a].shed = rx[a].shed /\ rx'[a].todo = {}
          /\ \A b \in Address : b # a => rx'[b] = rx[b]
        BY <1>0, <2>1 DEF RxState
    <2> QED
        BY <1>0, <2>1, <2>2 DEF WriterLoads, TasksKnown
<1>7. CASE AdoptDefault(a)
    <2>1. UNCHANGED writer /\ rx[a].pc = "locked" /\ rx' = [rx EXCEPT ![a].adopts = NoVersion]
        BY <1>0, <1>7 DEF AdoptDefault
    <2>2. /\ rx'[a].pc = "locked" /\ rx'[a].shed = rx[a].shed
          /\ rx'[a].todo = rx[a].todo /\ rx'[a].op = rx[a].op
          /\ \A b \in Address : b # a => rx'[b] = rx[b]
        BY <1>0, <2>1 DEF RxState
    <2> QED
        BY <1>0, <2>1, <2>2 DEF WriterLoads, TasksKnown
<1>3. CASE ReloadClear(a)
    <2>1. /\ writer' = [writer EXCEPT ![rx[a].shed] = a] /\ rx[a].shed \in ShedId
          /\ rx' = [rx EXCEPT ![a].pc = "locked", ![a].todo = rx[a].load]
          /\ rx[a].pc = "apply" /\ rx[a].op = "RANCH_LOAD"
        BY <1>0, <1>3 DEF ReloadClear, Applies
    <2>2. /\ rx'[a].pc = "locked" /\ rx'[a].shed = rx[a].shed /\ rx'[a].op = "RANCH_LOAD"
          /\ \A b \in Address : b # a => rx'[b] = rx[b]
        BY <1>0, <2>1 DEF RxState
    <2> QED
        BY <1>0, <2>1, <2>2 DEF WriterLoads, TasksKnown
<1>4. ASSUME NEW c \in Cattle, ReloadAdd(a, c)  PROVE WriterLoads' /\ TasksKnown'
    <2>1. /\ UNCHANGED writer /\ rx[a].pc = "locked" /\ c \in rx[a].todo
          /\ rx' = [rx EXCEPT ![a].todo = rx[a].todo \ {c},
                              ![a].adopts = FoundDefault(sheds[rx[a].shed], c)]
        BY <1>0, <1>4 DEF ReloadAdd
    <2>2. /\ rx'[a].pc = "locked" /\ rx'[a].shed = rx[a].shed /\ rx'[a].op = rx[a].op
          /\ \A b \in Address : b # a => rx'[b] = rx[b]
        BY <1>0, <2>1 DEF RxState
    <2>3. rx[a].op = "RANCH_LOAD"
        BY <1>0, <2>1 DEF TasksKnown
    <2> QED
        BY <1>0, <2>1, <2>2, <2>3 DEF WriterLoads, TasksKnown
<1>5. CASE Unlock(a)
    <2>1. /\ writer' = [writer EXCEPT ![rx[a].shed] = NoAddress] /\ rx[a].pc = "locked"
          /\ rx' = [rx EXCEPT ![a].pc = "hosts", ![a].host = NoHost, ![a].shed = NoShed]
        BY <1>5 DEF Unlock, NextHost
    <2>2. rx'[a].pc = "hosts" /\ \A b \in Address : b # a => rx'[b] = rx[b]
        BY <1>0, <2>1 DEF RxState
    <2>3. \A s \in ShedId : writer[s] = a => s = rx[a].shed
        BY <1>0 DEF WriterLoads
    <2>4. \A s \in ShedId : writer'[s] # NoAddress => writer'[s] = writer[s] /\ writer[s] # a
        BY <1>0, <2>1, <2>3
    <2> QED
        BY <1>0, <2>2, <2>4 DEF WriterLoads, TasksKnown
<1> QED
    BY <1>1, <1>2, <1>3, <1>4, <1>5, <1>6, <1>7, QuietHostSteps, QuietSteps DEF Handle

\* They touch no request.
LEMMA RequestsKept ==
    ASSUME NEW a \in Address,
           \/ Handle(a)
           \/ \E m \in Inbound[a] : Receive(a, m)
           \/ Suspect(a)
    PROVE  UNCHANGED req
BY DEF Handle, LookupToFill, LookupToUpdate, PauseApp, RestartApp, StopApp, CreateShed,
       RegisterCattle, UnregisterCattle, ChangeDefaultVersion, ReloadClear, ReloadAdd,
       AdoptDefault, Unlock, HandlerDone, Receive, Suspect

\* Each step keeps what the mapping relies on.
LEMMA MappingStep ==
    RefinementInv /\ [Next]_vars => WriterLoads' /\ TasksKnown' /\ CookiesKnown'
<1> SUFFICES ASSUME RefinementInv, [Next]_vars
             PROVE  WriterLoads' /\ TasksKnown' /\ CookiesKnown'
    OBVIOUS
<1>0. WriterLoads /\ TasksKnown /\ CookiesKnown /\ req \in [Request -> ReqState]
    BY DEF RefinementInv, TypeInv, TypeOK
<1>1. CASE UNCHANGED vars
    BY <1>0, <1>1 DEF vars, WriterLoads, TasksKnown, CookiesKnown
<1>2. ASSUME NEW a \in Address,
             \/ Handle(a)
             \/ \E m \in Inbound[a] : Receive(a, m)
             \/ Suspect(a)
      PROVE  WriterLoads' /\ TasksKnown' /\ CookiesKnown'
    <2>1. UNCHANGED req
        BY <1>2, RequestsKept
    <2>2. CookiesKnown'
        BY <1>0, <2>1 DEF CookiesKnown
    <2> QED
        BY <1>2, <2>2, WriterStep
<1>3. ASSUME NEW r \in Request,
             (\E h \in Host, p \in Paths, k \in Cookies : Arrive(r, h, p, k)) \/ Process(r)
      PROVE  WriterLoads' /\ TasksKnown' /\ CookiesKnown'
    <2>1. PICK new : Moves(r, new) /\ VersionStep(r, new)
        BY <1>3, RequestVersion
    <2>2. UNCHANGED <<writer, rx>> /\ req' = [req EXCEPT ![r] = new]
        BY <2>1 DEF Moves, mapVars, rxVars
    <2>3. CookiesKnown'
        BY <1>0, <2>1, <2>2 DEF CookiesKnown, VersionStep
    <2> QED
        BY <1>0, <2>2, <2>3 DEF WriterLoads, TasksKnown
<1> QED
    BY <1>1, <1>2, <1>3 DEF Next

\* So it always holds.
LEMMA RefinementInvariance == Spec => []RefinementInv
<1> DEFINE Old == TypeInv /\ LoaderHoldsLock /\ ReloadIsExclusive
           New == WriterLoads /\ TasksKnown /\ CookiesKnown
<1>1. Init => New
    BY DEF Init, WriterLoads, TasksKnown, CookiesKnown, IdleRx, IdleReq
<1>2. Old /\ New /\ [Next]_vars => New'
    BY MappingStep DEF RefinementInv
<1>3. Spec => []Old
    BY TypeInvariance, LoaderInvariance, PTL
<1>4. RefinementInv <=> Old /\ New
    BY DEF RefinementInv
<1> HIDE DEF Old, New
<1> QED
    BY <1>1, <1>2, <1>3, <1>4, PTL DEF Spec

\* The sheds of the dispatcher implement an atomic routing table: every message
\* changes the instances of a shed at once, also one that is applied instance by
\* instance, and no request takes a version from a half-filled shed.  Of the default
\* version it is promised only that what is written was found missing before or was
\* commanded (Shed.java:80-110, 129-131, 199-224).
THEOREM AtomicTableImplemented == Spec => AtomicTable
<1>1. Init => Table!Init
    <2> SUFFICES ASSUME Init PROVE Table!Init
        OBVIOUS
    <2>1. \A s \in ShedId : TableOf(s) = Table!EmptyShed
        BY DEF Init, TableOf, EmptyShed, Table!EmptyShed
    <2>2. \A a \in Address : TaskOf(a) = Table!NoTask
        BY DEF Init, TaskOf, IdleRx, Table!NoTask
    <2>3. \A r \in Request : req[r].version = NoVersion
        BY DEF Init, IdleReq
    <2>4. \A a \in Address : AdoptionOf(a) = Table!NoAdoption
        BY DEF Init, AdoptionOf, IdleRx, Table!NoAdoption
    <2> QED
        BY <2>1, <2>2, <2>3, <2>4 DEF Table!Init
<1>2. RefinementInv /\ TypeInv' /\ [Next]_vars => [Table!Next]_Table!vars
    <2> SUFFICES ASSUME RefinementInv, TypeInv', [Next]_vars
                 PROVE  Table!Next \/ UNCHANGED Table!vars
        OBVIOUS
    <2>1. CASE UNCHANGED vars
        <3>1. UNCHANGED <<sheds, writer, rx, req>>
            BY <2>1 DEF vars
        <3> QED
            BY <3>1, TableStutters, TableOfKept, OthersKeepTask
    <2>2. ASSUME NEW a \in Address, Handle(a)
          PROVE  Table!Next \/ UNCHANGED Table!vars
        <3>1. CASE UnregisterCattle(a) \/ ChangeDefaultVersion(a)
            BY <3>1, SimpleTasks DEF Table!Next
        <3>3. CASE RegisterCattle(a)
            BY <3>3, RegistrationStarts DEF Table!Next
        <3>4. CASE AdoptDefault(a)
            BY <3>4, AdoptionTakesEffect DEF Table!Next
        <3>2. CASE ReloadClear(a)
            BY <3>2, ReloadStarts DEF Table!Next
        <3> QED
            BY <2>2, <3>1, <3>2, <3>3, <3>4, ReloadGoesOn, ReloadEnds, QuietHostSteps, QuietSteps,
               QuietImplements DEF Handle
    <2>3. ASSUME NEW a \in Address, (\E m \in Inbound[a] : Receive(a, m)) \/ Suspect(a)
          PROVE  Table!Next \/ UNCHANGED Table!vars
        BY <2>3, QuietSteps, QuietImplements
    <2>4. ASSUME NEW r \in Request,
                 (\E h \in Host, p \in Paths, k \in Cookies : Arrive(r, h, p, k)) \/ Process(r)
          PROVE  Table!Next \/ UNCHANGED Table!vars
        BY <2>4, RequestImplements
    <2> QED
        BY <2>1, <2>2, <2>3, <2>4 DEF Next
<1>3. RefinementInv => TypeInv
    BY DEF RefinementInv
<1> QED
    BY <1>1, <1>2, <1>3, RefinementInvariance, PTL DEF Spec, AtomicTable, Table!Spec

=============================================================================
