------------------------ MODULE CattleManagerProofs ------------------------
(***************************************************************************)
(* Theorems about CattleManager, for every set of instances, hosts, group  *)
(* members, requests and Shed objects, and any number of messages.         *)
(*                                                                         *)
(* TypeOK is not inductive: a handler or a request that works on a shed    *)
(* must be known to have one.  HandlersReady and RequestsReady say so, and *)
(* TypeInv, the three together, is the invariant the others build on.      *)
(***************************************************************************)
EXTENDS CattleManager, TLAPS, FiniteSetTheorems

-----------------------------------------------------------------------------
(* The operations of a shed keep its type. *)

\* What the methods of Shed return is a shed: the one that is made,
LEMMA EmptyShedType == EmptyShed \in ShedRecord
BY DEF EmptyShed, ShedRecord

\* with an instance added,
LEMMA PutCattleType ==
    ASSUME NEW s \in ShedRecord, NEW c \in Cattle
    PROVE  PutCattle(s, c) \in ShedRecord
BY DEF PutCattle, ShedRecord

\* (which may find that there is no default version,)
LEMMA FoundDefaultType ==
    ASSUME NEW s, NEW c \in Cattle
    PROVE  FoundDefault(s, c) \in AppVersion \cup {NoVersion}
BY ShedAssumption DEF FoundDefault

\* with one removed,
LEMMA RemoveCattleType ==
    ASSUME NEW s \in ShedRecord, NEW c \in Cattle
    PROVE  RemoveCattle(s, c) \in ShedRecord
BY DEF RemoveCattle, ShedRecord

\* with all removed,
LEMMA ClearCattlesType ==
    ASSUME NEW s \in ShedRecord
    PROVE  ClearCattles(s) \in ShedRecord
BY DEF ClearCattles, ShedRecord

\* and with another default version.
LEMMA SetDefaultVersionType ==
    ASSUME NEW s \in ShedRecord, NEW v \in AppVersion \cup {NoVersion}
    PROVE  SetDefaultVersion(s, v) \in ShedRecord
BY DEF SetDefaultVersion, ShedRecord

\* The version a request is sent to is a version, or none.
LEMMA SelectType ==
    ASSUME NEW s \in ShedRecord, NEW k \in Cookie
    PROVE  Select(s, k) \in AppVersion \cup {NoVersion}
BY DEF Select, ShedRecord, Cookie

-----------------------------------------------------------------------------
(* Type correctness. *)

HandlersReady ==
    \A a \in Address :
        /\ rx[a].pc # "idle" => rx[a].cattle \in Cattle
        /\ rx[a].pc \in {"create", "apply", "locked"} => rx[a].host \in Host
        /\ rx[a].pc \in {"apply", "locked"} => rx[a].shed \in ShedId
        /\ rx[a].adopts # NoVersion => rx[a].pc = "locked"

RequestsReady ==
    \A r \in Request :
        /\ req[r].pc \notin {"idle", "done"}
              => req[r].asked \in Host /\ req[r].host \in Host
        /\ req[r].pc \in {"sticky", "service", "check", "index", "take"}
              => req[r].shed \in ShedId
        /\ req[r].pc = "connect" => req[r].picked \in Cattle

TypeInv == TypeOK /\ HandlersReady /\ RequestsReady

\* The parts of TypeInv that the receiver threads and the request threads own.
MapsType ==
    /\ hostsMapping \in [Host -> ShedId \cup {NoShed}]
    /\ sheds \in [ShedId -> ShedRecord]
    /\ allocated \subseteq ShedId
    /\ writer \in [ShedId -> Address \cup {NoAddress}]
    /\ pausedHosts \subseteq Host

RxType ==
    /\ ranchManagerAddrs \in [Address -> Cattle \cup {NoCattle}]
    /\ rx \in [Address -> RxState]
    /\ received \in Nat
    /\ HandlersReady

ReqType == req \in [Request -> ReqState] /\ RequestsReady

\* The type invariant by its parts, so that each step need only look at those it
\* changes.
LEMMA TypeInvParts == TypeInv <=> MapsType /\ RxType /\ ReqType
BY DEF TypeInv, TypeOK, MapsType, RxType, ReqType

\* A handler begins idle.
LEMMA IdleRxType == IdleRx \in RxState
BY DEF IdleRx, RxState, Operator

(* The fields of a request by the names of their sets: the record sets stay   *)
(* small in the obligations that update some of the fields.                  *)
ReqPc == {"idle", "paused", "shed", "sticky", "service", "check", "index", "take",
          "connect", "done"}
ReqResult    == {"none", "served", "404", "503", "503 paused", "crashed"}
MaybeHost    == Host \cup {NoHost}
MaybeShed    == ShedId \cup {NoShed}
MaybeVersion == AppVersion \cup {NoVersion}
MaybeCattle  == Cattle \cup {NoCattle}
Herd         == SUBSET Cattle

\* The fields of a request, with their sets named.
LEMMA ReqFields ==
    ReqState = [pc : ReqPc, asked : MaybeHost, path : Seq(Host), host : MaybeHost,
                cookie : Cookie, excluded : Herd, shed : MaybeShed, version : MaybeVersion,
                copied : BOOLEAN, view : Herd, index : Nat, picked : MaybeCattle,
                result : ReqResult]
BY DEF ReqState, ReqPc, ReqResult, MaybeHost, MaybeShed, MaybeVersion, MaybeCattle, Herd

\* What the steps of a request write is in those sets.
LEMMA ReqNames ==
    /\ \A p \in {"paused", "shed", "sticky", "service", "check", "index", "take", "connect",
                 "done"} : p \in ReqPc
    /\ {"served", "404", "503", "503 paused", "crashed"} \subseteq ReqResult
    /\ \A h \in Host : h \in MaybeHost
    /\ \A h \in SUBSET Cattle : h \in Herd
    /\ \A c \in Cattle : c \in MaybeCattle
BY DEF ReqPc, ReqResult, MaybeHost, MaybeCattle, Herd

\* A request begins before it arrives.
LEMMA IdleReqType == IdleReq \in ReqState
BY DEF IdleReq, ReqState, NoCookie, Cookie

\* What a member sends is a message of the group.
LEMMA InboundType ==
    ASSUME NEW a \in Address, NEW m \in Inbound[a]
    PROVE  m \in RanchMessage
BY CattleManagerAssumption

\* A dispatcher starts with empty maps.
LEMMA InitType == Init => TypeInv
<1> SUFFICES ASSUME Init PROVE TypeInv
    OBVIOUS
<1>1. MapsType
    BY EmptyShedType DEF Init, MapsType
<1>2. RxType
    BY IdleRxType DEF Init, RxType, HandlersReady, IdleRx
<1>3. ReqType
    BY IdleReqType DEF Init, ReqType, RequestsReady, IdleReq
<1> QED
    BY <1>1, <1>2, <1>3 DEF TypeInv, TypeOK, MapsType, RxType, ReqType

\* One receiver thread moves: what is to show of its new state.
LEMMA RxMoves ==
    ASSUME RxType, NEW a \in Address, NEW new \in RxState,
           rx' = [rx EXCEPT ![a] = new],
           new.pc # "idle" => new.cattle \in Cattle,
           new.pc \in {"create", "apply", "locked"} => new.host \in Host,
           new.pc \in {"apply", "locked"} => new.shed \in ShedId,
           new.adopts # NoVersion => new.pc = "locked",
           ranchManagerAddrs' \in [Address -> Cattle \cup {NoCattle}],
           received' \in Nat
    PROVE  RxType'
BY DEF RxType, HandlersReady

\* One request thread moves.
LEMMA ReqMoves ==
    ASSUME TypeInv, NEW r \in Request, NEW new \in ReqState, Moves(r, new),
           new.pc \notin {"idle", "done"} => new.asked \in Host /\ new.host \in Host,
           new.pc \in {"sticky", "service", "check", "index", "take"}
              => new.shed \in ShedId,
           new.pc = "connect" => new.picked \in Cattle
    PROVE  TypeInv'
<1>1. ReqType'
    BY DEF TypeInv, TypeOK, ReqType, RequestsReady, Moves
<1>2. MapsType'
    BY TypeInvParts DEF MapsType, Moves, mapVars
<1>3. RxType'
    BY TypeInvParts DEF RxType, HandlersReady, Moves, rxVars
<1> QED
    BY <1>1, <1>2, <1>3 DEF TypeInv, TypeOK, MapsType, RxType, ReqType

\* findCattle starts, for a new request or for one that is tried again.
LEMMA LooksUpType ==
    ASSUME TypeInv, NEW r \in Request, NEW asked \in Host, NEW path \in Seq(Host),
           NEW cookie \in Cookie, NEW excl \in SUBSET Cattle,
           LooksUp(r, asked, path, cookie, excl)
    PROVE  TypeInv'
<1> DEFINE host == ComputeHost(asked, path)
           rest == ContextPath(asked, path)
<1>1. host \in Host \cup {NoHost} /\ rest \in Seq(Host)
    BY DEF ComputeHost, ContextPath
<1> HIDE DEF host, rest
<1>2. CASE host = NoHost
    <2> DEFINE new == [IdleReq EXCEPT !.pc = "done", !.result = "404", !.excluded = excl]
    <2>1. new \in ReqState /\ new.pc = "done"
        BY IdleReqType, ReqFields, ReqNames, Zenon
    <2>2. Moves(r, new)
        BY <1>2 DEF LooksUp, host
    <2> QED
        BY <2>1, <2>2, ReqMoves
<1>3. CASE host # NoHost
    <2> DEFINE new == [IdleReq EXCEPT !.pc = "paused", !.asked = asked, !.path = rest,
                          !.host = host, !.cookie = cookie, !.excluded = excl]
    <2>1. new \in ReqState
        BY <1>1, IdleReqType, ReqFields, ReqNames, Zenon DEF MaybeHost
    <2>2. new.pc = "paused" /\ new.asked = asked /\ new.host = host
        BY DEF IdleReq
    <2>3. Moves(r, new)
        BY <1>3 DEF LooksUp, host, rest
    <2> HIDE DEF new
    <2> QED
        BY <1>1, <1>3, <2>1, <2>2, <2>3, ReqMoves
<1> QED
    BY <1>2, <1>3

\* A step of a request keeps the types.
LEMMA RequestStepType ==
    ASSUME TypeInv, NEW r \in Request,
           \/ \E h \in Host, p \in Paths, k \in Cookies : Arrive(r, h, p, k)
           \/ Process(r)
    PROVE  TypeInv'
<1> USE DEF At
<1>0. req[r] \in ReqState
    BY DEF TypeInv, TypeOK
<1>1. /\ req[r].pc \notin {"idle", "done"}
             => req[r].asked \in Host /\ req[r].host \in Host
      /\ req[r].pc \in {"sticky", "service", "check", "index", "take"}
             => req[r].shed \in ShedId
      /\ req[r].pc = "connect" => req[r].picked \in Cattle
    BY DEF TypeInv, RequestsReady
<1>2. ASSUME NEW result \in {"served", "404", "503", "503 paused", "crashed"},
             Moves(r, Ended(r, result))
      PROVE  TypeInv'
    <2>1. Ended(r, result) \in ReqState
        <3> DEFINE excl == req[r].excluded
        <3>1. excl \in SUBSET Cattle
            BY <1>0 DEF ReqState
        <3> HIDE DEF excl
        <3>2. [IdleReq EXCEPT !.pc = "done", !.result = result, !.excluded = excl]
                \in ReqState
            BY <1>2, <3>1, IdleReqType, ReqFields, ReqNames, Zenon
        <3> QED
            BY <3>2 DEF Ended, excl
    <2>2. Ended(r, result).pc = "done"
        BY DEF Ended, IdleReq
    <2> QED
        BY <1>2, <2>1, <2>2, ReqMoves
<1>3. ASSUME NEW excl \in SUBSET Cattle, LooksAgain(r, excl), req[r].pc = "connect"
      PROVE  TypeInv'
    <2>1. req[r].path \in Seq(Host) /\ req[r].cookie \in Cookie
        BY <1>0 DEF ReqState
    <2> QED
        BY <1>1, <1>3, <2>1, LooksUpType DEF LooksAgain
<1>4. ASSUME NEW h \in Host, NEW p \in Paths, NEW k \in Cookies, Arrive(r, h, p, k)
      PROVE  TypeInv'
    <2>1. p \in Seq(Host) /\ k \in Cookie
        BY CattleManagerAssumption
    <2> QED
        BY <1>4, <2>1, LooksUpType DEF Arrive
<1>5. CASE CheckPaused(r)
    <2> DEFINE new == [req[r] EXCEPT !.pc = "shed"]
    <2>1. new \in ReqState /\ new.pc = "shed" /\ new.host = req[r].host /\ new.asked = req[r].asked
        BY <1>0, ReqFields, ReqNames, Zenon
    <2>2. CASE Moves(r, new)
        BY <1>1, <1>5, <2>1, <2>2, ReqMoves DEF CheckPaused
    <2> QED
        BY <1>2, <1>5, <2>2 DEF CheckPaused
<1>6. CASE FindShed(r)
    <2> DEFINE s == hostsMapping[req[r].host]
               new == [req[r] EXCEPT !.shed = s,
                          !.pc = IF SessionSticky THEN "sticky" ELSE "service"]
    <2>1. s \in ShedId \cup {NoShed}
        BY <1>1, <1>6 DEF FindShed, TypeInv, TypeOK
    <2>2. CASE s # NoShed
        <3>1. new \in ReqState /\ new.host = req[r].host /\ new.asked = req[r].asked /\ new.shed = s
            BY <1>0, <2>1, ReqFields, ReqNames, Zenon DEF MaybeShed
        <3>2. new.pc \in {"sticky", "service"} /\ s \in ShedId /\ Moves(r, new)
            BY <1>0, <1>6, <2>1, <2>2 DEF FindShed, ReqState
        <3> QED
            BY <1>1, <1>6, <3>1, <3>2, ReqMoves DEF FindShed
    <2> QED
        BY <1>2, <1>6, <2>2 DEF FindShed
<1>7. CASE FindSticked(r)
    <2> DEFINE on == [req[r] EXCEPT !.pc = "service"]
    <2>1. on \in ReqState /\ on.pc = "service" /\ on.host = req[r].host /\ on.asked = req[r].asked
                          /\ on.shed = req[r].shed
        BY <1>0, ReqFields, ReqNames, Zenon
    <2>2. CASE Moves(r, on)
        BY <1>1, <1>7, <2>1, <2>2, ReqMoves DEF FindSticked
    <2>3. ASSUME NEW c \in StickedCattles(sheds[req[r].shed], req[r].cookie.server),
                 Moves(r, [req[r] EXCEPT !.pc = "connect", !.picked = c])
          PROVE  TypeInv'
        <3> DEFINE new == [req[r] EXCEPT !.pc = "connect", !.picked = c]
        <3>1. c \in Cattle
            BY <1>1, <1>7 DEF StickedCattles, FindSticked, TypeInv, TypeOK, ShedRecord
        <3>2. new \in ReqState /\ new.pc = "connect" /\ new.host = req[r].host /\ new.asked = req[r].asked
                               /\ new.picked = c
            BY <1>0, <3>1, ReqFields, ReqNames, Zenon
        <3> QED
            BY <1>1, <1>7, <2>3, <3>1, <3>2, ReqMoves DEF FindSticked
    <2> QED
        BY <1>7, <2>2, <2>3 DEF FindSticked
<1>8. CASE Service(r)
    <2> DEFINE shed == sheds[req[r].shed]
               ver  == Select(shed, req[r].cookie)
               copy == req[r].excluded # {}
               new  == [req[r] EXCEPT !.pc = "check", !.version = ver, !.copied = copy,
                           !.view = IF copy THEN CattlesOf(shed, ver) \ req[r].excluded
                                    ELSE {}]
    <2>1. shed \in ShedRecord
        BY <1>1, <1>8 DEF Service, TypeInv, TypeOK
    <2>2. ver \in AppVersion \cup {NoVersion}
        BY <1>0, <2>1, SelectType DEF ReqState
    <2>3. CattlesOf(shed, ver) \subseteq Cattle
        BY DEF CattlesOf
    <2>4. new \in ReqState
        <3> HIDE DEF shed, ver
        <3> QED BY <1>0, <2>2, <2>3, ReqFields, ReqNames, Zenon DEF MaybeVersion
    <2>5. new.pc = "check" /\ new.host = req[r].host /\ new.asked = req[r].asked /\ new.shed = req[r].shed
        BY <1>0 DEF ReqState
    <2> QED
        BY <1>1, <1>8, <2>4, <2>5, ReqMoves DEF Service
<1>9. CASE CheckEmpty(r)
    <2> DEFINE new == [req[r] EXCEPT !.pc = "index"]
    <2>1. new \in ReqState /\ new.pc = "index" /\ new.host = req[r].host /\ new.asked = req[r].asked
                           /\ new.shed = req[r].shed
        BY <1>0, ReqFields, ReqNames, Zenon
    <2>2. CASE Moves(r, new)
        BY <1>1, <1>9, <2>1, <2>2, ReqMoves DEF CheckEmpty
    <2> QED
        BY <1>2, <1>9, <2>2 DEF CheckEmpty
<1>10. CASE ChooseIndex(r)
    <2>1. ASSUME NEW i \in 0 .. (ViewSize(r) - 1),
                 Moves(r, [req[r] EXCEPT !.pc = "take", !.index = i])
          PROVE  TypeInv'
        <3> DEFINE new == [req[r] EXCEPT !.pc = "take", !.index = i]
        <3>1. i \in Nat
            BY <2>1
        <3>2. new \in ReqState /\ new.pc = "take" /\ new.host = req[r].host /\ new.asked = req[r].asked
                               /\ new.shed = req[r].shed
            BY <1>0, <3>1, ReqFields, ReqNames, Zenon
        <3> QED
            BY <1>1, <1>10, <2>1, <3>2, ReqMoves DEF ChooseIndex
    <2> QED
        BY <1>2, <1>10, <2>1 DEF ChooseIndex
<1>11. CASE TakeElement(r)
    <2>1. ASSUME NEW c \in ViewCattles(r),
                 Moves(r, [req[r] EXCEPT !.pc = "connect", !.picked = c])
          PROVE  TypeInv'
        <3> DEFINE new == [req[r] EXCEPT !.pc = "connect", !.picked = c]
        <3>1. c \in Cattle
            BY <1>0, <2>1 DEF ViewCattles, CattlesOf, ReqState
        <3>2. new \in ReqState /\ new.pc = "connect" /\ new.host = req[r].host /\ new.asked = req[r].asked
                               /\ new.picked = c
            BY <1>0, <3>1, ReqFields, ReqNames, Zenon
        <3> QED
            BY <1>1, <1>11, <2>1, <3>1, <3>2, ReqMoves DEF TakeElement
    <2> QED
        BY <1>2, <1>11, <2>1 DEF TakeElement
<1>12. CASE Connect(r)
    BY <1>2, <1>12 DEF Connect
<1>13. CASE ConnectFails(r)
    <2>1. req[r].excluded \cup {req[r].picked} \subseteq Cattle
        BY <1>0, <1>1, <1>13 DEF ConnectFails, ReqState
    <2> QED
        BY <1>3, <1>13, <2>1 DEF ConnectFails
<1> QED
    BY <1>4, <1>5, <1>6, <1>7, <1>8, <1>9, <1>10, <1>11, <1>12, <1>13 DEF Process

\* A request reads the maps and never writes them.
LEMMA RequestKeepsMaps ==
    ASSUME NEW r \in Request,
           (\E h \in Host, p \in Paths, k \in Cookies : Arrive(r, h, p, k)) \/ Process(r)
    PROVE  UNCHANGED <<mapVars, rxVars>>
BY DEF Process, Arrive, CheckPaused, FindShed, FindSticked, Service, CheckEmpty,
       ChooseIndex, TakeElement, Connect, ConnectFails, LooksAgain, LooksUp, Moves, mapVars, rxVars

\* A handler goes on to the next of its hosts.
LEMMA RestOfHostsType ==
    ASSUME TypeInv, NEW a \in Address, NEW h, TakesHost(a, h)
    PROVE  /\ h \in Host
           /\ RestOfHosts(a, h) \in RxState
           /\ RestOfHosts(a, h).pc = "hosts"
           /\ RestOfHosts(a, h).cattle \in Cattle
           /\ RestOfHosts(a, h).adopts = NoVersion
<1>1. rx[a] \in RxState /\ rx[a].cattle \in Cattle /\ rx[a].adopts = NoVersion
    BY DEF TypeInv, TypeOK, HandlersReady, TakesHost
<1> QED
    BY <1>1 DEF RestOfHosts, TakesHost, RxState

\* A step of a handler keeps the types.
LEMMA HandleType ==
    ASSUME TypeInv, NEW a \in Address, Handle(a)
    PROVE  TypeInv'
<1>0. /\ rx[a] \in RxState
      /\ rx[a].pc # "idle" => rx[a].cattle \in Cattle
      /\ rx[a].pc \in {"create", "apply", "locked"} => rx[a].host \in Host
      /\ rx[a].pc \in {"apply", "locked"} => rx[a].shed \in ShedId
      /\ rx[a].adopts # NoVersion => rx[a].pc = "locked"
    BY DEF TypeInv, TypeOK, HandlersReady
<1>1. MapsType /\ RxType /\ ReqType
    BY TypeInvParts
\* What the handlers leave alone keeps its type.
<1>2. ASSUME req' = req  PROVE ReqType'
    BY <1>1, <1>2 DEF ReqType, RequestsReady
<1>3. ASSUME UNCHANGED <<ranchManagerAddrs, received>>
      PROVE  /\ ranchManagerAddrs' \in [Address -> Cattle \cup {NoCattle}]
             /\ received' \in Nat
    BY <1>1, <1>3 DEF RxType
<1>4. ASSUME UNCHANGED mapVars  PROVE MapsType'
    BY <1>1, <1>4 DEF MapsType, mapVars
\* A handler that is done with a host, or with the message.
<1>5. ASSUME NEW h \in Host, TakesHost(a, h), UNCHANGED <<ranchManagerAddrs, received>>,
             rx' = [rx EXCEPT ![a] = RestOfHosts(a, h)]
      PROVE  RxType'
    <2>1. /\ RestOfHosts(a, h) \in RxState
          /\ RestOfHosts(a, h).pc = "hosts"
          /\ RestOfHosts(a, h).cattle \in Cattle
          /\ RestOfHosts(a, h).adopts = NoVersion
        BY <1>5, RestOfHostsType
    <2> QED
        BY <1>1, <1>3, <1>5, <2>1, RxMoves
<1>6. ASSUME rx[a].pc \in {"apply", "locked"}, rx[a].adopts = NoVersion, NextHost(a),
             UNCHANGED <<ranchManagerAddrs, received>>
      PROVE  RxType'
    <2> DEFINE new == [rx[a] EXCEPT !.pc = "hosts", !.host = NoHost, !.shed = NoShed]
    <2>1. /\ new \in RxState /\ new.pc = "hosts" /\ new.cattle \in Cattle
          /\ new.adopts = NoVersion
        BY <1>0, <1>6 DEF RxState
    <2>2. rx' = [rx EXCEPT ![a] = new]
        BY <1>1, <1>6 DEF NextHost, RxType, RxState
    <2> QED
        BY <1>1, <1>3, <1>6, <2>1, <2>2, RxMoves
<1>7. ASSUME NEW new \in ShedRecord, sheds' = [sheds EXCEPT ![rx[a].shed] = new],
             UNCHANGED <<hostsMapping, allocated, pausedHosts>>,
             writer' \in [ShedId -> Address \cup {NoAddress}]
      PROVE  MapsType'
    BY <1>1, <1>7 DEF MapsType
<1>8. writer \in [ShedId -> Address \cup {NoAddress}]
    BY <1>1 DEF MapsType
<1>9. ASSUME rx[a].shed \in ShedId  PROVE sheds[rx[a].shed] \in ShedRecord
    BY <1>1, <1>9 DEF MapsType
<1> USE DEF Applies
<1>10. ASSUME NEW h \in Host, LookupToFill(a, h)  PROVE TypeInv'
    <2> DEFINE rest == RestOfHosts(a, h)
               new  == [rest EXCEPT
                          !.pc   = IF hostsMapping[h] = NoShed THEN "create" ELSE "apply",
                          !.host = h, !.shed = hostsMapping[h]]
    <2>1. rest \in RxState /\ rest.cattle \in Cattle /\ rest.adopts = NoVersion
        BY <1>10, RestOfHostsType DEF LookupToFill
    <2>2. hostsMapping[h] \in ShedId \cup {NoShed}
        BY <1>1 DEF MapsType
    <2> HIDE DEF rest
    <2>3. new \in RxState /\ new.cattle \in Cattle /\ new.host = h
                          /\ new.shed = hostsMapping[h] /\ new.adopts = NoVersion
        BY <2>1, <2>2 DEF RxState
    <2>4. new.pc \in {"create", "apply"} /\ (new.pc = "apply" => new.shed \in ShedId)
        BY <2>1, <2>2 DEF RxState
    <2>5. rx' = [rx EXCEPT ![a] = new]
        BY <1>10 DEF LookupToFill, rest
    <2>6. RxType'
        <3> HIDE DEF new
        <3> QED
            BY <1>1, <1>3, <1>10, <2>3, <2>4, <2>5, RxMoves DEF LookupToFill
    <2> QED
        BY <1>2, <1>4, <1>10, <2>6 DEF LookupToFill, TypeInv, TypeOK, MapsType, RxType, ReqType
<1>11. CASE CreateShed(a)
    <2>1. PICK s \in ShedId \ allocated :
              /\ allocated' = allocated \cup {s}
              /\ hostsMapping' = [hostsMapping EXCEPT ![rx[a].host] = s]
              /\ rx' = [rx EXCEPT ![a].pc = "apply", ![a].shed = s]
        BY <1>11 DEF CreateShed
    <2> DEFINE new == [rx[a] EXCEPT !.pc = "apply", !.shed = s]
    <2>2. /\ new \in RxState /\ new.pc = "apply" /\ new.cattle \in Cattle
          /\ new.host \in Host /\ new.shed \in ShedId /\ new.adopts = NoVersion
        BY <1>0, <1>11 DEF CreateShed, RxState
    <2>3. rx' = [rx EXCEPT ![a] = new]
        BY <1>1, <2>1 DEF RxType, RxState
    <2>4. RxType'
        <3> HIDE DEF new
        <3> QED
            BY <1>1, <1>3, <1>11, <2>2, <2>3, RxMoves DEF CreateShed
    <2>5. MapsType'
        BY <1>0, <1>1, <1>11, <2>1 DEF CreateShed, MapsType
    <2> QED
        BY <1>2, <1>11, <2>4, <2>5 DEF CreateShed, TypeInv, TypeOK, MapsType, RxType, ReqType
<1>12. ASSUME NEW h \in Host, LookupToUpdate(a, h)  PROVE TypeInv'
    <2> DEFINE rest == RestOfHosts(a, h)
               new  == [rest EXCEPT !.pc = "apply", !.host = h, !.shed = hostsMapping[h]]
    <2>1. rest \in RxState /\ rest.cattle \in Cattle /\ rest.adopts = NoVersion
        BY <1>12, RestOfHostsType DEF LookupToUpdate
    <2>2. RxType'
        <3>1. CASE hostsMapping[h] = NoShed
            <4>1. rx' = [rx EXCEPT ![a] = RestOfHosts(a, h)]
                BY <1>12, <3>1 DEF LookupToUpdate
            <4> QED
                BY <1>5, <1>12, <4>1 DEF LookupToUpdate
        <3>2. CASE hostsMapping[h] # NoShed
            <4>1. hostsMapping[h] \in ShedId
                BY <1>1, <3>2 DEF MapsType
            <4>2. rx' = [rx EXCEPT ![a] = new]
                BY <1>12, <3>2 DEF LookupToUpdate
            <4> HIDE DEF rest
            <4>3. /\ new \in RxState /\ new.cattle \in Cattle
                  /\ new.host \in Host /\ new.shed \in ShedId /\ new.adopts = NoVersion
                BY <2>1, <4>1 DEF RxState
            <4> HIDE DEF new
            <4> QED
                BY <1>1, <1>3, <1>12, <4>2, <4>3, RxMoves DEF LookupToUpdate
        <3> QED
            BY <3>1, <3>2
    <2> QED
        BY <1>2, <1>4, <1>12, <2>2 DEF LookupToUpdate, TypeInv, TypeOK, MapsType, RxType, ReqType
<1>13. ASSUME NEW h \in Host, PauseApp(a, h) \/ RestartApp(a, h) \/ StopApp(a, h)
       PROVE  TypeInv'
    <2>1. RxType'
        BY <1>5, <1>13 DEF PauseApp, RestartApp, StopApp
    <2>2. MapsType'
        BY <1>1, <1>13 DEF PauseApp, RestartApp, StopApp, MapsType
    <2>3. ReqType'
        BY <1>2, <1>13 DEF PauseApp, RestartApp, StopApp
    <2> QED
        BY <2>1, <2>2, <2>3 DEF TypeInv, TypeOK, MapsType, RxType, ReqType
<1>14. CASE HandlerDone(a)
    <2>1. IdleRx.pc = "idle" /\ IdleRx.adopts = NoVersion
        BY DEF IdleRx
    <2>2. RxType'
        BY <1>1, <1>3, <1>14, <2>1, IdleRxType, RxMoves DEF HandlerDone
    <2> QED
        BY <1>2, <1>4, <1>14, <2>2 DEF HandlerDone, TypeInv, TypeOK, MapsType, RxType, ReqType
<1>15. CASE RegisterCattle(a)
    <2> DEFINE v   == FoundDefault(sheds[rx[a].shed], rx[a].cattle)
               new == [rx[a] EXCEPT !.pc = "locked", !.todo = {}, !.adopts = v]
    <2>1. /\ PutCattle(sheds[rx[a].shed], rx[a].cattle) \in ShedRecord
          /\ v \in AppVersion \cup {NoVersion}
        BY <1>0, <1>9, <1>15, PutCattleType, FoundDefaultType DEF RegisterCattle
    <2>2. writer' \in [ShedId -> Address \cup {NoAddress}]
        BY <1>8, <1>15 DEF RegisterCattle
    <2>3. MapsType'
        BY <1>7, <1>15, <2>1, <2>2 DEF RegisterCattle
    <2> HIDE DEF v
    <2>4. /\ new \in RxState /\ new.pc = "locked" /\ new.cattle \in Cattle
          /\ new.host \in Host /\ new.shed \in ShedId
        BY <1>0, <1>15, <2>1 DEF RegisterCattle, RxState
    <2>5. rx' = [rx EXCEPT ![a] = new]
        BY <1>1, <1>15 DEF RegisterCattle, RxType, RxState, v
    <2>6. RxType'
        <3> HIDE DEF new
        <3> QED
            BY <1>1, <1>3, <1>15, <2>4, <2>5, RxMoves DEF RegisterCattle
    <2> QED
        BY <1>2, <1>15, <2>3, <2>6 DEF RegisterCattle, TypeInv, TypeOK, MapsType, RxType, ReqType
<1>16. CASE UnregisterCattle(a)
    <2>1. RemoveCattle(sheds[rx[a].shed], rx[a].cattle) \in ShedRecord
        BY <1>0, <1>9, <1>16, RemoveCattleType DEF UnregisterCattle
    <2>2. MapsType'
        BY <1>7, <1>8, <1>16, <2>1 DEF UnregisterCattle
    <2>3. rx[a].pc = "apply" /\ rx[a].adopts = NoVersion
        BY <1>0, <1>16 DEF UnregisterCattle
    <2> QED
        BY <1>2, <1>6, <1>16, <2>2, <2>3 DEF UnregisterCattle, TypeInv, TypeOK, MapsType, RxType, ReqType
<1>17. CASE ChangeDefaultVersion(a)
    <2>1. SetDefaultVersion(sheds[rx[a].shed], rx[a].version) \in ShedRecord
        BY <1>0, <1>9, <1>17, SetDefaultVersionType DEF ChangeDefaultVersion, RxState
    <2>2. MapsType'
        BY <1>7, <1>8, <1>17, <2>1 DEF ChangeDefaultVersion
    <2>3. rx[a].pc = "apply" /\ rx[a].adopts = NoVersion
        BY <1>0, <1>17 DEF ChangeDefaultVersion
    <2> QED
        BY <1>2, <1>6, <1>17, <2>2, <2>3 DEF ChangeDefaultVersion, TypeInv, TypeOK, MapsType, RxType,
                                       ReqType
<1>18. CASE ReloadClear(a)
    <2> DEFINE new == [rx[a] EXCEPT !.pc = "locked", !.todo = rx[a].load]
    <2>1. ClearCattles(sheds[rx[a].shed]) \in ShedRecord
        BY <1>0, <1>9, <1>18, ClearCattlesType DEF ReloadClear
    <2>2. writer' \in [ShedId -> Address \cup {NoAddress}]
        BY <1>8, <1>18 DEF ReloadClear
    <2>3. MapsType'
        BY <1>7, <1>18, <2>1, <2>2 DEF ReloadClear
    <2>4. /\ new \in RxState /\ new.cattle \in Cattle
          /\ new.host \in Host /\ new.shed \in ShedId /\ new.adopts = NoVersion
        BY <1>0, <1>18 DEF ReloadClear, RxState
    <2>5. rx' = [rx EXCEPT ![a] = new]
        BY <1>1, <1>18 DEF ReloadClear, RxType, RxState
    <2>6. RxType'
        <3> HIDE DEF new
        <3> QED
            BY <1>1, <1>3, <1>18, <2>4, <2>5, RxMoves DEF ReloadClear
    <2> QED
        BY <1>2, <1>18, <2>3, <2>6 DEF ReloadClear, TypeInv, TypeOK, MapsType, RxType, ReqType
<1>19. ASSUME NEW c \in Cattle, ReloadAdd(a, c)  PROVE TypeInv'
    <2> DEFINE v   == FoundDefault(sheds[rx[a].shed], c)
               new == [rx[a] EXCEPT !.todo = @ \ {c}, !.adopts = v]
    <2>1. /\ PutCattle(sheds[rx[a].shed], c) \in ShedRecord
          /\ v \in AppVersion \cup {NoVersion}
        BY <1>0, <1>9, <1>19, PutCattleType, FoundDefaultType DEF ReloadAdd
    <2>2. MapsType'
        BY <1>7, <1>8, <1>19, <2>1 DEF ReloadAdd
    <2> HIDE DEF v
    <2>3. /\ new \in RxState /\ new.pc = "locked" /\ new.cattle \in Cattle
          /\ new.host \in Host /\ new.shed \in ShedId
        BY <1>0, <1>19, <2>1 DEF ReloadAdd, RxState
    <2>4. rx' = [rx EXCEPT ![a] = new]
        BY <1>1, <1>19 DEF ReloadAdd, RxType, RxState, v
    <2>5. RxType'
        <3> HIDE DEF new
        <3> QED
            BY <1>1, <1>3, <1>19, <2>3, <2>4, RxMoves DEF ReloadAdd
    <2> QED
        BY <1>2, <1>19, <2>2, <2>5 DEF ReloadAdd, TypeInv, TypeOK, MapsType, RxType, ReqType
<1>20. CASE AdoptDefault(a)
    <2> DEFINE new == [rx[a] EXCEPT !.adopts = NoVersion]
    <2>1. SetDefaultVersion(sheds[rx[a].shed], rx[a].adopts) \in ShedRecord
        BY <1>0, <1>9, <1>20, SetDefaultVersionType DEF AdoptDefault, RxState
    <2>2. MapsType'
        BY <1>7, <1>8, <1>20, <2>1 DEF AdoptDefault
    <2>3. /\ new \in RxState /\ new.cattle \in Cattle
          /\ new.host \in Host /\ new.shed \in ShedId /\ new.adopts = NoVersion
        BY <1>0, <1>20 DEF AdoptDefault, RxState
    <2>4. rx' = [rx EXCEPT ![a] = new]
        BY <1>1, <1>20 DEF AdoptDefault, RxType, RxState
    <2>5. RxType'
        <3> HIDE DEF new
        <3> QED
            BY <1>1, <1>3, <1>20, <2>3, <2>4, RxMoves DEF AdoptDefault
    <2> QED
        BY <1>2, <1>20, <2>2, <2>5 DEF AdoptDefault, TypeInv, TypeOK, MapsType, RxType, ReqType
<1>21. CASE Unlock(a)
    <2>1. MapsType'
        BY <1>1, <1>21 DEF Unlock, MapsType
    <2> QED
        BY <1>2, <1>6, <1>21, <2>1 DEF Unlock, TypeInv, TypeOK, MapsType, RxType, ReqType
<1> QED
    BY <1>10, <1>11, <1>12, <1>13, <1>14, <1>15, <1>16, <1>17, <1>18, <1>19, <1>20, <1>21
       DEF Handle

\* So do a message that arrives and a member that is suspected.
LEMMA MessageType ==
    ASSUME TypeInv, NEW a \in Address,
           (\E m \in Inbound[a] : Receive(a, m)) \/ Suspect(a)
    PROVE  TypeInv'
<1>1. MapsType /\ RxType /\ ReqType
    BY TypeInvParts
<1>2. CASE \E m \in Inbound[a] : Receive(a, m)
    <2>1. PICK m \in Inbound[a] : Receive(a, m)
        BY <1>2
    <2> DEFINE new == [IdleRx EXCEPT !.pc = "hosts", !.op = m.op, !.cattle = m.cattle,
                          !.version = m.version, !.load = m.load,
                          !.hosts = HostsOf[m.cattle]]
    <2>2. m \in RanchMessage /\ HostsOf[m.cattle] \subseteq Host
        BY InboundType, CattleManagerAssumption DEF RanchMessage
    <2>3. /\ new \in RxState /\ new.pc = "hosts" /\ new.cattle = m.cattle
          /\ new.adopts = NoVersion
        BY <2>2, IdleRxType DEF IdleRx, RxState, RanchMessage
    <2>4. RxType'
        <3>0. m.cattle \in Cattle
            BY <2>2 DEF RanchMessage
        <3>1. /\ ranchManagerAddrs' \in [Address -> Cattle \cup {NoCattle}]
              /\ received' \in Nat
            <4>1. /\ ranchManagerAddrs' = [ranchManagerAddrs EXCEPT ![a] = m.cattle]
                  /\ received' = received + 1
                BY <2>1 DEF Receive
            <4>2. /\ ranchManagerAddrs \in [Address -> Cattle \cup {NoCattle}]
                  /\ received \in Nat
                BY <1>1 DEF RxType
            <4> QED
                BY <3>0, <4>1, <4>2
        <3>2. rx' = [rx EXCEPT ![a] = new]
            BY <2>1 DEF Receive
        <3> HIDE DEF new
        <3> QED
            BY <1>1, <2>3, <3>0, <3>1, <3>2, RxMoves
    <2> QED
        BY <1>1, <2>1, <2>4 DEF Receive, mapVars, TypeInv, TypeOK, MapsType, RxType, ReqType,
                                RequestsReady
<1>3. CASE Suspect(a)
    <2> DEFINE new == [IdleRx EXCEPT !.pc = "hosts", !.op = "UNREGISTER",
                          !.cattle = ranchManagerAddrs[a],
                          !.hosts = HostsOf[ranchManagerAddrs[a]]]
    <2>1. ranchManagerAddrs[a] \in Cattle
        BY <1>1, <1>3 DEF Suspect, RxType
    <2>2. HostsOf[ranchManagerAddrs[a]] \subseteq Host
        BY <2>1, CattleManagerAssumption
    <2>3. /\ new \in RxState /\ new.pc = "hosts" /\ new.cattle \in Cattle
          /\ new.adopts = NoVersion
        BY <2>1, <2>2, IdleRxType DEF IdleRx, RxState, Operator
    <2>4. RxType'
        <3>1. /\ ranchManagerAddrs' \in [Address -> Cattle \cup {NoCattle}]
              /\ received' \in Nat
            BY <1>1, <1>3 DEF RxType, Suspect
        <3>2. rx' = [rx EXCEPT ![a] = new]
            BY <1>3 DEF Suspect
        <3> HIDE DEF new
        <3> QED
            BY <1>1, <2>3, <3>1, <3>2, RxMoves
    <2> QED
        BY <1>1, <1>3, <2>4 DEF Suspect, mapVars, TypeInv, TypeOK, MapsType, RxType, ReqType,
                                RequestsReady
<1> QED
    BY <1>2, <1>3

\* So does a step of something else.
LEMMA StutterType == TypeInv /\ UNCHANGED vars => TypeInv'
BY DEF vars, TypeInv, TypeOK, HandlersReady, RequestsReady

\* TypeInv is inductive: it holds at first and every step keeps it.
THEOREM TypeInvariance == Spec => []TypeInv
<1>1. Init => TypeInv
    BY InitType
<1>2. TypeInv /\ [Next]_vars => TypeInv'
    BY HandleType, MessageType, RequestStepType, StutterType DEF Next
<1> QED
    BY <1>1, <1>2, PTL DEF Spec

\* Type correctness: whatever the members send and in whatever order the threads
\* run, the maps, the sheds and both kinds of threads keep their types; no count
\* of a multimap becomes negative (Shed.java:116-167, CattleManager.java:311-449).
THEOREM TypeCorrect == Spec => []TypeOK
<1>1. TypeInv => TypeOK
    BY DEF TypeInv
<1> QED
    BY <1>1, TypeInvariance, PTL

-----------------------------------------------------------------------------
(* The two indexes of a shed. *)

\* What one step can do to a shed.
LEMMA ShedSteps ==
    ASSUME TypeInv, [Next]_vars, NEW s \in ShedId
    PROVE  \/ sheds'[s] = sheds[s]
           \/ \E c \in Cattle : sheds'[s] = PutCattle(sheds[s], c)
           \/ \E c \in Cattle : sheds'[s] = RemoveCattle(sheds[s], c)
           \/ sheds'[s] = ClearCattles(sheds[s])
           \/ \E v \in AppVersion \cup {NoVersion} :
                  sheds'[s] = SetDefaultVersion(sheds[s], v)
<1> DEFINE Goal == \/ sheds'[s] = sheds[s]
                   \/ \E c \in Cattle : sheds'[s] = PutCattle(sheds[s], c)
                   \/ \E c \in Cattle : sheds'[s] = RemoveCattle(sheds[s], c)
                   \/ sheds'[s] = ClearCattles(sheds[s])
                   \/ \E v \in AppVersion \cup {NoVersion} :
                          sheds'[s] = SetDefaultVersion(sheds[s], v)
<1>1. sheds \in [ShedId -> ShedRecord]
    BY DEF TypeInv, TypeOK
<1>2. CASE UNCHANGED sheds
    BY <1>2
<1>3. ASSUME NEW a \in Address, Handle(a)  PROVE Goal
    <2>1. rx[a].pc # "idle" => rx[a].cattle \in Cattle
        BY DEF TypeInv, HandlersReady
    <2>2. rx[a].version \in AppVersion \cup {NoVersion}
        BY DEF TypeInv, TypeOK, RxState
    <2>3. CASE RegisterCattle(a)
        BY <1>1, <2>1, <2>3 DEF RegisterCattle, Applies
    <2>4. CASE UnregisterCattle(a)
        BY <1>1, <2>1, <2>4 DEF UnregisterCattle, Applies
    <2>5. CASE ChangeDefaultVersion(a)
        BY <1>1, <2>2, <2>5 DEF ChangeDefaultVersion
    <2>6. CASE ReloadClear(a)
        BY <1>1, <2>6 DEF ReloadClear
    <2>7. ASSUME NEW c \in Cattle, ReloadAdd(a, c)  PROVE Goal
        BY <1>1, <2>7 DEF ReloadAdd
    <2>8. CASE CreateShed(a) \/ HandlerDone(a) \/ Unlock(a)
        BY <1>2, <2>8 DEF CreateShed, HandlerDone, Unlock, mapVars
    <2>10. CASE AdoptDefault(a)
        <3>1. rx[a].adopts \in AppVersion \cup {NoVersion}
            BY DEF TypeInv, TypeOK, RxState
        <3> QED
            BY <1>1, <2>10, <3>1 DEF AdoptDefault
    <2>9. ASSUME NEW h \in Host,
                 \/ LookupToFill(a, h) \/ LookupToUpdate(a, h)
                 \/ PauseApp(a, h) \/ RestartApp(a, h) \/ StopApp(a, h)
          PROVE  Goal
        BY <1>2, <2>9 DEF LookupToFill, LookupToUpdate, PauseApp, RestartApp, StopApp,
                          mapVars
    <2> QED
        BY <1>3, <2>3, <2>4, <2>5, <2>6, <2>7, <2>8, <2>9, <2>10 DEF Handle
<1>4. ASSUME NEW a \in Address, (\E m \in Inbound[a] : Receive(a, m)) \/ Suspect(a)
      PROVE  Goal
    BY <1>2, <1>4 DEF Receive, Suspect, mapVars
<1>5. ASSUME NEW r \in Request,
             (\E h \in Host, p \in Paths, k \in Cookies : Arrive(r, h, p, k)) \/ Process(r)
      PROVE  Goal
    BY <1>2, <1>5, RequestKeepsMaps DEF mapVars
<1> QED
    BY <1>2, <1>3, <1>4, <1>5 DEF Next, vars

\* Whatever a command does to a shed, each instance in it has a version that counts
\* it.
LEMMA RoutableKept ==
    ASSUME NEW s \in ShedRecord, NEW t,
           \A c \in s.cattles : s.versionsMap[c] > 0,
           \/ t = s
           \/ \E c \in Cattle : t = PutCattle(s, c)
           \/ \E c \in Cattle : t = RemoveCattle(s, c)
           \/ t = ClearCattles(s)
           \/ \E v \in AppVersion \cup {NoVersion} : t = SetDefaultVersion(s, v)
    PROVE  \A c \in t.cattles : t.versionsMap[c] > 0
<1>1. /\ s.cattles \subseteq Cattle
      /\ s.versionsMap \in [Cattle -> Nat]
    BY DEF ShedRecord
<1>2. ASSUME NEW c \in Cattle, t = PutCattle(s, c)
      PROVE  \A d \in t.cattles : t.versionsMap[d] > 0
    BY <1>1, <1>2 DEF PutCattle, ShedRecord
<1>3. ASSUME NEW c \in Cattle, t = RemoveCattle(s, c)
      PROVE  \A d \in t.cattles : t.versionsMap[d] > 0
    BY <1>1, <1>3 DEF RemoveCattle
<1>4. CASE t = ClearCattles(s)
    BY <1>4 DEF ClearCattles, ShedRecord
<1>5. ASSUME NEW v, t = SetDefaultVersion(s, v)
      PROVE  \A d \in t.cattles : t.versionsMap[d] > 0
    BY <1>5 DEF SetDefaultVersion, ShedRecord
<1> QED
    BY <1>2, <1>3, <1>4, <1>5

\* An instance the sticky look up can return is one the choice by version can
\* return: no mix of registrations, reports, duplicates and removals, from any
\* number of members, makes the set and the multimap of a shed disagree in that
\* direction (Shed.java:127, 150, 206).
THEOREM RegisteredRoutable == Spec => []RegisteredIsRoutable
<1>1. Init => RegisteredIsRoutable
    BY DEF Init, RegisteredIsRoutable, EmptyShed
<1>2. TypeInv /\ RegisteredIsRoutable /\ [Next]_vars => RegisteredIsRoutable'
    <2> SUFFICES ASSUME TypeInv, RegisteredIsRoutable, [Next]_vars, NEW s \in ShedId
                 PROVE  \A c \in sheds'[s].cattles : sheds'[s].versionsMap[c] > 0
        BY DEF RegisteredIsRoutable
    <2>1. sheds[s] \in ShedRecord
        BY DEF TypeInv, TypeOK
    <2>2. \A c \in sheds[s].cattles : sheds[s].versionsMap[c] > 0
        BY DEF RegisteredIsRoutable
    <2> DEFINE t == sheds'[s]
    <2>3. \/ t = sheds[s]
          \/ \E c \in Cattle : t = PutCattle(sheds[s], c)
          \/ \E c \in Cattle : t = RemoveCattle(sheds[s], c)
          \/ t = ClearCattles(sheds[s])
          \/ \E v \in AppVersion \cup {NoVersion} : t = SetDefaultVersion(sheds[s], v)
        BY ShedSteps
    <2> HIDE DEF t
    <2>4. \A c \in t.cattles : t.versionsMap[c] > 0
        BY <2>1, <2>2, <2>3, RoutableKept
    <2> QED
        BY <2>4 DEF t
<1> QED
    BY <1>1, <1>2, TypeInvariance, PTL DEF Spec

-----------------------------------------------------------------------------
(* A reload is not disturbed. *)

\* A thread that adds instances holds the write lock of its shed, and what it has
\* left to add is part of what was reported.
LoaderHoldsLock ==
    \A a \in Address : rx[a].pc = "locked" =>
        writer[rx[a].shed] = a /\ rx[a].todo \subseteq rx[a].load

Loaded(shed, added) ==
    /\ shed.cattles = added
    /\ \A c \in Cattle : shed.versionsMap[c] = IF c \in added THEN 1 ELSE 0

\* A handler writes its own state only.
LEMMA OthersKeepRx ==
    ASSUME TypeInv, NEW a \in Address, NEW b \in Address, a # b, Handle(b)
    PROVE  rx'[a] = rx[a]
<1>1. rx \in [Address -> RxState]
    BY DEF TypeInv, TypeOK
<1>2. CASE CreateShed(b) \/ HandlerDone(b)
    BY <1>1, <1>2 DEF CreateShed, HandlerDone
<1>3. ASSUME NEW h \in Host, LookupToFill(b, h) \/ LookupToUpdate(b, h)
      PROVE  rx'[a] = rx[a]
    BY <1>1, <1>3 DEF LookupToFill, LookupToUpdate
<1>4. ASSUME NEW h \in Host, PauseApp(b, h) \/ RestartApp(b, h) \/ StopApp(b, h)
      PROVE  rx'[a] = rx[a]
    BY <1>1, <1>4 DEF PauseApp, RestartApp, StopApp
<1>5. CASE RegisterCattle(b) \/ UnregisterCattle(b) \/ ChangeDefaultVersion(b)
    BY <1>1, <1>5 DEF RegisterCattle, UnregisterCattle, ChangeDefaultVersion, NextHost
<1>6. CASE ReloadClear(b) \/ Unlock(b) \/ AdoptDefault(b) \/ \E c \in Cattle : ReloadAdd(b, c)
    BY <1>1, <1>6 DEF ReloadClear, Unlock, AdoptDefault, ReloadAdd, NextHost
<1> QED
    BY <1>2, <1>3, <1>4, <1>5, <1>6 DEF Handle

\* A message wakes one handler only.
LEMMA MessageKeepsRx ==
    ASSUME TypeInv, NEW a \in Address, NEW b \in Address, a # b,
           (\E m \in Inbound[a] : Receive(a, m)) \/ Suspect(a)
    PROVE  rx'[b] = rx[b]
<1>1. rx \in [Address -> RxState]
    BY DEF TypeInv, TypeOK
<1>2. \E new : rx' = [rx EXCEPT ![a] = new]
    BY DEF Receive, Suspect
<1> QED
    BY <1>1, <1>2

\* ReloadIsExclusive by handler.
LEMMA LoadedDef ==
    ReloadIsExclusive <=>
        \A a \in Address : rx[a].pc = "locked" /\ rx[a].op = "RANCH_LOAD" =>
            Loaded(sheds[rx[a].shed], rx[a].load \ rx[a].todo)
BY DEF ReloadIsExclusive, Loaded

\* The shed that another member holds the lock of, b's step leaves alone but for
\* its default version.
LEMMA LockedKept ==
    ASSUME TypeInv, LoaderHoldsLock, NEW a \in Address, NEW b \in Address, a # b,
           rx[a].pc = "locked", Handle(b)
    PROVE  /\ sheds'[rx[a].shed].cattles = sheds[rx[a].shed].cattles
           /\ sheds'[rx[a].shed].versionsMap = sheds[rx[a].shed].versionsMap
           /\ writer'[rx[a].shed] = a
           /\ rx'[a] = rx[a]
<1> DEFINE s == rx[a].shed
           Goal == /\ sheds'[s].cattles = sheds[s].cattles
                   /\ sheds'[s].versionsMap = sheds[s].versionsMap
                   /\ writer'[s] = a
<1>0. rx'[a] = rx[a]
    BY OthersKeepRx
<1>1. /\ s \in ShedId /\ writer[s] = a /\ a # NoAddress
      /\ sheds \in [ShedId -> ShedRecord] /\ writer \in [ShedId -> Address \cup {NoAddress}]
    BY CattleManagerAssumption DEF TypeInv, TypeOK, HandlersReady, LoaderHoldsLock
<1>2. rx[b].pc = "locked" => rx[b].shed # s
    BY <1>1 DEF LoaderHoldsLock
<1>3. ASSUME UNCHANGED <<sheds, writer>>  PROVE Goal
    BY <1>1, <1>3
<1>4. ASSUME RegisterCattle(b) \/ UnregisterCattle(b) \/ ReloadClear(b)  PROVE Goal
    <2>1. rx[b].shed # s
        BY <1>1, <1>4 DEF RegisterCattle, UnregisterCattle, ReloadClear, WriteUnlocked
    <2> QED
        BY <1>1, <1>4, <2>1 DEF RegisterCattle, UnregisterCattle, ReloadClear
<1>5. ASSUME ChangeDefaultVersion(b)  PROVE Goal
    <2>1. CASE rx[b].shed = s
        <3>1. sheds'[s] = SetDefaultVersion(sheds[s], rx[b].version)
            BY <1>1, <1>5, <2>1 DEF ChangeDefaultVersion
        <3> QED
            BY <1>1, <1>5, <3>1 DEF ChangeDefaultVersion, SetDefaultVersion, ShedRecord
    <2>2. CASE rx[b].shed # s
        BY <1>1, <1>5, <2>2 DEF ChangeDefaultVersion
    <2> QED
        BY <2>1, <2>2
<1>6. ASSUME AdoptDefault(b) \/ Unlock(b) \/ \E c \in Cattle : ReloadAdd(b, c)
      PROVE  Goal
    BY <1>1, <1>2, <1>6 DEF AdoptDefault, Unlock, ReloadAdd
<1>7. ASSUME CreateShed(b) \/ HandlerDone(b)  PROVE Goal
    BY <1>3, <1>7 DEF CreateShed, HandlerDone, mapVars
<1>8. ASSUME NEW h \in Host, LookupToFill(b, h) \/ LookupToUpdate(b, h)
      PROVE  Goal
    BY <1>3, <1>8 DEF LookupToFill, LookupToUpdate, mapVars
<1>9. ASSUME NEW h \in Host, PauseApp(b, h) \/ RestartApp(b, h) \/ StopApp(b, h)
      PROVE  Goal
    BY <1>3, <1>9 DEF PauseApp, RestartApp, StopApp
<1>10. Goal
    BY <1>4, <1>5, <1>6, <1>7, <1>8, <1>9 DEF Handle
<1> QED
    BY <1>0, <1>10

\* Who holds a lock after a step of its own has just taken it or goes on with it.
LEMMA LockedBy ==
    ASSUME TypeInv, NEW a \in Address, Handle(a), rx'[a].pc = "locked"
    PROVE  \/ RegisterCattle(a) \/ ReloadClear(a) \/ AdoptDefault(a)
           \/ \E c \in Cattle : ReloadAdd(a, c)
<1>1. rx \in [Address -> RxState]
    BY DEF TypeInv, TypeOK
<1>2. CASE UnregisterCattle(a) \/ ChangeDefaultVersion(a) \/ Unlock(a)
    BY <1>1, <1>2 DEF UnregisterCattle, ChangeDefaultVersion, Unlock, NextHost, RxState
<1>3. CASE CreateShed(a) \/ HandlerDone(a)
    BY <1>1, <1>3 DEF CreateShed, HandlerDone, IdleRx, RxState
<1>4. ASSUME NEW h \in Host,
             \/ LookupToFill(a, h) \/ LookupToUpdate(a, h)
             \/ PauseApp(a, h) \/ RestartApp(a, h) \/ StopApp(a, h)
      PROVE  FALSE
    <2>1. RestOfHosts(a, h).pc = "hosts" /\ RestOfHosts(a, h) \in RxState
        BY <1>4, RestOfHostsType DEF LookupToFill, LookupToUpdate, PauseApp, RestartApp,
                                     StopApp
    <2> DEFINE rest  == RestOfHosts(a, h)
               pc    == IF hostsMapping[h] = NoShed THEN "create" ELSE "apply"
               fill  == [rest EXCEPT !.pc = pc, !.host = h, !.shed = hostsMapping[h]]
               apply == [rest EXCEPT !.pc = "apply", !.host = h, !.shed = hostsMapping[h]]
    <2>2. rest.pc = "hosts" /\ fill.pc \in {"create", "apply"} /\ apply.pc = "apply"
        <3> HIDE DEF pc, rest
        <3>1. pc \in {"create", "apply"}
            BY DEF pc
        <3>2. rest \in RxState /\ rest.pc = "hosts"
            BY <2>1 DEF rest
        <3> QED
            BY <3>1, <3>2 DEF RxState
    <2>3. rx' \in {[rx EXCEPT ![a] = rest], [rx EXCEPT ![a] = fill],
                   [rx EXCEPT ![a] = apply]}
        <3>1. CASE LookupToFill(a, h)
            BY <3>1 DEF LookupToFill
        <3>2. CASE LookupToUpdate(a, h)
            BY <3>2 DEF LookupToUpdate
        <3>3. CASE PauseApp(a, h) \/ RestartApp(a, h) \/ StopApp(a, h)
            BY <3>3 DEF PauseApp, RestartApp, StopApp
        <3> QED
            BY <1>4, <3>1, <3>2, <3>3
    <2> HIDE DEF rest, fill, apply
    <2>4. rx'[a] \in {rest, fill, apply}
        BY <1>1, <2>3
    <2> QED
        BY <2>2, <2>4
<1> QED
    BY <1>2, <1>3, <1>4 DEF Handle

\* What a's own step does to the shed it has locked.
LEMMA LoaderSteps ==
    ASSUME TypeInv, LoaderHoldsLock, ReloadIsExclusive, NEW a \in Address,
           Handle(a), rx'[a].pc = "locked"
    PROVE  /\ rx'[a].op = "RANCH_LOAD" =>
                 Loaded(sheds'[rx'[a].shed], rx'[a].load \ rx'[a].todo)
           /\ writer'[rx'[a].shed] = a
           /\ rx'[a].todo \subseteq rx'[a].load
<1> DEFINE s == rx[a].shed
           Goal == /\ rx'[a].op = "RANCH_LOAD" =>
                         Loaded(sheds'[rx'[a].shed], rx'[a].load \ rx'[a].todo)
                   /\ writer'[rx'[a].shed] = a
                   /\ rx'[a].todo \subseteq rx'[a].load
<1>1. /\ rx[a].pc \in {"apply", "locked"} => s \in ShedId
      /\ sheds \in [ShedId -> ShedRecord] /\ rx \in [Address -> RxState]
      /\ writer \in [ShedId -> Address \cup {NoAddress}]
      /\ rx[a].load \subseteq Cattle
    BY DEF TypeInv, TypeOK, HandlersReady, RxState
<1>2. CASE ReloadClear(a)
    <2>1. /\ s \in ShedId /\ sheds'[s] = ClearCattles(sheds[s]) /\ writer'[s] = a
          /\ rx'[a].shed = s /\ rx'[a].todo = rx[a].load /\ rx'[a].load = rx[a].load
        BY <1>1, <1>2 DEF ReloadClear, Applies, RxState
    <2>2. Loaded(sheds'[s], {})
        BY <1>1, <2>1 DEF Loaded, ClearCattles, ShedRecord
    <2> QED
        BY <2>1, <2>2
<1>3. ASSUME NEW c \in Cattle, ReloadAdd(a, c)  PROVE Goal
    <2>1. /\ s \in ShedId /\ sheds'[s] = PutCattle(sheds[s], c) /\ writer'[s] = writer[s]
          /\ rx'[a].shed = s /\ rx'[a].todo = rx[a].todo \ {c} /\ rx'[a].op = rx[a].op
          /\ rx'[a].load = rx[a].load /\ rx[a].pc = "locked" /\ c \in rx[a].todo
        BY <1>1, <1>3 DEF ReloadAdd, RxState
    <2>2. writer[s] = a /\ rx[a].todo \subseteq rx[a].load
        BY <2>1 DEF LoaderHoldsLock
    <2> DEFINE old == rx[a].load \ rx[a].todo
               new == rx[a].load \ (rx[a].todo \ {c})
    <2>3. new = old \cup {c} /\ c \notin old
        BY <2>1, <2>2
    <2>4. ASSUME rx[a].op = "RANCH_LOAD"  PROVE Loaded(sheds'[s], new)
        <3>1. Loaded(sheds[s], old)
            BY <2>1, <2>4, LoadedDef
        <3>2. PICK shed \in ShedRecord : shed = sheds[s] /\ Loaded(shed, old)
            BY <1>1, <2>1, <3>1
        <3> HIDE DEF old, new
        <3>3. Loaded(PutCattle(shed, c), new)
            BY <2>3, <3>2 DEF Loaded, PutCattle, ShedRecord
        <3> QED
            BY <2>1, <3>2, <3>3
    <2> QED
        BY <2>1, <2>2, <2>4
<1>4. CASE RegisterCattle(a)
    <2>1. /\ s \in ShedId /\ writer'[s] = a /\ rx'[a].shed = s /\ rx'[a].todo = {}
          /\ rx'[a].op = "REGISTER"
        BY <1>1, <1>4 DEF RegisterCattle, Applies, RxState
    <2> QED
        BY <2>1
<1>5. CASE AdoptDefault(a)
    <2>1. /\ s \in ShedId /\ writer'[s] = writer[s] /\ rx[a].pc = "locked"
          /\ sheds'[s] = SetDefaultVersion(sheds[s], rx[a].adopts)
          /\ rx'[a].shed = s /\ rx'[a].todo = rx[a].todo /\ rx'[a].op = rx[a].op
          /\ rx'[a].load = rx[a].load
        BY <1>1, <1>5 DEF AdoptDefault, RxState
    <2>2. /\ sheds'[s].cattles = sheds[s].cattles
          /\ sheds'[s].versionsMap = sheds[s].versionsMap
        BY <1>1, <2>1 DEF SetDefaultVersion, ShedRecord
    <2>3. writer[s] = a /\ rx[a].todo \subseteq rx[a].load
        BY <2>1 DEF LoaderHoldsLock
    <2>4. ASSUME rx[a].op = "RANCH_LOAD"
          PROVE  Loaded(sheds'[s], rx[a].load \ rx[a].todo)
        <3>1. Loaded(sheds[s], rx[a].load \ rx[a].todo)
            BY <2>1, <2>4, LoadedDef
        <3> QED
            BY <2>2, <3>1 DEF Loaded
    <2> QED
        BY <2>1, <2>3, <2>4
<1> QED
    BY <1>2, <1>3, <1>4, <1>5, LockedBy

\* A reload holds the lock until it is done, and the shed has what it has added.
LEMMA LoaderInvariance == Spec => [](LoaderHoldsLock /\ ReloadIsExclusive)
<1> DEFINE Inv == LoaderHoldsLock /\ ReloadIsExclusive
<1>1. Init => Inv
    BY DEF Init, LoaderHoldsLock, ReloadIsExclusive, IdleRx
<1>2. TypeInv /\ Inv /\ [Next]_vars => Inv'
    <2> SUFFICES ASSUME TypeInv, Inv, [Next]_vars,
                        NEW a \in Address, rx'[a].pc = "locked"
                 PROVE  /\ rx'[a].op = "RANCH_LOAD" =>
                              Loaded(sheds'[rx'[a].shed], rx'[a].load \ rx'[a].todo)
                        /\ writer'[rx'[a].shed] = a
                        /\ rx'[a].todo \subseteq rx'[a].load
        BY DEF LoaderHoldsLock, ReloadIsExclusive, Loaded
    <2>0. rx[a].pc = "locked" /\ rx[a].op = "RANCH_LOAD" =>
              Loaded(sheds[rx[a].shed], rx[a].load \ rx[a].todo)
        BY LoadedDef
    <2>1. CASE UNCHANGED <<sheds, writer>> /\ rx'[a] = rx[a]
        BY <2>0, <2>1 DEF LoaderHoldsLock
    <2>2. ASSUME NEW b \in Address, Handle(b)
          PROVE  /\ rx'[a].op = "RANCH_LOAD" =>
                       Loaded(sheds'[rx'[a].shed], rx'[a].load \ rx'[a].todo)
                 /\ writer'[rx'[a].shed] = a
                 /\ rx'[a].todo \subseteq rx'[a].load
        <3>1. CASE a = b
            BY <2>2, <3>1, LoaderSteps
        <3>2. CASE a # b
            <4>1. rx'[a] = rx[a]
                BY <2>2, <3>2, OthersKeepRx
            <4>2. /\ sheds'[rx[a].shed].cattles = sheds[rx[a].shed].cattles
                  /\ sheds'[rx[a].shed].versionsMap = sheds[rx[a].shed].versionsMap
                  /\ writer'[rx[a].shed] = a
                <5>1. TypeInv /\ LoaderHoldsLock /\ rx[a].pc = "locked"
                    BY <4>1
                <5> QED
                    BY <2>2, <3>2, <5>1, LockedKept
            <4> QED
                BY <2>0, <4>1, <4>2 DEF LoaderHoldsLock, Loaded
        <3> QED
            BY <3>1, <3>2
    <2>3. ASSUME NEW b \in Address, (\E m \in Inbound[b] : Receive(b, m)) \/ Suspect(b)
          PROVE  UNCHANGED <<sheds, writer>> /\ rx'[a] = rx[a]
        <3>1. UNCHANGED <<sheds, writer>>
            BY <2>3 DEF Receive, Suspect, mapVars
        <3>2. rx \in [Address -> RxState]
            BY DEF TypeInv, TypeOK
        <3>3. \E new : rx' = [rx EXCEPT ![b] = new] /\ new.pc = "hosts"
            <4>1. ASSUME NEW m \in Inbound[b], Receive(b, m)
                  PROVE  \E new : rx' = [rx EXCEPT ![b] = new] /\ new.pc = "hosts"
                <5> DEFINE new == [IdleRx EXCEPT !.pc = "hosts", !.op = m.op,
                                      !.cattle = m.cattle, !.version = m.version,
                                      !.load = m.load, !.hosts = HostsOf[m.cattle]]
                <5>1. new.pc = "hosts"
                    BY DEF IdleRx
                <5>2. rx' = [rx EXCEPT ![b] = new]
                    BY <4>1 DEF Receive
                <5> QED
                    BY <5>1, <5>2
            <4>2. CASE Suspect(b)
                <5> DEFINE new == [IdleRx EXCEPT !.pc = "hosts", !.op = "UNREGISTER",
                                      !.cattle = ranchManagerAddrs[b],
                                      !.hosts = HostsOf[ranchManagerAddrs[b]]]
                <5>1. new.pc = "hosts"
                    BY DEF IdleRx
                <5>2. rx' = [rx EXCEPT ![b] = new]
                    BY <4>2 DEF Suspect
                <5> QED
                    BY <5>1, <5>2
            <4> QED
                BY <2>3, <4>1, <4>2
        <3> QED
            BY <3>1, <3>2, <3>3
    <2>4. ASSUME NEW r \in Request,
                 (\E h \in Host, p \in Paths, k \in Cookies : Arrive(r, h, p, k)) \/ Process(r)
          PROVE  UNCHANGED <<sheds, writer>> /\ rx'[a] = rx[a]
        BY <2>4, RequestKeepsMaps DEF mapVars, rxVars
    <2> QED
        BY <2>1, <2>2, <2>3, <2>4 DEF Next, vars
<1> QED
    BY <1>1, <1>2, TypeInvariance, PTL DEF Spec

\* A reload puts exactly the reported instances in the shed, each once, whatever
\* the handlers of other members do to the same shed (Shed.java:199-216).
THEOREM ReloadExclusive == Spec => []ReloadIsExclusive
BY LoaderInvariance, PTL

-----------------------------------------------------------------------------
(* The default version. *)

\* A handler's step, of a shed whose default version is settled: it stays, unless
\* the step carries out the command for it, and the handler does not become one
\* that found none.
LEMMA SettledByHandler ==
    ASSUME TypeInv, TypeInv', NEW s \in ShedId, DefaultSettled(s),
           NEW a \in Address, Handle(a)
    PROVE  /\ sheds'[s].defaultVersion # NoVersion
           /\ \/ sheds'[s].defaultVersion = sheds[s].defaultVersion
              \/ /\ Applies(a, "APP_SET_DEFAULT_VERSION")
                 /\ rx[a].shed = s
                 /\ sheds'[s].defaultVersion = rx[a].version
           /\ rx'[a].shed = s => rx'[a].adopts = NoVersion
<1>1. /\ sheds \in [ShedId -> ShedRecord] /\ rx \in [Address -> RxState]
      /\ sheds[s].defaultVersion # NoVersion
      /\ rx[a].shed = s => rx[a].adopts = NoVersion
    BY DEF TypeInv, TypeOK, DefaultSettled
<1> DEFINE Kept == sheds'[s].defaultVersion = sheds[s].defaultVersion
           Told == /\ Applies(a, "APP_SET_DEFAULT_VERSION")
                   /\ rx[a].shed = s
                   /\ sheds'[s].defaultVersion = rx[a].version
                   /\ rx[a].version # NoVersion
<1>2. Kept \/ Told
    <2>1. ASSUME UNCHANGED sheds  PROVE Kept
        BY <2>1
    <2>2. ASSUME NEW shed \in ShedRecord, NEW c \in Cattle
          PROVE  /\ PutCattle(shed, c).defaultVersion = shed.defaultVersion
                 /\ RemoveCattle(shed, c).defaultVersion = shed.defaultVersion
        BY DEF PutCattle, RemoveCattle
    <2>21. ASSUME NEW shed \in ShedRecord
           PROVE  ClearCattles(shed).defaultVersion = shed.defaultVersion
        BY DEF ClearCattles, ShedRecord
    <2>3. CASE RegisterCattle(a) \/ UnregisterCattle(a)
        <3>1. rx[a].cattle \in Cattle /\ rx[a].shed \in ShedId
            BY <2>3 DEF RegisterCattle, UnregisterCattle, Applies, TypeInv, HandlersReady
        <3>2. \/ sheds'[s] = sheds[s]
              \/ sheds'[s] = PutCattle(sheds[s], rx[a].cattle)
              \/ sheds'[s] = RemoveCattle(sheds[s], rx[a].cattle)
            BY <1>1, <2>3, <3>1 DEF RegisterCattle, UnregisterCattle
        <3> QED
            BY <1>1, <2>2, <3>1, <3>2
    <2>4. CASE ReloadClear(a)
        <3>1. sheds'[s] = sheds[s] \/ sheds'[s] = ClearCattles(sheds[s])
            BY <1>1, <2>4 DEF ReloadClear
        <3> QED
            BY <1>1, <2>21, <3>1
    <2>5. ASSUME NEW c \in Cattle, ReloadAdd(a, c)  PROVE Kept
        <3>1. sheds'[s] = sheds[s] \/ sheds'[s] = PutCattle(sheds[s], c)
            BY <1>1, <2>5 DEF ReloadAdd
        <3> QED
            BY <1>1, <2>2, <2>5, <3>1
    <2>6. CASE AdoptDefault(a)
        BY <1>1, <2>6 DEF AdoptDefault
    <2>7. CASE ChangeDefaultVersion(a)
        <3>1. CASE rx[a].shed = s
            <4>1. sheds'[s] = SetDefaultVersion(sheds[s], rx[a].version)
                BY <1>1, <2>7, <3>1 DEF ChangeDefaultVersion
            <4>2. sheds'[s].defaultVersion = IF rx[a].version = NoVersion
                                             THEN sheds[s].defaultVersion ELSE rx[a].version
                BY <1>1, <4>1 DEF SetDefaultVersion, ShedRecord
            <4> QED
                BY <2>7, <3>1, <4>2 DEF ChangeDefaultVersion
        <3>2. CASE rx[a].shed # s
            BY <1>1, <2>7, <3>2 DEF ChangeDefaultVersion
        <3> QED
            BY <3>1, <3>2
    <2>8. CASE CreateShed(a) \/ HandlerDone(a) \/ Unlock(a)
        BY <2>1, <2>8 DEF CreateShed, HandlerDone, Unlock, mapVars
    <2>9. ASSUME NEW h \in Host,
                 \/ LookupToFill(a, h) \/ LookupToUpdate(a, h)
                 \/ PauseApp(a, h) \/ RestartApp(a, h) \/ StopApp(a, h)
          PROVE  Kept
        BY <2>1, <2>9 DEF LookupToFill, LookupToUpdate, PauseApp, RestartApp, StopApp,
                          mapVars
    <2> HIDE DEF Kept, Told
    <2> QED
        BY <2>3, <2>4, <2>5, <2>6, <2>7, <2>8, <2>9 DEF Handle
<1>3. rx'[a].shed = s => rx'[a].adopts = NoVersion
    <2>1. CASE rx'[a].pc # "locked"
        BY <2>1 DEF TypeInv, HandlersReady
    <2>2. CASE rx'[a].pc = "locked"
        <3>1. CASE RegisterCattle(a)
            BY <1>1, <3>1 DEF RegisterCattle, FoundDefault, RxState
        <3>2. CASE ReloadClear(a)
            BY <1>1, <3>2 DEF ReloadClear, RxState
        <3>3. CASE AdoptDefault(a)
            BY <1>1, <3>3 DEF AdoptDefault, RxState
        <3>4. ASSUME NEW c \in Cattle, ReloadAdd(a, c)
              PROVE  rx'[a].shed = s => rx'[a].adopts = NoVersion
            BY <1>1, <3>4 DEF ReloadAdd, FoundDefault, RxState
        <3> QED
            BY <2>2, <3>1, <3>2, <3>3, <3>4, LockedBy
    <2> QED
        BY <2>1, <2>2
<1> QED
    BY <1>1, <1>2, <1>3

\* A shed whose default version is settled gets another one only from a thread that
\* carries out APP_SET_DEFAULT_VERSION for that shed, and stays settled: the race of
\* that command with addCattle ends with the first default version for good,
\* whatever the order of the threads (Shed.java:129-131, 155, 218-224).
THEOREM DefaultStays == Spec => SettledDefaultKept
<1>1. TypeInv /\ TypeInv' /\ [Next]_vars =>
         [\A s \in ShedId : DefaultSettled(s) =>
             /\ DefaultSettled(s)'
             /\ \/ sheds'[s].defaultVersion = sheds[s].defaultVersion
                \/ \E a \in Address : /\ Applies(a, "APP_SET_DEFAULT_VERSION")
                                     /\ rx[a].shed = s
                                     /\ sheds'[s].defaultVersion = rx[a].version]_vars
    <2> DEFINE Goal(s) ==
            /\ DefaultSettled(s)'
            /\ \/ sheds'[s].defaultVersion = sheds[s].defaultVersion
               \/ \E a \in Address : /\ Applies(a, "APP_SET_DEFAULT_VERSION")
                                    /\ rx[a].shed = s
                                    /\ sheds'[s].defaultVersion = rx[a].version
    <2> SUFFICES ASSUME TypeInv, TypeInv', Next, NEW s \in ShedId, DefaultSettled(s)
                 PROVE  Goal(s)
        OBVIOUS
    <2>1. ASSUME NEW a \in Address, Handle(a)  PROVE Goal(s)
        <3>1. \A b \in Address : b # a => rx'[b] = rx[b]
            BY <2>1, OthersKeepRx
        <3> QED
            BY <2>1, <3>1, SettledByHandler DEF DefaultSettled
    <2>2. ASSUME NEW a \in Address, (\E m \in Inbound[a] : Receive(a, m)) \/ Suspect(a)
          PROVE  Goal(s)
        <3>1. UNCHANGED sheds
            BY <2>2 DEF Receive, Suspect, mapVars
        <3>2. \A b \in Address : b # a => rx'[b] = rx[b]
            BY <2>2, MessageKeepsRx
        <3>3. rx'[a].adopts = NoVersion
            <4>1. CASE \E m \in Inbound[a] : Receive(a, m)
                BY <4>1 DEF Receive, IdleRx, TypeInv, TypeOK
            <4>2. CASE Suspect(a)
                BY <4>2 DEF Suspect, IdleRx, TypeInv, TypeOK
            <4> QED
                BY <2>2, <4>1, <4>2
        <3> QED
            BY <3>1, <3>2, <3>3 DEF DefaultSettled
    <2>3. ASSUME NEW r \in Request,
                 (\E h \in Host, p \in Paths, k \in Cookies : Arrive(r, h, p, k)) \/ Process(r)
          PROVE  Goal(s)
        <3>1. UNCHANGED <<sheds, rx>>
            BY <2>3, RequestKeepsMaps DEF mapVars, rxVars
        <3> QED
            BY <3>1 DEF DefaultSettled
    <2> QED
        BY <2>1, <2>2, <2>3 DEF Next
<1> QED
    BY <1>1, TypeInvariance, PTL DEF Spec, SettledDefaultKept

-----------------------------------------------------------------------------
(* Retries. *)

\* A request that excludes instances works on a copy without them, which stays
\* as large as it was when its size was taken.
RetryOf(q) ==
    /\ q.pc \in {"check", "index", "take"} =>
          /\ q.excluded # {} => q.copied
          /\ q.copied => q.view \cap q.excluded = {}
    /\ q.pc \in {"index", "take"} /\ q.copied => Cardinality(q.view) # 0
    /\ q.pc = "take" /\ q.copied => q.index < Cardinality(q.view)
    /\ q.result = "crashed" => q.excluded = {}
    /\ ~SessionSticky =>
          q.pc # "sticky" /\ (q.pc = "connect" => q.picked \notin q.excluded)

RetryInv == \A r \in Request : RetryOf(req[r])

\* The instances a request chooses from can be counted.
LEMMA ViewIsFinite ==
    ASSUME TypeInv, NEW r \in Request
    PROVE  Cardinality(req[r].view) \in Nat
<1>1. req[r].view \in SUBSET Cattle
    BY DEF TypeInv, TypeOK, ReqState
<1> QED
    BY <1>1, ShedAssumption, FS_Subset, FS_CardinalityType

\* Each step of a request keeps what the retries rely on.
LEMMA RetryStep ==
    ASSUME TypeInv, NEW r \in Request, RetryOf(req[r]),
           \/ \E h \in Host, p \in Paths, k \in Cookies : Arrive(r, h, p, k)
           \/ Process(r)
    PROVE  RetryOf(req'[r])
<1> USE DEF At
<1>0. req[r] \in ReqState /\ req \in [Request -> ReqState]
    BY DEF TypeInv, TypeOK
<1>1. ASSUME NEW new, Moves(r, new), RetryOf(new)  PROVE RetryOf(req'[r])
    BY <1>0, <1>1 DEF Moves
\* A thread may end without a crash at any time, and crash without exclusions.
<1>2. ASSUME NEW result, Moves(r, Ended(r, result)),
             result = "crashed" => req[r].excluded = {}
      PROVE  RetryOf(req'[r])
    <2>1. /\ Ended(r, result).pc = "done" /\ Ended(r, result).result = result
          /\ Ended(r, result).excluded = req[r].excluded
        BY DEF Ended, IdleReq
    <2>2. RetryOf(Ended(r, result))
        BY <1>2, <2>1 DEF RetryOf
    <2> QED
        BY <1>1, <1>2, <2>2
<1>3. ASSUME NEW new, Moves(r, new), new.pc \in {"paused", "done"},
             new.result # "crashed"
      PROVE  RetryOf(req'[r])
    <2>1. RetryOf(new)
        BY <1>3 DEF RetryOf
    <2> QED
        BY <1>1, <1>3, <2>1
<1>4. ASSUME NEW asked, NEW path, NEW cookie, NEW excl,
             LooksUp(r, asked, path, cookie, excl)
      PROVE  RetryOf(req'[r])
    <2> DEFINE failed == [IdleReq EXCEPT !.pc = "done", !.result = "404",
                                         !.excluded = excl]
               new == [IdleReq EXCEPT !.pc = "paused", !.asked = asked,
                          !.path = ContextPath(asked, path),
                          !.host = ComputeHost(asked, path),
                          !.cookie = cookie, !.excluded = excl]
    <2>1. /\ failed.pc = "done" /\ failed.result = "404"
          /\ new.pc = "paused" /\ new.result = "none"
        BY DEF IdleReq
    <2>2. Moves(r, failed) \/ Moves(r, new)
        BY <1>4 DEF LooksUp
    <2> HIDE DEF failed, new
    <2> QED
        BY <1>3, <2>1, <2>2
<1>4a. CASE \E h \in Host, p \in Paths, k \in Cookies : Arrive(r, h, p, k)
    BY <1>4, <1>4a DEF Arrive
<1>5. CASE CheckPaused(r)
    <2> DEFINE new == [req[r] EXCEPT !.pc = "shed"]
    <2>1. new.pc = "shed" /\ new.result = req[r].result /\ new.excluded = req[r].excluded
        BY <1>0 DEF ReqState
    <2>2. RetryOf(new)
        BY <2>1 DEF RetryOf
    <2> QED
        BY <1>1, <1>2, <1>5, <2>2 DEF CheckPaused
<1>6. CASE FindShed(r)
    <2> DEFINE s   == hostsMapping[req[r].host]
               pc  == IF SessionSticky THEN "sticky" ELSE "service"
               new == [req[r] EXCEPT !.shed = s, !.pc = pc]
    <2>1. new.pc = pc /\ new.result = req[r].result /\ new.excluded = req[r].excluded
        <3> HIDE DEF pc, s
        <3> QED BY <1>0 DEF ReqState
    <2>2. RetryOf(new)
        BY <2>1 DEF RetryOf
    <2> QED
        BY <1>1, <1>2, <1>6, <2>2 DEF FindShed
<1>7. CASE FindSticked(r)
    <2>1. SessionSticky
        BY <1>7 DEF FindSticked, RetryOf
    <2>2. ASSUME NEW new, Moves(r, new), new.pc \in {"service", "connect"},
                 new.result = req[r].result, new.excluded = req[r].excluded
          PROVE  RetryOf(req'[r])
        <3>1. RetryOf(new)
            BY <2>1, <2>2 DEF RetryOf
        <3> QED
            BY <1>1, <2>2, <3>1
    <2>3. CASE Moves(r, [req[r] EXCEPT !.pc = "service"])
        BY <1>0, <2>2, <2>3 DEF ReqState
    <2>4. ASSUME NEW c, Moves(r, [req[r] EXCEPT !.pc = "connect", !.picked = c])
          PROVE  RetryOf(req'[r])
        BY <1>0, <2>2, <2>4 DEF ReqState
    <2> QED
        BY <1>7, <2>3, <2>4 DEF FindSticked
<1>8. CASE Service(r)
    <2> DEFINE shed == sheds[req[r].shed]
               ver  == Select(shed, req[r].cookie)
               copy == req[r].excluded # {}
               view == IF copy THEN CattlesOf(shed, ver) \ req[r].excluded ELSE {}
               new  == [req[r] EXCEPT !.pc = "check", !.version = ver, !.copied = copy,
                                      !.view = view]
    <2>1. /\ new.pc = "check" /\ new.copied = copy /\ new.view = view
          /\ new.excluded = req[r].excluded /\ new.result = req[r].result
        <3> HIDE DEF ver, copy, view
        <3> QED BY <1>0 DEF ReqState
    <2>2. view \cap req[r].excluded = {}
        OBVIOUS
    <2>3. RetryOf(new)
        <3> HIDE DEF new, view
        <3> QED BY <2>1, <2>2 DEF RetryOf
    <2> QED
        BY <1>1, <1>8, <2>3 DEF Service
<1>9. CASE CheckEmpty(r)
    <2> DEFINE new == [req[r] EXCEPT !.pc = "index"]
    <2>1. CASE ViewSize(r) # 0
        <3>1. /\ new.pc = "index" /\ new.copied = req[r].copied
              /\ new.view = req[r].view /\ new.excluded = req[r].excluded
              /\ new.result = req[r].result
            BY <1>0 DEF ReqState
        <3>2. RetryOf(new)
            BY <1>9, <2>1, <3>1 DEF RetryOf, CheckEmpty, ViewSize
        <3> QED
            BY <1>1, <1>9, <2>1, <3>2 DEF CheckEmpty
    <2> QED
        BY <1>2, <1>9, <2>1 DEF CheckEmpty
<1>10. CASE ChooseIndex(r)
    <2>1. CASE ViewSize(r) = 0 /\ Moves(r, Ended(r, "crashed"))
        <3>1. req[r].excluded = {}
            BY <1>10, <2>1 DEF ChooseIndex, RetryOf, ViewSize
        <3> QED
            BY <1>2, <2>1, <3>1
    <2>2. ASSUME NEW i \in 0 .. (ViewSize(r) - 1),
                 Moves(r, [req[r] EXCEPT !.pc = "take", !.index = i])
          PROVE  RetryOf(req'[r])
        <3> DEFINE new == [req[r] EXCEPT !.pc = "take", !.index = i]
        <3>1. /\ new.pc = "take" /\ new.copied = req[r].copied /\ new.index = i
              /\ new.view = req[r].view /\ new.excluded = req[r].excluded
              /\ new.result = req[r].result
            BY <1>0 DEF ReqState
        <3>2. req[r].copied => i < Cardinality(req[r].view)
            BY <2>2, ViewIsFinite DEF ViewSize
        <3>3. RetryOf(new)
            <4> HIDE DEF new
            <4> QED BY <1>10, <3>1, <3>2 DEF RetryOf, ChooseIndex
        <3> QED
            BY <1>1, <2>2, <3>3
    <2> QED
        BY <1>10, <2>1, <2>2 DEF ChooseIndex
<1>11. CASE TakeElement(r)
    <2>1. CASE req[r].index >= ViewSize(r) /\ Moves(r, Ended(r, "crashed"))
        <3>1. req[r].copied => req[r].index < Cardinality(req[r].view)
            BY <1>11 DEF TakeElement, RetryOf
        <3>2. ~req[r].copied
            <4>1. req[r].index \in Nat /\ Cardinality(req[r].view) \in Nat
                BY <1>0, ViewIsFinite DEF ReqState
            <4>2. req[r].copied => req[r].index >= Cardinality(req[r].view)
                BY <2>1 DEF ViewSize
            <4> QED
                BY <3>1, <4>1, <4>2
        <3>3. req[r].excluded = {}
            BY <1>11, <3>2 DEF TakeElement, RetryOf
        <3> QED
            BY <1>2, <2>1, <3>3
    <2>2. ASSUME NEW c \in ViewCattles(r),
                 Moves(r, [req[r] EXCEPT !.pc = "connect", !.picked = c])
          PROVE  RetryOf(req'[r])
        <3> DEFINE new == [req[r] EXCEPT !.pc = "connect", !.picked = c]
        <3>1. /\ new.pc = "connect" /\ new.picked = c
              /\ new.excluded = req[r].excluded /\ new.result = req[r].result
            BY <1>0 DEF ReqState
        <3>2. c \notin req[r].excluded
            BY <1>11, <2>2 DEF ViewCattles, TakeElement, RetryOf
        <3>3. RetryOf(new)
            <4> HIDE DEF new
            <4> QED BY <3>1, <3>2 DEF RetryOf
        <3> QED
            BY <1>1, <2>2, <3>3
    <2> QED
        BY <1>11, <2>1, <2>2 DEF TakeElement
<1>12. CASE Connect(r)
    BY <1>2, <1>12 DEF Connect
<1>13. CASE ConnectFails(r)
    BY <1>4, <1>13 DEF ConnectFails, LooksAgain
<1> QED
    BY <1>5, <1>6, <1>7, <1>8, <1>9, <1>10, <1>11, <1>12, <1>13, <1>4a DEF Process

\* Nobody else writes the state of a request.
LEMMA OthersKeepReq ==
    ASSUME TypeInv, [Next]_vars, NEW r \in Request,
           ~ \/ \E h \in Host, p \in Paths, k \in Cookies : Arrive(r, h, p, k)
             \/ Process(r)
    PROVE  req'[r] = req[r]
<1>1. req \in [Request -> ReqState]
    BY DEF TypeInv, TypeOK
<1>2. ASSUME NEW a \in Address,
             (\E m \in Inbound[a] : Receive(a, m)) \/ Suspect(a) \/ Handle(a)
      PROVE  req' = req
    <2>1. CASE (\E m \in Inbound[a] : Receive(a, m)) \/ Suspect(a)
        BY <2>1 DEF Receive, Suspect
    <2>2. ASSUME NEW h \in Host, \/ LookupToFill(a, h) \/ LookupToUpdate(a, h)
                                 \/ PauseApp(a, h) \/ RestartApp(a, h) \/ StopApp(a, h)
          PROVE  req' = req
        BY <2>2 DEF LookupToFill, LookupToUpdate, PauseApp, RestartApp, StopApp
    <2>3. CASE CreateShed(a) \/ HandlerDone(a)
        BY <2>3 DEF CreateShed, HandlerDone
    <2>4. CASE RegisterCattle(a) \/ UnregisterCattle(a) \/ ChangeDefaultVersion(a)
        BY <2>4 DEF RegisterCattle, UnregisterCattle, ChangeDefaultVersion
    <2>5. CASE ReloadClear(a) \/ Unlock(a) \/ AdoptDefault(a) \/ \E c \in Cattle : ReloadAdd(a, c)
        BY <2>5 DEF ReloadClear, Unlock, AdoptDefault, ReloadAdd
    <2> QED
        BY <1>2, <2>1, <2>2, <2>3, <2>4, <2>5 DEF Handle
<1>3. ASSUME NEW q \in Request, q # r,
             (\E h \in Host, p \in Paths, k \in Cookies : Arrive(q, h, p, k)) \/ Process(q)
      PROVE  req'[r] = req[r]
    <2>1. ASSUME NEW new, Moves(q, new)
          PROVE  req'[r] = req[r]
        BY <1>1, <1>3, <2>1 DEF Moves
    <2>2. ASSUME NEW h, NEW p, NEW k, NEW excl, LooksUp(q, h, p, k, excl)
          PROVE  req'[r] = req[r]
        BY <2>1, <2>2 DEF LooksUp
    <2>3. CASE \E h \in Host, p \in Paths, k \in Cookies : Arrive(q, h, p, k)
        BY <2>2, <2>3 DEF Arrive
    <2>4. CASE CheckPaused(q) \/ FindShed(q) \/ FindSticked(q)
        BY <2>1, <2>4 DEF CheckPaused, FindShed, FindSticked
    <2>5. CASE Service(q) \/ CheckEmpty(q) \/ ChooseIndex(q) \/ TakeElement(q)
        BY <2>1, <2>5 DEF Service, CheckEmpty, ChooseIndex, TakeElement
    <2>6. CASE Connect(q) \/ ConnectFails(q)
        BY <2>1, <2>2, <2>6 DEF Connect, ConnectFails, LooksAgain
    <2> QED
        BY <1>3, <2>3, <2>4, <2>5, <2>6 DEF Process
<1> QED
    BY <1>2, <1>3 DEF Next, vars

\* So it always holds.
LEMMA RetryInvariance == Spec => []RetryInv
<1>1. Init => RetryInv
    BY DEF Init, RetryInv, RetryOf, IdleReq
<1>2. TypeInv /\ RetryInv /\ [Next]_vars => RetryInv'
    <2> SUFFICES ASSUME TypeInv, RetryInv, [Next]_vars, NEW r \in Request
                 PROVE  RetryOf(req'[r])
        BY DEF RetryInv, RetryOf
    <2> QED
        BY RetryStep, OthersKeepReq DEF RetryInv
<1> QED
    BY <1>1, <1>2, TypeInvariance, PTL DEF Spec

\* Only a first attempt can fall into the race between the size and the contents
\* of a live list: a request that has excluded an instance never ends without a
\* response (CattleManager.java:249-252, Shed.java:94-106).
THEOREM RetriesAreSafe == Spec => []RetryNeverCrashes
<1>1. RetryInv => RetryNeverCrashes
    BY DEF RetryInv, RetryOf, RetryNeverCrashes
<1> QED
    BY <1>1, RetryInvariance, PTL

\* Without sticky sessions no request tries an instance twice; with them the
\* claim is false (CattleManager.java:229-235, TaskDispathcer6.java:229-236).
THEOREM FailedAreAvoided == ASSUME ~SessionSticky PROVE Spec => []AttemptsAvoidFailed
<1>1. RetryInv => AttemptsAvoidFailed
    BY DEF RetryInv, RetryOf, AttemptsAvoidFailed
<1> QED
    BY <1>1, RetryInvariance, PTL

=============================================================================
