----------------------------- MODULE HostProofs -----------------------------
(***************************************************************************)
(* Two theorems about the sheds of a host, for every set of applications,  *)
(* hosts and messages, though sheds are looked up, created, dropped and    *)
(* filled by different threads without a common lock.                      *)
(*                                                                         *)
(* A request only reaches an instance of an application that owns the host *)
(* it asked for.  The argument: a Shed object is made for one host, and    *)
(* whoever holds it, the map, a handler or a request, holds it for that    *)
(* host.  Which host that is does not follow from the maps, since APP_STOP *)
(* takes a shed out of them while threads go on using it; so the invariant *)
(* says that there is an assignment of hosts to sheds that all of them     *)
(* agree with.                                                             *)
(*                                                                         *)
(* The check-then-put of register and makeLoad has no lock, so the first   *)
(* reports of a host by two members may fill two sheds, of which requests  *)
(* find one.  Once the threads agree on the shed of a host they agree      *)
(* until the application is stopped: a thread takes the shed of the map,   *)
(* makes one only where there is none, and keeps the one it has.           *)
(***************************************************************************)
EXTENDS CattleManagerProofs

Owners == [ShedId -> Host \cup {NoHost}]

\* The map has sheds of their hosts.
MapOwned(own) ==
    \A h \in Host : hostsMapping[h] # NoShed => own[hostsMapping[h]] = h

\* A handler works for hosts of its instance's application, on their sheds, and
\* what it reloads are instances of that application.
TaskOwned(own, x) ==
    /\ x.pc # "idle" => x.hosts \subseteq HostsOf[x.cattle]
    /\ x.pc \in {"create", "apply", "locked"} => x.host \in HostsOf[x.cattle]
    /\ x.op = "RANCH_LOAD" => \A c \in x.load : HostsOf[c] = HostsOf[x.cattle]
    /\ x.pc \in {"apply", "locked"} => own[x.shed] = x.host
    /\ x.pc = "locked" => \A c \in x.todo : HostsOf[c] = HostsOf[x.cattle]

\* A request looks at the shed of its host, and has instances that own it.
RequestOwned(own, q) ==
    /\ q.pc \in {"sticky", "service", "check", "index", "take"} => own[q.shed] = q.host
    /\ q.pc \in {"check", "index", "take"} => \A c \in q.view : q.host \in HostsOf[c]
    /\ q.pc = "connect" => q.host \in HostsOf[q.picked]

\* The instances of a shed own its host; a shed that was not made has no host.
ShedsOwned(own) ==
    \A s \in ShedId :
        /\ s \notin allocated => own[s] = NoHost
        /\ \A c \in Cattle : sheds[s].versionsMap[c] > 0 => own[s] \in HostsOf[c]

Owned(own) ==
    /\ MapOwned(own)
    /\ \A a \in Address : TaskOwned(own, rx[a])
    /\ \A r \in Request : RequestOwned(own, req[r])
    /\ ShedsOwned(own)

HostInv == \E own \in Owners : Owned(own)

\* At first no shed has been made, so none has an owner.
LEMMA InitOwned == Init => HostInv
<1> SUFFICES ASSUME Init PROVE HostInv
    OBVIOUS
<1> DEFINE own == [s \in ShedId |-> NoHost]
<1>1. own \in Owners
    BY DEF Owners
<1>2. MapOwned(own)
    BY DEF Init, MapOwned
<1>3. \A a \in Address : TaskOwned(own, rx[a])
    BY DEF Init, TaskOwned, IdleRx
<1>4. \A r \in Request : RequestOwned(own, req[r])
    BY DEF Init, RequestOwned, IdleReq
<1>5. ShedsOwned(own)
    BY DEF Init, ShedsOwned, EmptyShed
<1> QED
    BY <1>1, <1>2, <1>3, <1>4, <1>5 DEF HostInv, Owned

-----------------------------------------------------------------------------
(* Requests. *)

\* A request goes on with sheds and instances of its host.
LEMMA RequestStep ==
    ASSUME TypeInv, RegisteredIsRoutable, NEW own \in Owners, Owned(own),
           NEW r \in Request,
           \/ \E h \in Host, p \in Paths, k \in Cookies : Arrive(r, h, p, k)
           \/ Process(r)
    PROVE  RequestOwned(own, req'[r])
<1> USE DEF At
<1>0. /\ req[r] \in ReqState /\ req \in [Request -> ReqState]
      /\ req[r].pc \in {"sticky", "service", "check", "index", "take"}
            => req[r].shed \in ShedId /\ own[req[r].shed] = req[r].host
      /\ RequestOwned(own, req[r])
    BY DEF TypeInv, TypeOK, RequestsReady, Owned, RequestOwned
<1>1. ASSUME NEW new, Moves(r, new), RequestOwned(own, new)
      PROVE  RequestOwned(own, req'[r])
    BY <1>0, <1>1 DEF Moves
<1>2. ASSUME NEW new, Moves(r, new), new.pc \in {"paused", "shed", "done"}
      PROVE  RequestOwned(own, req'[r])
    <2>1. RequestOwned(own, new)
        BY <1>2 DEF RequestOwned
    <2> QED
        BY <1>1, <1>2, <2>1
<1>3. ASSUME NEW result, Moves(r, Ended(r, result))
      PROVE  RequestOwned(own, req'[r])
    <2>1. Ended(r, result).pc = "done"
        BY DEF Ended, IdleReq
    <2> QED
        BY <1>2, <1>3, <2>1
<1>4. ASSUME NEW asked, NEW path, NEW cookie, NEW excl,
             LooksUp(r, asked, path, cookie, excl)
      PROVE  RequestOwned(own, req'[r])
    <2> DEFINE failed == [IdleReq EXCEPT !.pc = "done", !.result = "404",
                                         !.excluded = excl]
               new == [IdleReq EXCEPT !.pc = "paused", !.asked = asked,
                          !.path = ContextPath(asked, path),
                          !.host = ComputeHost(asked, path),
                          !.cookie = cookie, !.excluded = excl]
    <2>1. failed.pc = "done" /\ new.pc = "paused"
        BY DEF IdleReq
    <2>2. Moves(r, failed) \/ Moves(r, new)
        BY <1>4 DEF LooksUp
    <2> HIDE DEF failed, new
    <2> QED
        BY <1>2, <2>1, <2>2
\* The instances of the shed a request looks at own its host.
<1>5. ASSUME req[r].pc \in {"sticky", "service", "check", "index", "take"},
             NEW c \in Cattle, sheds[req[r].shed].versionsMap[c] > 0
      PROVE  req[r].host \in HostsOf[c]
    BY <1>0, <1>5 DEF Owned, ShedsOwned
<1>6. CASE \E h \in Host, p \in Paths, k \in Cookies : Arrive(r, h, p, k)
    BY <1>4, <1>6 DEF Arrive
<1>7. CASE CheckPaused(r)
    <2>1. [req[r] EXCEPT !.pc = "shed"].pc = "shed"
        BY <1>0 DEF ReqState
    <2> QED
        BY <1>2, <1>3, <1>7, <2>1 DEF CheckPaused
<1>8. CASE FindShed(r)
    <2> DEFINE s   == hostsMapping[req[r].host]
               pc  == IF SessionSticky THEN "sticky" ELSE "service"
               new == [req[r] EXCEPT !.shed = s, !.pc = pc]
    <2>1. CASE s # NoShed
        <3>1. req[r].host \in Host
            BY <1>8 DEF FindShed, TypeInv, RequestsReady
        <3>2. own[s] = req[r].host
            BY <2>1, <3>1 DEF Owned, MapOwned
        <3>3. new.pc \in {"sticky", "service"} /\ new.shed = s /\ new.host = req[r].host
            <4>1. pc \in {"sticky", "service"}
                OBVIOUS
            <4> HIDE DEF pc, s
            <4> QED BY <1>0, <4>1 DEF ReqState
        <3>4. RequestOwned(own, new)
            <4> HIDE DEF new, s
            <4> QED BY <3>2, <3>3 DEF RequestOwned
        <3> QED
            BY <1>1, <1>8, <2>1, <3>4 DEF FindShed
    <2>2. CASE s = NoShed
        BY <1>3, <1>8, <2>2 DEF FindShed
    <2> QED
        BY <2>1, <2>2
<1>9. CASE FindSticked(r)
    <2>1. ASSUME Moves(r, [req[r] EXCEPT !.pc = "service"])
          PROVE  RequestOwned(own, req'[r])
        <3> DEFINE new == [req[r] EXCEPT !.pc = "service"]
        <3>1. new.pc = "service" /\ new.shed = req[r].shed /\ new.host = req[r].host
            BY <1>0 DEF ReqState
        <3>2. RequestOwned(own, new)
            <4> HIDE DEF new
            <4> QED BY <1>0, <1>9, <3>1 DEF RequestOwned, FindSticked
        <3> QED
            BY <1>1, <2>1, <3>2
    <2>2. ASSUME NEW c \in StickedCattles(sheds[req[r].shed], req[r].cookie.server),
                 Moves(r, [req[r] EXCEPT !.pc = "connect", !.picked = c])
          PROVE  RequestOwned(own, req'[r])
        <3> DEFINE new == [req[r] EXCEPT !.pc = "connect", !.picked = c]
        <3>1. req[r].shed \in ShedId /\ c \in sheds[req[r].shed].cattles
            BY <1>0, <1>9, <2>2 DEF FindSticked, StickedCattles
        <3>2. sheds[req[r].shed].versionsMap[c] > 0
            BY <3>1 DEF RegisteredIsRoutable
        <3>3. c \in Cattle
            BY <3>1 DEF TypeInv, TypeOK, ShedRecord
        <3>4. req[r].host \in HostsOf[c]
            BY <1>5, <1>9, <3>2, <3>3 DEF FindSticked
        <3>5. new.pc = "connect" /\ new.picked = c /\ new.host = req[r].host
            BY <1>0 DEF ReqState
        <3>6. RequestOwned(own, new)
            <4> HIDE DEF new
            <4> QED BY <3>4, <3>5 DEF RequestOwned
        <3> QED
            BY <1>1, <2>2, <3>6
    <2> QED
        BY <1>9, <2>1, <2>2 DEF FindSticked
<1>10. CASE Service(r)
    <2> DEFINE shed == sheds[req[r].shed]
               ver  == Select(shed, req[r].cookie)
               copy == req[r].excluded # {}
               view == IF copy THEN CattlesOf(shed, ver) \ req[r].excluded ELSE {}
               new  == [req[r] EXCEPT !.pc = "check", !.version = ver, !.copied = copy,
                                      !.view = view]
    <2>1. /\ new.pc = "check" /\ new.view = view
          /\ new.shed = req[r].shed /\ new.host = req[r].host
        <3> HIDE DEF ver, copy, view
        <3> QED BY <1>0 DEF ReqState
    <2>2. \A c \in view : req[r].host \in HostsOf[c]
        BY <1>5, <1>10 DEF Service, CattlesOf
    <2>3. RequestOwned(own, new)
        <3> HIDE DEF new, view
        <3> QED BY <1>0, <1>10, <2>1, <2>2 DEF RequestOwned, Service
    <2> QED
        BY <1>1, <1>10, <2>3 DEF Service
<1>11. CASE CheckEmpty(r)
    <2> DEFINE new == [req[r] EXCEPT !.pc = "index"]
    <2>1. /\ new.pc = "index" /\ new.view = req[r].view
          /\ new.shed = req[r].shed /\ new.host = req[r].host
        BY <1>0 DEF ReqState
    <2>2. RequestOwned(own, new)
        <3> HIDE DEF new
        <3> QED BY <1>0, <1>11, <2>1 DEF RequestOwned, CheckEmpty
    <2> QED
        BY <1>1, <1>3, <1>11, <2>2 DEF CheckEmpty
<1>12. CASE ChooseIndex(r)
    <2>1. ASSUME NEW i, Moves(r, [req[r] EXCEPT !.pc = "take", !.index = i])
          PROVE  RequestOwned(own, req'[r])
        <3> DEFINE new == [req[r] EXCEPT !.pc = "take", !.index = i]
        <3>1. /\ new.pc = "take" /\ new.view = req[r].view
              /\ new.shed = req[r].shed /\ new.host = req[r].host
            BY <1>0 DEF ReqState
        <3>2. RequestOwned(own, new)
            <4> HIDE DEF new
            <4> QED BY <1>0, <1>12, <3>1 DEF RequestOwned, ChooseIndex
        <3> QED
            BY <1>1, <2>1, <3>2
    <2> QED
        BY <1>3, <1>12, <2>1 DEF ChooseIndex
<1>13. CASE TakeElement(r)
    <2>1. ASSUME NEW c \in ViewCattles(r),
                 Moves(r, [req[r] EXCEPT !.pc = "connect", !.picked = c])
          PROVE  RequestOwned(own, req'[r])
        <3> DEFINE new == [req[r] EXCEPT !.pc = "connect", !.picked = c]
        <3>1. req[r].host \in HostsOf[c]
            <4>1. CASE req[r].copied
                BY <1>0, <1>13, <2>1, <4>1 DEF TakeElement, ViewCattles, RequestOwned
            <4>2. CASE ~req[r].copied
                BY <1>5, <1>13, <2>1, <4>2 DEF TakeElement, ViewCattles, CattlesOf
            <4> QED
                BY <4>1, <4>2
        <3>2. new.pc = "connect" /\ new.picked = c /\ new.host = req[r].host
            BY <1>0 DEF ReqState
        <3>3. RequestOwned(own, new)
            <4> HIDE DEF new
            <4> QED BY <3>1, <3>2 DEF RequestOwned
        <3> QED
            BY <1>1, <2>1, <3>3
    <2> QED
        BY <1>3, <1>13, <2>1 DEF TakeElement
<1>14. CASE Connect(r)
    BY <1>3, <1>14 DEF Connect
<1>15. CASE ConnectFails(r)
    BY <1>4, <1>15 DEF ConnectFails, LooksAgain
<1> QED
    BY <1>6, <1>7, <1>8, <1>9, <1>10, <1>11, <1>12, <1>13, <1>14, <1>15 DEF Process

-----------------------------------------------------------------------------
(* Handlers. *)

\* One handler moves.
LEMMA TaskMoves ==
    ASSUME TypeInv, NEW own \in Owners, NEW a \in Address, NEW new,
           rx' = [rx EXCEPT ![a] = new], TaskOwned(own, new)
    PROVE  TaskOwned(own, rx'[a])
BY DEF TypeInv, TypeOK

\* A handler goes on with hosts of its instance's application, unless it makes a
\* shed.
LEMMA HandlerStep ==
    ASSUME TypeInv, NEW own \in Owners, Owned(own), NEW a \in Address,
           Handle(a), ~CreateShed(a)
    PROVE  TaskOwned(own, rx'[a])
<1> USE DEF Applies
<1>0. /\ rx \in [Address -> RxState] /\ rx[a] \in RxState
      /\ TaskOwned(own, rx[a])
    BY DEF TypeInv, TypeOK, Owned
<1>1. ASSUME NEW h \in Host, TakesHost(a, h)
      PROVE  /\ RestOfHosts(a, h) \in RxState
             /\ RestOfHosts(a, h).pc = "hosts"
             /\ RestOfHosts(a, h).hosts \subseteq HostsOf[rx[a].cattle]
             /\ RestOfHosts(a, h).cattle = rx[a].cattle
             /\ RestOfHosts(a, h).load = rx[a].load
             /\ RestOfHosts(a, h).op = rx[a].op
             /\ h \in HostsOf[rx[a].cattle]
    BY <1>0, <1>1 DEF TakesHost, RestOfHosts, RxState, TaskOwned
\* A handler that goes on without a shed.
<1>2. ASSUME NEW new, rx' = [rx EXCEPT ![a] = new], new.pc = "hosts",
             new.hosts \subseteq HostsOf[rx[a].cattle], new.cattle = rx[a].cattle,
             new.load = rx[a].load, new.op = rx[a].op
      PROVE  TaskOwned(own, rx'[a])
    <2>1. TaskOwned(own, new)
        BY <1>0, <1>2 DEF TaskOwned
    <2> QED
        BY <1>2, <2>1, TaskMoves
\* A handler that has taken a host.
<1>3. ASSUME NEW new, NEW h \in Host, TakesHost(a, h), rx' = [rx EXCEPT ![a] = new],
             new.pc \in {"create", "apply"},
             new.hosts \subseteq HostsOf[rx[a].cattle], new.cattle = rx[a].cattle,
             new.load = rx[a].load, new.op = rx[a].op,
             new.host = h, new.pc = "apply" => own[new.shed] = h
      PROVE  TaskOwned(own, rx'[a])
    <2>1. TaskOwned(own, new)
        BY <1>0, <1>1, <1>3 DEF TaskOwned
    <2> QED
        BY <1>3, <2>1, TaskMoves
<1>4. ASSUME NEW h \in Host, hostsMapping[h] # NoShed
      PROVE  own[hostsMapping[h]] = h
    BY <1>4 DEF Owned, MapOwned
<1>5. ASSUME NEW h \in Host, LookupToFill(a, h)  PROVE TaskOwned(own, rx'[a])
    <2> DEFINE rest == RestOfHosts(a, h)
               pc   == IF hostsMapping[h] = NoShed THEN "create" ELSE "apply"
               new  == [rest EXCEPT !.pc = pc, !.host = h, !.shed = hostsMapping[h]]
    <2>1. /\ TakesHost(a, h) /\ rest \in RxState
          /\ rest.hosts \subseteq HostsOf[rx[a].cattle] /\ rest.cattle = rx[a].cattle
          /\ rest.load = rx[a].load /\ rest.op = rx[a].op
        BY <1>1, <1>5 DEF LookupToFill
    <2>2. rx' = [rx EXCEPT ![a] = new]
        BY <1>5 DEF LookupToFill
    <2>3. pc \in {"create", "apply"} /\ (pc = "apply" => own[hostsMapping[h]] = h)
        BY <1>4
    <2> HIDE DEF rest, pc
    <2>4. /\ new.pc = pc /\ new.host = h /\ new.shed = hostsMapping[h]
          /\ new.hosts = rest.hosts /\ new.cattle = rest.cattle
          /\ new.load = rest.load /\ new.op = rest.op
        BY <2>1 DEF RxState
    <2> HIDE DEF new
    <2> QED
        BY <1>3, <2>1, <2>2, <2>3, <2>4
<1>6. ASSUME NEW h \in Host, LookupToUpdate(a, h)  PROVE TaskOwned(own, rx'[a])
    <2> DEFINE rest == RestOfHosts(a, h)
               new  == [rest EXCEPT !.pc = "apply", !.host = h, !.shed = hostsMapping[h]]
    <2>1. /\ TakesHost(a, h) /\ rest \in RxState /\ rest.pc = "hosts"
          /\ rest.hosts \subseteq HostsOf[rx[a].cattle] /\ rest.cattle = rx[a].cattle
          /\ rest.load = rx[a].load /\ rest.op = rx[a].op
        BY <1>1, <1>6 DEF LookupToUpdate
    <2>2. CASE hostsMapping[h] = NoShed
        <3>1. rx' = [rx EXCEPT ![a] = rest]
            BY <1>6, <2>2 DEF LookupToUpdate
        <3> HIDE DEF rest
        <3> QED
            BY <1>2, <2>1, <3>1
    <2>3. CASE hostsMapping[h] # NoShed
        <3>1. rx' = [rx EXCEPT ![a] = new]
            BY <1>6, <2>3 DEF LookupToUpdate
        <3> HIDE DEF rest
        <3>2. /\ new.pc = "apply" /\ new.host = h /\ new.shed = hostsMapping[h]
              /\ new.hosts = rest.hosts /\ new.cattle = rest.cattle
              /\ new.load = rest.load /\ new.op = rest.op
            BY <2>1 DEF RxState
        <3>3. own[hostsMapping[h]] = h
            BY <1>4, <2>3
        <3> HIDE DEF new
        <3> QED
            BY <1>3, <2>1, <3>1, <3>2, <3>3
    <2> QED
        BY <2>2, <2>3
<1>7. ASSUME NEW h \in Host, PauseApp(a, h) \/ RestartApp(a, h) \/ StopApp(a, h)
      PROVE  TaskOwned(own, rx'[a])
    <2>1. TakesHost(a, h) /\ rx' = [rx EXCEPT ![a] = RestOfHosts(a, h)]
        BY <1>7 DEF PauseApp, RestartApp, StopApp
    <2> QED
        BY <1>1, <1>2, <2>1
<1>8. CASE HandlerDone(a)
    <2>1. TaskOwned(own, IdleRx)
        BY DEF TaskOwned, IdleRx
    <2> QED
        BY <1>8, <2>1, TaskMoves DEF HandlerDone
<1>9. ASSUME NextHost(a), rx[a].pc \in {"apply", "locked"}
      PROVE  TaskOwned(own, rx'[a])
    <2> DEFINE new == [rx[a] EXCEPT !.pc = "hosts", !.host = NoHost, !.shed = NoShed]
    <2>1. rx' = [rx EXCEPT ![a] = new]
        BY <1>0, <1>9 DEF NextHost, RxState
    <2>2. /\ new.pc = "hosts" /\ new.hosts = rx[a].hosts /\ new.cattle = rx[a].cattle
          /\ new.load = rx[a].load /\ new.op = rx[a].op
        BY <1>0 DEF RxState
    <2>3. rx[a].hosts \subseteq HostsOf[rx[a].cattle]
        BY <1>0, <1>9 DEF TaskOwned
    <2> HIDE DEF new
    <2> QED
        BY <1>2, <2>1, <2>2, <2>3
<1>10. CASE UnregisterCattle(a) \/ ChangeDefaultVersion(a) \/ Unlock(a)
    BY <1>9, <1>10 DEF UnregisterCattle, ChangeDefaultVersion, Unlock
<1>14. CASE RegisterCattle(a)
    <2> DEFINE v   == FoundDefault(sheds[rx[a].shed], rx[a].cattle)
               new == [rx[a] EXCEPT !.pc = "locked", !.todo = {}, !.adopts = v]
    <2>1. rx[a].pc = "apply" /\ rx' = [rx EXCEPT ![a] = new]
        BY <1>0, <1>14 DEF RegisterCattle, RxState
    <2> HIDE DEF v
    <2>2. /\ new.pc = "locked" /\ new.todo = {} /\ new.hosts = rx[a].hosts
          /\ new.cattle = rx[a].cattle /\ new.load = rx[a].load /\ new.op = rx[a].op
          /\ new.host = rx[a].host /\ new.shed = rx[a].shed
        BY <1>0 DEF RxState
    <2>5. \A d \in new.todo : HostsOf[d] = HostsOf[rx[a].cattle]
        BY <2>2
    <2> HIDE DEF new
    <2>6. TaskOwned(own, new)
        BY <1>0, <2>1, <2>2, <2>5 DEF TaskOwned
    <2> QED
        BY <2>1, <2>6, TaskMoves
<1>15. CASE AdoptDefault(a)
    <2> DEFINE new == [rx[a] EXCEPT !.pc = "locked", !.todo = rx[a].todo, !.adopts = NoVersion]
    <2>1. rx[a].pc = "locked" /\ rx' = [rx EXCEPT ![a] = new]
        BY <1>0, <1>15 DEF AdoptDefault, RxState
    <2>2. \A c \in rx[a].todo : HostsOf[c] = HostsOf[rx[a].cattle]
        BY <1>0, <2>1 DEF TaskOwned
    <2>3. /\ new.pc = "locked" /\ new.todo = rx[a].todo /\ new.hosts = rx[a].hosts
          /\ new.cattle = rx[a].cattle /\ new.load = rx[a].load /\ new.op = rx[a].op
          /\ new.host = rx[a].host /\ new.shed = rx[a].shed
        BY <1>0 DEF RxState
    <2>5. \A d \in new.todo : HostsOf[d] = HostsOf[rx[a].cattle]
        BY <2>2, <2>3
    <2> HIDE DEF new
    <2>6. TaskOwned(own, new)
        BY <1>0, <2>1, <2>2, <2>3, <2>5 DEF TaskOwned
    <2> QED
        BY <2>1, <2>6, TaskMoves
<1>11. CASE ReloadClear(a)
    <2> DEFINE new == [rx[a] EXCEPT !.pc = "locked", !.todo = rx[a].load, !.adopts = rx[a].adopts]
    <2>1. rx[a].pc = "apply" /\ rx[a].op = "RANCH_LOAD" /\ rx' = [rx EXCEPT ![a] = new]
        BY <1>0, <1>11 DEF ReloadClear, RxState
    <2>2. \A c \in rx[a].load : HostsOf[c] = HostsOf[rx[a].cattle]
        BY <1>0, <2>1 DEF TaskOwned
    <2>3. /\ new.pc = "locked" /\ new.todo = rx[a].load /\ new.hosts = rx[a].hosts
          /\ new.cattle = rx[a].cattle /\ new.load = rx[a].load /\ new.op = rx[a].op
          /\ new.host = rx[a].host /\ new.shed = rx[a].shed
        BY <1>0 DEF RxState
    <2>5. \A d \in new.todo : HostsOf[d] = HostsOf[rx[a].cattle]
        BY <2>2, <2>3
    <2> HIDE DEF new
    <2>6. TaskOwned(own, new)
        BY <1>0, <2>1, <2>2, <2>3, <2>5 DEF TaskOwned
    <2> QED
        BY <2>1, <2>6, TaskMoves
<1>12. ASSUME NEW c \in Cattle, ReloadAdd(a, c)  PROVE TaskOwned(own, rx'[a])
    <2> DEFINE v   == FoundDefault(sheds[rx[a].shed], c)
               left == rx[a].todo \ {c}
               new == [rx[a] EXCEPT !.pc = "locked", !.todo = left, !.adopts = v]
    <2>1. rx[a].pc = "locked" /\ rx' = [rx EXCEPT ![a].todo = left, ![a].adopts = v]
        BY <1>12 DEF ReloadAdd
    <2>2. \A d \in left : HostsOf[d] = HostsOf[rx[a].cattle]
        BY <1>0, <2>1 DEF TaskOwned
    <2> HIDE DEF v, left
    <2>3. rx' = [rx EXCEPT ![a] = new]
        BY <1>0, <2>1 DEF RxState
    <2>4. /\ new.pc = "locked" /\ new.todo = left /\ new.hosts = rx[a].hosts
          /\ new.cattle = rx[a].cattle /\ new.load = rx[a].load /\ new.op = rx[a].op
          /\ new.host = rx[a].host /\ new.shed = rx[a].shed
        BY <1>0 DEF RxState
    <2>5. \A d \in new.todo : HostsOf[d] = HostsOf[rx[a].cattle]
        BY <2>2, <2>3, <2>4
    <2> HIDE DEF new
    <2>6. TaskOwned(own, new)
        BY <1>0, <2>1, <2>2, <2>3, <2>4, <2>5 DEF TaskOwned
    <2> QED
        BY <2>1, <2>3, <2>6, TaskMoves
<1> QED
    BY <1>5, <1>6, <1>7, <1>8, <1>10, <1>11, <1>12, <1>14, <1>15 DEF Handle

\* A message is for the hosts of the instance it is about.
LEMMA MessageStep ==
    ASSUME TypeInv, NEW own \in Owners, NEW a \in Address,
           (\E m \in Inbound[a] : Receive(a, m)) \/ Suspect(a)
    PROVE  TaskOwned(own, rx'[a])
<1>1. ASSUME NEW m \in Inbound[a], Receive(a, m)  PROVE TaskOwned(own, rx'[a])
    <2> DEFINE new == [IdleRx EXCEPT !.pc = "hosts", !.op = m.op, !.cattle = m.cattle,
                          !.version = m.version, !.load = m.load,
                          !.hosts = HostsOf[m.cattle]]
    <2>1. rx' = [rx EXCEPT ![a] = new]
        BY <1>1 DEF Receive
    <2>2. /\ new.pc = "hosts" /\ new.op = m.op /\ new.cattle = m.cattle
          /\ new.load = m.load /\ new.hosts = HostsOf[m.cattle]
        BY DEF IdleRx
    <2>3. m.op = "RANCH_LOAD" => \A c \in m.load : HostsOf[c] = HostsOf[m.cattle]
        BY CattleManagerAssumption
    <2>4. TaskOwned(own, new)
        <3> HIDE DEF new
        <3> QED BY <2>2, <2>3 DEF TaskOwned
    <2> QED
        BY <2>1, <2>4, TaskMoves
<1>2. CASE Suspect(a)
    <2> DEFINE new == [IdleRx EXCEPT !.pc = "hosts", !.op = "UNREGISTER",
                          !.cattle = ranchManagerAddrs[a],
                          !.hosts = HostsOf[ranchManagerAddrs[a]]]
    <2>1. rx' = [rx EXCEPT ![a] = new]
        BY <1>2 DEF Suspect
    <2>2. /\ new.pc = "hosts" /\ new.op = "UNREGISTER"
          /\ new.cattle = ranchManagerAddrs[a] /\ new.hosts = HostsOf[ranchManagerAddrs[a]]
        BY DEF IdleRx
    <2>3. TaskOwned(own, new)
        <3> HIDE DEF new
        <3> QED BY <2>2 DEF TaskOwned
    <2> QED
        BY <2>1, <2>3, TaskMoves
<1> QED
    BY <1>1, <1>2

\* What an instance needs to be put into a shed by a handler.
LEMMA AddedOwn ==
    ASSUME TypeInv, NEW own \in Owners, Owned(own), NEW a \in Address
    PROVE  /\ rx[a].pc \in {"apply", "locked"} =>
                  own[rx[a].shed] \in HostsOf[rx[a].cattle] /\ rx[a].shed \in ShedId
           /\ rx[a].pc = "locked" =>
                  \A c \in rx[a].todo : own[rx[a].shed] \in HostsOf[c]
<1>1. TaskOwned(own, rx[a])
    BY DEF Owned
<1>2. rx[a].pc \in {"apply", "locked"} => rx[a].shed \in ShedId
    BY DEF TypeInv, HandlersReady
<1> QED
    BY <1>1, <1>2 DEF TaskOwned

\* A shed that takes an instance that owns its host, or loses some, is still that
\* host's.
LEMMA ShedKept ==
    ASSUME TypeInv, NEW own \in Owners, ShedsOwned(own), NEW s \in ShedId, NEW new,
           sheds' = [sheds EXCEPT ![s] = new], allocated' = allocated,
           \A c \in Cattle : new.versionsMap[c] > 0 =>
               sheds[s].versionsMap[c] > 0 \/ own[s] \in HostsOf[c]
    PROVE  ShedsOwned(own)'
BY DEF ShedsOwned, TypeInv, TypeOK

\* What a handler adds to a shed owns the shed's host.
LEMMA ShedsKept ==
    ASSUME TypeInv, NEW own \in Owners, Owned(own), NEW a \in Address,
           Handle(a), ~CreateShed(a)
    PROVE  ShedsOwned(own)'
<1> USE DEF Applies
<1>1. sheds \in [ShedId -> ShedRecord] /\ ShedsOwned(own)
    BY DEF TypeInv, TypeOK, Owned
<1>2. ASSUME UNCHANGED <<sheds, allocated>>  PROVE ShedsOwned(own)'
    BY <1>1, <1>2 DEF ShedsOwned
<1> DEFINE s == rx[a].shed
<1>3. rx[a].pc \in {"apply", "locked"} => s \in ShedId /\ sheds[s] \in ShedRecord
    BY <1>1, AddedOwn
<1>4. CASE RegisterCattle(a)
    <2>1. \A c \in Cattle : PutCattle(sheds[s], rx[a].cattle).versionsMap[c] > 0 =>
              sheds[s].versionsMap[c] > 0 \/ c = rx[a].cattle
        BY <1>3, <1>4 DEF PutCattle, ShedRecord, RegisterCattle
    <2>2. own[s] \in HostsOf[rx[a].cattle]
        BY <1>4, AddedOwn DEF RegisterCattle
    <2> QED
        BY <1>1, <1>3, <1>4, <2>1, <2>2, ShedKept DEF RegisterCattle
<1>5. CASE UnregisterCattle(a)
    <2>1. \A c \in Cattle : RemoveCattle(sheds[s], rx[a].cattle).versionsMap[c] > 0 =>
              sheds[s].versionsMap[c] > 0
        <3>1. PICK shed \in ShedRecord : shed = sheds[s]
            BY <1>3, <1>5 DEF UnregisterCattle
        <3>2. \A b : \A c \in Cattle : RemoveCattle(shed, b).versionsMap[c] > 0 =>
                  shed.versionsMap[c] > 0
            BY DEF RemoveCattle, ShedRecord
        <3> QED
            BY <3>1, <3>2
    <2> QED
        BY <1>1, <1>3, <1>5, <2>1, ShedKept DEF UnregisterCattle
<1>6. CASE ChangeDefaultVersion(a)
    <2>1. SetDefaultVersion(sheds[s], rx[a].version).versionsMap = sheds[s].versionsMap
        BY <1>3, <1>6 DEF SetDefaultVersion, ShedRecord, ChangeDefaultVersion
    <2> QED
        BY <1>1, <1>3, <1>6, <2>1, ShedKept DEF ChangeDefaultVersion
<1>11. CASE AdoptDefault(a)
    <2>1. SetDefaultVersion(sheds[s], rx[a].adopts).versionsMap = sheds[s].versionsMap
        BY <1>3, <1>11 DEF SetDefaultVersion, ShedRecord, AdoptDefault
    <2> QED
        BY <1>1, <1>3, <1>11, <2>1, ShedKept DEF AdoptDefault
<1>7. CASE ReloadClear(a)
    <2>1. \A c \in Cattle : ~ (ClearCattles(sheds[s]).versionsMap[c] > 0)
        BY <1>3, <1>7 DEF ClearCattles, ShedRecord, ReloadClear
    <2> QED
        BY <1>1, <1>3, <1>7, <2>1, ShedKept DEF ReloadClear
<1>8. ASSUME NEW c \in Cattle, ReloadAdd(a, c)  PROVE ShedsOwned(own)'
    <2>1. \A d \in Cattle : PutCattle(sheds[s], c).versionsMap[d] > 0 =>
              sheds[s].versionsMap[d] > 0 \/ d = c
        BY <1>3, <1>8 DEF PutCattle, ShedRecord, ReloadAdd
    <2>2. own[s] \in HostsOf[c]
        BY <1>8, AddedOwn DEF ReloadAdd
    <2> QED
        BY <1>1, <1>3, <1>8, <2>1, <2>2, ShedKept DEF ReloadAdd
<1>9. CASE HandlerDone(a) \/ Unlock(a)
    BY <1>2, <1>9 DEF HandlerDone, Unlock, mapVars
<1>10. ASSUME NEW h \in Host, \/ LookupToFill(a, h) \/ LookupToUpdate(a, h)
                              \/ PauseApp(a, h) \/ RestartApp(a, h) \/ StopApp(a, h)
       PROVE  ShedsOwned(own)'
    BY <1>2, <1>10 DEF LookupToFill, LookupToUpdate, PauseApp, RestartApp, StopApp, mapVars
<1> QED
    BY <1>4, <1>5, <1>6, <1>7, <1>8, <1>9, <1>10, <1>11 DEF Handle

\* Only a stop changes the map otherwise, and it only takes sheds out of it.
LEMMA MapKept ==
    ASSUME TypeInv, NEW own \in Owners, Owned(own), NEW a \in Address,
           Handle(a), ~CreateShed(a)
    PROVE  MapOwned(own)'
<1>1. hostsMapping \in [Host -> ShedId \cup {NoShed}] /\ MapOwned(own)
    BY DEF TypeInv, TypeOK, Owned
<1>2. ASSUME hostsMapping' = hostsMapping  PROVE MapOwned(own)'
    BY <1>1, <1>2 DEF MapOwned
<1>3. ASSUME NEW h \in Host, StopApp(a, h)  PROVE MapOwned(own)'
    BY <1>1, <1>3 DEF StopApp, MapOwned
<1>4. ASSUME NEW h \in Host, \/ LookupToFill(a, h) \/ LookupToUpdate(a, h)
                             \/ PauseApp(a, h) \/ RestartApp(a, h)
      PROVE  MapOwned(own)'
    BY <1>2, <1>4 DEF LookupToFill, LookupToUpdate, PauseApp, RestartApp, mapVars
<1>5. CASE HandlerDone(a) \/ RegisterCattle(a) \/ UnregisterCattle(a)
                          \/ ChangeDefaultVersion(a)
    BY <1>2, <1>5 DEF HandlerDone, RegisterCattle, UnregisterCattle, ChangeDefaultVersion,
                      mapVars
<1>6. CASE ReloadClear(a) \/ AdoptDefault(a) \/ Unlock(a) \/ \E c \in Cattle : ReloadAdd(a, c)
    BY <1>2, <1>6 DEF ReloadClear, AdoptDefault, Unlock, ReloadAdd
<1> QED
    BY <1>3, <1>4, <1>5, <1>6 DEF Handle

\* A new shed gets the host it was made for; nobody else has it yet.
LEMMA CreateStep ==
    ASSUME TypeInv, NEW own \in Owners, Owned(own), NEW a \in Address, CreateShed(a)
    PROVE  HostInv'
<1>1. PICK s \in ShedId \ allocated :
          /\ allocated' = allocated \cup {s}
          /\ hostsMapping' = [hostsMapping EXCEPT ![rx[a].host] = s]
          /\ rx' = [rx EXCEPT ![a].pc = "apply", ![a].shed = s]
    BY DEF CreateShed
<1> DEFINE h == rx[a].host
<1>2. /\ rx[a].pc = "create" /\ UNCHANGED <<sheds, req>>
      /\ h \in Host /\ rx \in [Address -> RxState]
      /\ hostsMapping \in [Host -> ShedId \cup {NoShed}]
      /\ sheds \in [ShedId -> ShedRecord]
    BY DEF CreateShed, TypeInv, TypeOK, HandlersReady
<1>3. own \in [ShedId -> Host \cup {NoHost}] /\ own[s] = NoHost /\ NoHost \notin Host
    BY <1>1, CattleManagerAssumption DEF Owners, Owned, ShedsOwned
<1>4. PICK now \in Owners : now[s] = h /\ \A t \in ShedId \ {s} : now[t] = own[t]
    <2>1. [own EXCEPT ![s] = h] \in Owners
        BY <1>2, <1>3 DEF Owners
    <2>2. /\ [own EXCEPT ![s] = h][s] = h
          /\ \A t \in ShedId \ {s} : [own EXCEPT ![s] = h][t] = own[t]
        BY <1>3
    <2> QED
        BY <2>1, <2>2
<1>5. MapOwned(now)'
    <2>1. ASSUME NEW g \in Host, hostsMapping'[g] # NoShed
          PROVE  now[hostsMapping'[g]] = g
        <3>1. CASE g = h
            BY <1>1, <1>2, <1>4, <3>1
        <3>2. CASE g # h
            <4>1. hostsMapping'[g] = hostsMapping[g] /\ hostsMapping[g] \in ShedId
                BY <1>1, <1>2, <2>1, <3>2
            <4>2. own[hostsMapping[g]] = g
                BY <2>1, <4>1 DEF Owned, MapOwned
            <4> QED
                BY <1>3, <1>4, <4>1, <4>2
        <3> QED
            BY <3>1, <3>2
    <2> QED
        BY <2>1 DEF MapOwned
<1>6. ASSUME NEW b \in Address  PROVE TaskOwned(now, rx[b])'
    <2>1. TaskOwned(own, rx[b])
        BY DEF Owned
    <2>2. CASE b = a
        <3> DEFINE new == [rx[a] EXCEPT !.pc = "apply", !.shed = s]
        <3>1. rx'[a] = new
            BY <1>1, <1>2 DEF RxState
        <3>2. /\ new.pc = "apply" /\ new.shed = s /\ new.hosts = rx[a].hosts
              /\ new.cattle = rx[a].cattle /\ new.load = rx[a].load
              /\ new.op = rx[a].op /\ new.host = h
            BY <1>2 DEF RxState
        <3>3. TaskOwned(now, new)
            <4> HIDE DEF new
            <4> QED BY <1>2, <1>4, <2>1, <2>2, <3>2 DEF TaskOwned
        <3> QED
            BY <2>2, <3>1, <3>3
    <2>3. CASE b # a
        <3>1. rx'[b] = rx[b]
            BY <1>1, <1>2, <2>3
        <3>2. rx[b].pc \in {"apply", "locked"} => rx[b].shed \in ShedId /\ rx[b].host \in Host
            BY DEF TypeInv, HandlersReady
        <3>3. TaskOwned(now, rx[b])
            BY <1>3, <1>4, <2>1, <3>2 DEF TaskOwned
        <3> QED
            BY <3>1, <3>3
    <2> QED
        BY <2>2, <2>3
<1>7. ASSUME NEW r \in Request  PROVE RequestOwned(now, req[r])'
    <2>1. RequestOwned(own, req[r])
        BY DEF Owned
    <2>2. req[r].pc \in {"sticky", "service", "check", "index", "take"}
              => req[r].shed \in ShedId /\ req[r].host \in Host
        BY DEF TypeInv, RequestsReady
    <2>3. RequestOwned(now, req[r])
        BY <1>3, <1>4, <2>1, <2>2 DEF RequestOwned
    <2> QED
        BY <1>2, <2>3
<1>8. ShedsOwned(now)'
    <2>1. \A c \in Cattle : HostsOf[c] \subseteq Host
        BY CattleManagerAssumption
    <2>2. ASSUME NEW t \in ShedId
          PROVE  /\ t \notin allocated' => now[t] = NoHost
                 /\ \A c \in Cattle : sheds'[t].versionsMap[c] > 0 => now[t] \in HostsOf[c]
        <3>1. CASE t = s
            BY <1>1, <1>2, <1>3, <2>1, <3>1 DEF Owned, ShedsOwned
        <3>2. CASE t # s
            BY <1>1, <1>2, <1>4, <3>2 DEF Owned, ShedsOwned
        <3> QED
            BY <3>1, <3>2
    <2> QED
        BY <2>2 DEF ShedsOwned
<1>9. Owned(now)'
    BY <1>5, <1>6, <1>7, <1>8 DEF Owned
<1> QED
    BY <1>4, <1>9 DEF HostInv

-----------------------------------------------------------------------------
\* A handler does not touch requests,
LEMMA HandleKeepsRequests ==
    ASSUME NEW a \in Address, Handle(a)
    PROVE  req' = req
BY DEF Handle, LookupToFill, LookupToUpdate, PauseApp, RestartApp, StopApp, CreateShed,
       RegisterCattle, UnregisterCattle, ChangeDefaultVersion, ReloadClear, ReloadAdd,
       AdoptDefault, Unlock, HandlerDone

\* nor does a request touch another one.
LEMMA RequestsKeepOthers ==
    ASSUME TypeInv, NEW r \in Request, NEW q \in Request, q # r,
           (\E h \in Host, p \in Paths, k \in Cookies : Arrive(r, h, p, k)) \/ Process(r)
    PROVE  req'[q] = req[q]
<1>1. req \in [Request -> ReqState]
    BY DEF TypeInv, TypeOK
<1>2. ASSUME NEW new, Moves(r, new)  PROVE req'[q] = req[q]
    BY <1>1, <1>2 DEF Moves
<1>3. ASSUME NEW h, NEW p, NEW k, NEW excl, LooksUp(r, h, p, k, excl)
      PROVE  req'[q] = req[q]
    BY <1>2, <1>3 DEF LooksUp
<1>4. CASE \E h \in Host, p \in Paths, k \in Cookies : Arrive(r, h, p, k)
    BY <1>3, <1>4 DEF Arrive
<1>5. CASE CheckPaused(r) \/ FindShed(r) \/ FindSticked(r)
    BY <1>2, <1>5 DEF CheckPaused, FindShed, FindSticked
<1>6. CASE Service(r) \/ CheckEmpty(r) \/ ChooseIndex(r) \/ TakeElement(r)
    BY <1>2, <1>6 DEF Service, CheckEmpty, ChooseIndex, TakeElement
<1>7. CASE Connect(r) \/ ConnectFails(r)
    BY <1>2, <1>3, <1>7 DEF Connect, ConnectFails, LooksAgain
<1> QED
    BY <1>4, <1>5, <1>6, <1>7 DEF Process

\* Every step keeps some assignment: all but the creation of a shed, the old one.
LEMMA HostInvariance == Spec => []HostInv
<1>1. TypeInv /\ RegisteredIsRoutable /\ HostInv /\ [Next]_vars => HostInv'
    <2> SUFFICES ASSUME TypeInv, RegisteredIsRoutable, [Next]_vars,
                        NEW own \in Owners, Owned(own)
                 PROVE  HostInv'
        BY DEF HostInv
    <2>1. ASSUME MapOwned(own)', ShedsOwned(own)',
                 \A a \in Address : TaskOwned(own, rx'[a]),
                 \A r \in Request : RequestOwned(own, req'[r])
          PROVE  HostInv'
        BY <2>1 DEF HostInv, Owned
    <2>2. ASSUME UNCHANGED <<hostsMapping, sheds, allocated>>
          PROVE  MapOwned(own)' /\ ShedsOwned(own)'
        BY <2>2 DEF Owned, MapOwned, ShedsOwned
    <2>3. /\ \A a \in Address : TaskOwned(own, rx[a])
          /\ \A r \in Request : RequestOwned(own, req[r])
        BY DEF Owned
    <2>4. ASSUME NEW a \in Address, Handle(a), ~CreateShed(a)  PROVE HostInv'
        <3>1. MapOwned(own)' /\ ShedsOwned(own)'
            BY <2>4, MapKept, ShedsKept
        <3>2. \A b \in Address : TaskOwned(own, rx'[b])
            BY <2>3, <2>4, HandlerStep, OthersKeepRx
        <3>3. req' = req
            BY <2>4, HandleKeepsRequests
        <3> QED
            BY <2>1, <2>3, <3>1, <3>2, <3>3
    <2>5. ASSUME NEW a \in Address, (\E m \in Inbound[a] : Receive(a, m)) \/ Suspect(a)
          PROVE  HostInv'
        <3>1. UNCHANGED <<hostsMapping, sheds, allocated, req>>
            BY <2>5 DEF Receive, Suspect, mapVars
        <3>2. \A b \in Address : TaskOwned(own, rx'[b])
            BY <2>3, <2>5, MessageStep, MessageKeepsRx
        <3> QED
            BY <2>1, <2>2, <2>3, <3>1, <3>2
    <2>6. ASSUME NEW r \in Request,
                 \/ \E h \in Host, p \in Paths, k \in Cookies : Arrive(r, h, p, k)
                 \/ Process(r)
          PROVE  HostInv'
        <3>1. UNCHANGED <<hostsMapping, sheds, allocated, rx>>
            BY <2>6, RequestKeepsMaps DEF mapVars, rxVars
        <3>2. \A q \in Request : RequestOwned(own, req'[q])
            BY <2>3, <2>6, RequestStep, RequestsKeepOthers
        <3> QED
            BY <2>1, <2>2, <2>3, <3>1, <3>2
    <2>7. CASE UNCHANGED vars
        BY <2>1, <2>2, <2>3, <2>7 DEF vars
    <2> QED
        BY <2>4, <2>5, <2>6, <2>7, CreateStep DEF Next
<1> QED
    BY <1>1, InitOwned, TypeInvariance, RegisteredRoutable, PTL DEF Spec

\* No request reaches an instance of an application that does not own the host it
\* asked for, at the first attempt or a later one, with sticky sessions or
\* without, however often sheds are dropped and made again meanwhile
\* (CattleManager.java:219, 240, 311-331).
THEOREM HostsServedByOwners == Spec => []HostServedByItsApp
<1>1. HostInv => HostServedByItsApp
    BY DEF HostInv, Owned, RequestOwned, HostServedByItsApp
<1> QED
    BY <1>1, HostInvariance, PTL

-----------------------------------------------------------------------------
(* The shed of a host. *)

\* The next host of a handler is one of those it had.
LEMMA RestOfHostsFields ==
    ASSUME TypeInv, NEW a \in Address, NEW h \in Host
    PROVE  RestOfHosts(a, h) \in RxState /\ RestOfHosts(a, h).pc = rx[a].pc
<1>1. rx[a] \in RxState
    BY DEF TypeInv, TypeOK
<1>2. rx[a].hosts \ {h} \in SUBSET Host
    BY <1>1 DEF RxState
<1> QED
    BY <1>1, <1>2 DEF RestOfHosts, RxState

\* It gives up its shed, takes the one of the map or is to make one where there is
\* none, ...
Releases(y) == y.pc \in {"idle", "hosts"}

Takes(y, map) ==
    \/ y.pc = "create" /\ map[y.host] = NoShed
    \/ y.pc = "apply" /\ y.shed = map[y.host]

\* ... or goes on with the one it has.
Keeps(x, y) ==
    /\ x.pc \in {"apply", "locked"} /\ y.pc = "locked"
    /\ y.host = x.host /\ y.shed = x.shed /\ y.op = x.op

\* A step of a handler ends its work on a host, takes up one with the shed of the
\* map, or stays at it.
LEMMA HandlerMoves ==
    ASSUME TypeInv, NEW a \in Address, Handle(a), ~CreateShed(a)
    PROVE  Releases(rx'[a]) \/ Takes(rx'[a], hostsMapping) \/ Keeps(rx[a], rx'[a])
<1> DEFINE Goal == Releases(rx'[a]) \/ Takes(rx'[a], hostsMapping) \/ Keeps(rx[a], rx'[a])
<1>0. rx \in [Address -> RxState] /\ rx[a] \in RxState
    BY DEF TypeInv, TypeOK
<1>1. ASSUME NEW h \in Host, LookupToFill(a, h)  PROVE Goal
    <2> DEFINE rest == RestOfHosts(a, h)
               pc   == IF hostsMapping[h] = NoShed THEN "create" ELSE "apply"
               new  == [rest EXCEPT !.pc = pc, !.host = h, !.shed = hostsMapping[h]]
    <2>1. rx'[a] = new
        BY <1>0, <1>1 DEF LookupToFill
    <2>2. rest \in RxState
        BY RestOfHostsFields
    <2>3. \/ pc = "create" /\ hostsMapping[h] = NoShed
          \/ pc = "apply"
        OBVIOUS
    <2> HIDE DEF rest, pc
    <2>4. new.pc = pc /\ new.host = h /\ new.shed = hostsMapping[h]
        BY <2>2 DEF RxState
    <2> HIDE DEF new
    <2> QED
        BY <2>1, <2>3, <2>4 DEF Takes
<1>2. ASSUME NEW h \in Host, LookupToUpdate(a, h)  PROVE Goal
    <2> DEFINE rest == RestOfHosts(a, h)
               new  == [rest EXCEPT !.pc = "apply", !.host = h, !.shed = hostsMapping[h]]
    <2>1. rx[a].pc = "hosts"
        BY <1>2 DEF LookupToUpdate, TakesHost
    <2>2. rx'[a] \in {rest, new}
        BY <1>0, <1>2 DEF LookupToUpdate
    <2>3. rest \in RxState /\ rest.pc = "hosts"
        BY <2>1, RestOfHostsFields
    <2> HIDE DEF rest
    <2>4. new.pc = "apply" /\ new.host = h /\ new.shed = hostsMapping[h]
        BY <2>3 DEF RxState
    <2> HIDE DEF new
    <2> QED
        BY <2>2, <2>3, <2>4 DEF Takes, Releases
<1>3. ASSUME NEW h \in Host, PauseApp(a, h) \/ RestartApp(a, h) \/ StopApp(a, h)
      PROVE  Goal
    <2>1. rx[a].pc = "hosts" /\ rx'[a] = RestOfHosts(a, h)
        BY <1>0, <1>3 DEF PauseApp, RestartApp, StopApp, TakesHost
    <2> QED
        BY <2>1, RestOfHostsFields DEF Releases
<1>4. CASE HandlerDone(a)
    BY <1>0, <1>4 DEF HandlerDone, IdleRx, Releases
<1>5. CASE UnregisterCattle(a) \/ ChangeDefaultVersion(a) \/ Unlock(a)
    <2>1. NextHost(a)
        BY <1>5 DEF UnregisterCattle, ChangeDefaultVersion, Unlock
    <2>2. rx'[a].pc = "hosts"
        BY <1>0, <2>1 DEF NextHost, RxState
    <2> QED
        BY <2>2 DEF Releases
<1>6. ASSUME rx[a].pc \in {"apply", "locked"}, NEW todo, NEW adopts,
             rx'[a] = [rx[a] EXCEPT !.pc = "locked", !.todo = todo, !.adopts = adopts]
      PROVE  Keeps(rx[a], rx'[a])
    BY <1>0, <1>6 DEF Keeps, RxState
<1>7. CASE RegisterCattle(a)
    <2> DEFINE v == FoundDefault(sheds[rx[a].shed], rx[a].cattle)
    <2>1. /\ rx[a].pc = "apply"
          /\ rx'[a] = [rx[a] EXCEPT !.pc = "locked", !.todo = {}, !.adopts = v]
        BY <1>0, <1>7 DEF RegisterCattle, Applies, RxState
    <2> HIDE DEF v
    <2> QED
        BY <1>6, <2>1
<1>8. CASE ReloadClear(a)
    <2>1. /\ rx[a].pc = "apply"
          /\ rx'[a] = [rx[a] EXCEPT !.pc = "locked", !.todo = rx[a].load, !.adopts = rx[a].adopts]
        BY <1>0, <1>8 DEF ReloadClear, Applies, RxState
    <2> QED
        BY <1>6, <2>1
<1>9. ASSUME NEW c \in Cattle, ReloadAdd(a, c)  PROVE Goal
    <2> DEFINE v == FoundDefault(sheds[rx[a].shed], c)
    <2>1. /\ rx[a].pc = "locked"
          /\ rx'[a] = [rx[a] EXCEPT !.pc = "locked", !.todo = rx[a].todo \ {c}, !.adopts = v]
        BY <1>0, <1>9 DEF ReloadAdd, RxState
    <2> HIDE DEF v
    <2> QED
        BY <1>6, <2>1
<1>10. CASE AdoptDefault(a)
    <2>1. /\ rx[a].pc = "locked"
          /\ rx'[a] = [rx[a] EXCEPT !.pc = "locked", !.todo = rx[a].todo, !.adopts = NoVersion]
        BY <1>0, <1>10 DEF AdoptDefault, RxState
    <2> QED
        BY <1>6, <2>1
<1> QED
    BY <1>1, <1>2, <1>3, <1>4, <1>5, <1>7, <1>8, <1>9, <1>10 DEF Handle

\* Whoever makes no shed takes one out of the map at most.
LEMMA MapChanges ==
    ASSUME TypeInv, NEW a \in Address, Handle(a), ~CreateShed(a), NEW h \in Host
    PROVE  hostsMapping'[h] \in {hostsMapping[h], NoShed}
<1>1. hostsMapping \in [Host -> ShedId \cup {NoShed}]
    BY DEF TypeInv, TypeOK
<1>2. ASSUME NEW g \in Host, StopApp(a, g)
      PROVE  hostsMapping'[h] \in {hostsMapping[h], NoShed}
    BY <1>1, <1>2 DEF StopApp
<1>3. ASSUME NEW g \in Host, \/ LookupToFill(a, g) \/ LookupToUpdate(a, g)
                             \/ PauseApp(a, g) \/ RestartApp(a, g)
      PROVE  hostsMapping' = hostsMapping
    BY <1>3 DEF LookupToFill, LookupToUpdate, PauseApp, RestartApp, mapVars
<1>4. CASE HandlerDone(a) \/ RegisterCattle(a) \/ UnregisterCattle(a)
                          \/ ChangeDefaultVersion(a) \/ AdoptDefault(a)
    BY <1>4 DEF HandlerDone, RegisterCattle, UnregisterCattle, ChangeDefaultVersion,
                AdoptDefault, mapVars
<1>5. CASE ReloadClear(a) \/ Unlock(a) \/ \E c \in Cattle : ReloadAdd(a, c)
    BY <1>5 DEF ReloadClear, Unlock, ReloadAdd
<1> QED
    BY <1>2, <1>3, <1>4, <1>5 DEF Handle

\* What a thread at work on h has found of its shed.
Agrees(x, h, s) ==
    x.host = h =>
        /\ x.pc # "create"
        /\ x.pc \in {"apply", "locked"} /\ x.op \in {"REGISTER", "RANCH_LOAD"} => x.shed = s

\* HostSettled, thread by thread.
LEMMA SettledDef ==
    ASSUME NEW h \in Host
    PROVE  HostSettled(h) <=> /\ hostsMapping[h] # NoShed
                              /\ \A a \in Address : Agrees(rx[a], h, hostsMapping[h])
BY DEF HostSettled, Agrees

\* A handler of a host that is settled makes no shed for it and takes no other.
LEMMA HandlerStaysSettled ==
    ASSUME TypeInv, NEW h \in Host, HostSettled(h), hostsMapping'[h] # NoShed,
           NEW a \in Address, Handle(a)
    PROVE  Agrees(rx'[a], h, hostsMapping[h]) /\ hostsMapping'[h] = hostsMapping[h]
<1>0. /\ rx \in [Address -> RxState] /\ rx[a] \in RxState
      /\ hostsMapping \in [Host -> ShedId \cup {NoShed}]
      /\ hostsMapping[h] # NoShed /\ Agrees(rx[a], h, hostsMapping[h])
    BY SettledDef DEF TypeInv, TypeOK
<1>1. CASE CreateShed(a)
    <2>1. PICK s \in ShedId : /\ hostsMapping' = [hostsMapping EXCEPT ![rx[a].host] = s]
                              /\ rx' = [rx EXCEPT ![a].pc = "apply", ![a].shed = s]
        BY <1>1 DEF CreateShed
    <2>2. rx[a].pc = "create" /\ rx[a].host # h
        BY <1>0, <1>1 DEF CreateShed, Agrees
    <2>3. rx'[a].host = rx[a].host
        BY <1>0, <2>1 DEF RxState
    <2> QED
        BY <1>0, <2>1, <2>2, <2>3 DEF Agrees
<1>2. CASE ~CreateShed(a)
    <2>1. hostsMapping'[h] = hostsMapping[h]
        BY <1>2, MapChanges
    <2>2. CASE Releases(rx'[a])
        BY <2>1, <2>2 DEF Releases, Agrees
    <2>3. CASE Takes(rx'[a], hostsMapping)
        BY <1>0, <2>1, <2>3 DEF Takes, Agrees
    <2>4. CASE Keeps(rx[a], rx'[a])
        BY <1>0, <2>1, <2>4 DEF Keeps, Agrees
    <2> QED
        BY <1>2, <2>1, <2>2, <2>3, <2>4, HandlerMoves
<1> QED
    BY <1>1, <1>2

\* Once the threads that report a host agree on its shed they agree until the host
\* is stopped: registrations and reports are not lost, although sheds are looked up
\* and put in the map without a lock (CattleManager.java:315, 321-326).
THEOREM HostStaysSettled == Spec => SettledHostKept
<1>1. TypeInv /\ [Next]_vars =>
         [\A h \in Host : HostSettled(h) /\ hostsMapping'[h] # NoShed => HostSettled(h)']_vars
    <2> SUFFICES ASSUME TypeInv, Next, NEW h \in Host, HostSettled(h), hostsMapping'[h] # NoShed
                 PROVE  HostSettled(h)'
        OBVIOUS
    <2>1. \A a \in Address : Agrees(rx[a], h, hostsMapping[h])
        BY SettledDef
    <2>2. ASSUME hostsMapping'[h] = hostsMapping[h],
                 \A a \in Address : Agrees(rx'[a], h, hostsMapping[h])
          PROVE  HostSettled(h)'
        BY <2>2 DEF HostSettled, Agrees
    <2>3. ASSUME NEW a \in Address, Handle(a)  PROVE HostSettled(h)'
        <3>1. \A b \in Address : b # a => rx'[b] = rx[b]
            BY <2>3, OthersKeepRx
        <3> QED
            BY <2>1, <2>2, <2>3, <3>1, HandlerStaysSettled
    <2>4. ASSUME NEW a \in Address, (\E m \in Inbound[a] : Receive(a, m)) \/ Suspect(a)
          PROVE  HostSettled(h)'
        <3>1. \A b \in Address : b # a => rx'[b] = rx[b]
            BY <2>4, MessageKeepsRx
        <3>2. rx'[a].pc = "hosts" /\ hostsMapping' = hostsMapping
            <4>1. CASE \E m \in Inbound[a] : Receive(a, m)
                BY <4>1 DEF Receive, IdleRx, mapVars, TypeInv, TypeOK
            <4>2. CASE Suspect(a)
                BY <4>2 DEF Suspect, IdleRx, mapVars, TypeInv, TypeOK
            <4> QED
                BY <2>4, <4>1, <4>2
        <3>3. Agrees(rx'[a], h, hostsMapping[h])
            BY <3>2 DEF Agrees
        <3> QED
            BY <2>1, <2>2, <3>1, <3>2, <3>3
    <2>5. ASSUME NEW r \in Request,
                 (\E g \in Host, p \in Paths, k \in Cookies : Arrive(r, g, p, k)) \/ Process(r)
          PROVE  HostSettled(h)'
        <3>1. UNCHANGED <<rx, hostsMapping>>
            BY <2>5, RequestKeepsMaps DEF mapVars, rxVars
        <3> QED
            BY <2>1, <2>2, <3>1
    <2> QED
        BY <2>3, <2>4, <2>5 DEF Next
<1> QED
    BY <1>1, TypeInvariance, PTL DEF Spec, SettledHostKept

=============================================================================
