---------------------------- MODULE RoutingTable ----------------------------
(***************************************************************************)
(* What the sheds of a dispatcher promise to those that use them: a        *)
(* message of a coordinator changes a shed all at once, one message after  *)
(* the other, and the version of a request is chosen from a shed that no   *)
(* message has half changed.  Less is promised of the default version: a   *)
(* member that found none when it added an instance writes that version    *)
(* some time later, over what was commanded in between.  How the messages  *)
(* find their shed is left open.  CattleManager, where a reload is many    *)
(* steps under a lock, is shown to implement this.                         *)
(***************************************************************************)
EXTENDS Shed

CONSTANTS
    ShedId,      \* the sheds
    Address,     \* the members whose messages change them
    Request,     \* the requests
    Cookies      \* the cookies a request may carry

VARIABLES
    table,       \* the shed of each id
    pending,     \* member -> the task it is about to carry out
    adopting,    \* member -> the default version it is about to write
    chosen       \* request -> the version it was last given

vars == <<table, pending, adopting, chosen>>

Task == [op : {"REGISTER", "UNREGISTER", "RANCH_LOAD", "APP_SET_DEFAULT_VERSION"},
         shed : ShedId, cattle : Cattle, version : AppVersion \cup {NoVersion},
         load : SUBSET Cattle]

NoTask == [op |-> "none"]

Adoption == [op : {"adopt"}, shed : ShedId, version : AppVersion]

NoAdoption == [op |-> "none"]

\* A shed with the instances of a report, each once, and the default it had.
Loaded(s, load) ==
    [cattles        |-> load,
     versionsMap    |-> [c \in Cattle |-> IF c \in load THEN 1 ELSE 0],
     defaultVersion |-> s.defaultVersion]

Effect(s, task) ==
    CASE task.op = "REGISTER"                -> PutCattle(s, task.cattle)
      [] task.op = "UNREGISTER"              -> RemoveCattle(s, task.cattle)
      [] task.op = "RANCH_LOAD"              -> Loaded(s, task.load)
      [] task.op = "APP_SET_DEFAULT_VERSION" -> SetDefaultVersion(s, task.version)

\* A message comes, whatever it asks for.
Accept(a) ==
    /\ pending[a] = NoTask
    /\ pending' = [pending EXCEPT ![a] = pending'[a]] /\ pending'[a] \in Task
    /\ UNCHANGED <<table, adopting, chosen>>

\* A member that adds one of the instances to a shed finds no default version.
FindsNoDefault(a, s, added) ==
    /\ table[s].defaultVersion = NoVersion
    /\ \E c \in added :
          adopting' = [adopting EXCEPT ![a] =
                          [op |-> "adopt", shed |-> s, version |-> VersionOf[c]]]

Perform(a) ==
    /\ pending[a] # NoTask
    /\ LET s == pending[a].shed
       IN  /\ table' = [table EXCEPT ![s] = Effect(@, pending[a])]
           /\ \/ UNCHANGED adopting
              \/ pending[a].op = "REGISTER" /\ FindsNoDefault(a, s, {pending[a].cattle})
    /\ pending' = [pending EXCEPT ![a] = NoTask]
    /\ UNCHANGED chosen

\* A report takes effect at once, but looks for a default version again and again.
MissDefault(a, s) ==
    /\ FindsNoDefault(a, s, table[s].cattles)
    /\ UNCHANGED <<table, pending, chosen>>

\* What was found missing is written, whatever the default version is by now.
AdoptDefault(a) ==
    /\ adopting[a] # NoAdoption
    /\ LET s == adopting[a].shed
       IN  table' = [table EXCEPT ![s] = SetDefaultVersion(@, adopting[a].version)]
    /\ adopting' = [adopting EXCEPT ![a] = NoAdoption]
    /\ UNCHANGED <<pending, chosen>>

Choose(r, s, cookie) ==
    /\ chosen' = [chosen EXCEPT ![r] = Select(table[s], cookie)]
    /\ UNCHANGED <<table, pending, adopting>>

Forget(r) ==
    /\ chosen' = [chosen EXCEPT ![r] = NoVersion]
    /\ UNCHANGED <<table, pending, adopting>>

Init ==
    /\ table = [s \in ShedId |-> EmptyShed]
    /\ pending = [a \in Address |-> NoTask]
    /\ adopting = [a \in Address |-> NoAdoption]
    /\ chosen = [r \in Request |-> NoVersion]

Next ==
    \/ \E a \in Address : \/ Accept(a) \/ Perform(a) \/ AdoptDefault(a)
                         \/ \E s \in ShedId : MissDefault(a, s)
    \/ \E r \in Request : (\E s \in ShedId, k \in Cookies : Choose(r, s, k)) \/ Forget(r)

Spec == Init /\ [][Next]_vars
=============================================================================
