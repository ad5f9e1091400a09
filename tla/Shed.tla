------------------------------- MODULE Shed -------------------------------
(***************************************************************************)
(* The routing table of one host name: td/Shed.java, with the version      *)
(* choice of td/impl/DefaultVersionSelection.java.  A Shed is a value with *)
(* pure operations here; the modules that keep sheds in their state apply  *)
(* them under the locking the code uses.                                   *)
(*                                                                         *)
(* An instance ("cattle") has an id, by which Java compares it, and its    *)
(* application version and end point never change, so they are functions   *)
(* of the instance.  The multimap from versions to instances is an         *)
(* ArrayListMultimap: it keeps duplicates, so it is a count per instance.  *)
(***************************************************************************)
EXTENDS Integers, FiniteSets, Sequences
Ext == INSTANCE SequencesExt

CONSTANTS
    Cattle,        \* the application instances
    AppVersion,    \* the versions of the application
    NoVersion,     \* a null AppVersion
    VersionOf,     \* Cattle.appVersion
    Testing,       \* the versions whose state field is TESTING
    Ip, Port       \* Cattle.ip and Cattle.port, as sequences of characters

\* Every instance that is deployed carries a version and an end point.
ASSUME ShedAssumption ==
    /\ IsFiniteSet(Cattle)
    /\ VersionOf \in [Cattle -> AppVersion]
    /\ NoVersion \notin AppVersion
    /\ Testing \subseteq AppVersion

ShedRecord == [cattles        : SUBSET Cattle,
               versionsMap    : [Cattle -> Nat],
               defaultVersion : AppVersion \cup {NoVersion}]

EmptyShed == [cattles        |-> {},
              versionsMap    |-> [c \in Cattle |-> 0],
              defaultVersion |-> NoVersion]

-----------------------------------------------------------------------------
(* The operations that change a shed. *)

\* addCattle enters the instance in both indexes ...
PutCattle(s, c) ==
    [cattles        |-> s.cattles \cup {c},
     versionsMap    |-> [s.versionsMap EXCEPT ![c] = @ + 1],
     defaultVersion |-> s.defaultVersion]

\* Slip: the default version is not looked at.
FoundDefaultIgnored(s, c) == VersionOf[c]

\* ... and looks whether there is a default version: what it is to become, if none.
FoundDefault(s, c) == IF s.defaultVersion = NoVersion THEN VersionOf[c] ELSE NoVersion

\* addCattle as one step, where no command can come between its check and its write.
AddCattle(s, c) ==
    [PutCattle(s, c) EXCEPT
        !.defaultVersion = IF @ = NoVersion THEN VersionOf[c] ELSE @]

\* Slip: an occurrence is taken away that need not be there.
RemoveCattleUnchecked(s, c) ==
    [cattles        |-> s.cattles \ {c},
     versionsMap    |-> [s.versionsMap EXCEPT ![c] = @ - 1],
     defaultVersion |-> s.defaultVersion]

\* One occurrence leaves the multimap; the default version stays.
RemoveCattle(s, c) ==
    [cattles        |-> s.cattles \ {c},
     versionsMap    |-> [s.versionsMap EXCEPT ![c] = IF @ > 0 THEN @ - 1 ELSE 0],
     defaultVersion |-> s.defaultVersion]

\* Slip: only the multimap is emptied.
ClearVersionsMap(s) == [s EXCEPT !.versionsMap = [c \in Cattle |-> 0]]

\* What reload does before it adds the instances it was given.
ClearCattles(s) ==
    [s EXCEPT !.cattles = {}, !.versionsMap = [c \in Cattle |-> 0]]

\* A null is ignored.
SetDefaultVersion(s, v) ==
    [s EXCEPT !.defaultVersion = IF v = NoVersion THEN @ ELSE v]

\* reload as one step, for callers that hold the write lock throughout.  The
\* default of a shed without one is the version of whichever comes first.
ReloadResults(s, load) ==
    {[cattles        |-> load,
      versionsMap    |-> [c \in Cattle |-> IF c \in load THEN 1 ELSE 0],
      defaultVersion |-> IF s.defaultVersion = NoVersion
                         THEN VersionOf[first] ELSE s.defaultVersion]
        : first \in load}

-----------------------------------------------------------------------------
(* The operations that read a shed. *)

\* The instances the list versionsMap.get(v) holds, and its occurrences.
CattlesOf(s, v) == {c \in Cattle : s.versionsMap[c] > 0 /\ VersionOf[c] = v}

ListSize(s, v) ==
    Cardinality(UNION {{c} \X (1 .. s.versionsMap[c]) : c \in CattlesOf(s, v)})

AvailableVersions(s) == {VersionOf[c] : c \in {d \in Cattle : s.versionsMap[d] > 0}}

\* DefaultVersionSelection.select: the version a request is served by.  A cookie
\* is a pair of version names, NoVersion where the request has no such cookie.
Select(s, cookie) ==
    LET available == AvailableVersions(s)
    IN  IF \A v, w \in available : v = w              THEN s.defaultVersion
        ELSE IF cookie.test \in available \cap Testing THEN cookie.test
        ELSE IF cookie.version \in available           THEN cookie.version
        ELSE s.defaultVersion

\* findStickedCattle: an instance whose ip starts and whose port ends the url.
StickedCattles(s, url) ==
    {c \in s.cattles : url # <<>> /\ Ext!IsPrefix(Ip[c], url) /\ Ext!IsSuffix(Port[c], url)}

=============================================================================
