------------------------------ MODULE MCRanch ------------------------------
(***************************************************************************)
(* Small instances of Ranch for TLC.                                       *)
(***************************************************************************)
EXTENDS Ranch

CONSTANTS c1, c2, c3, v1, v2

\* Instances differ in nothing but their names, so they are named in the order in
\* which they join.
InOrder == [n \in Cattle |-> CASE n = c1 -> {} [] n = c2 -> {c1} [] OTHER -> {c1, c2}]

MCVersionOf == [n \in Cattle |-> v1]
MCEndPoint  == [n \in Cattle |-> <<>>]

NoCommands      == {}
VersionCommands == {[op |-> "APP_SET_DEFAULT_VERSION", version |-> v2]}

=============================================================================
