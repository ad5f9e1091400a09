--------------------------- MODULE MCAppLifecycle ---------------------------
(***************************************************************************)
(* Small instances of AppLifecycle for TLC: two servers that start twice   *)
(* between them, two versions, two instances, and what one or two          *)
(* administrators do.                                                      *)
(***************************************************************************)
EXTENDS AppLifecycle

CONSTANTS t1, t2

register == {"registerVersion"}
publish  == {"publish"}

Both(first, second) == [t \in Admin |-> IF t = t1 THEN first ELSE second]

\* A progressive upgrade leaves the old version in the groups, by its own comment.
Any == Operation \ {"registerVersion", "PROGRESSIVE", "checkStopedVersion"}

\* One version is published, the second one is the default; then anything.
OneAfterTheOther == Both(<<register, {"setVersion"}, register, publish, Any>>, <<>>)

\* A version is published by two, or stopped or removed, or loses its server meanwhile.
PublishRaces == Both(<<register, publish>>,
                     <<{"publish", "stopVersion", "removeVersion", "removeServer",
                        "removeApp", "updateApp"}>>)

\* A version has more instances than its capacity.
TooMany == Both(<<register, publish, publish, {"alterCapacity", "pauseApp"}>>, <<>>)

AllScripts == {OneAfterTheOther, PublishRaces, TooMany}

\* The old version is upgraded gracefully.
UpgradeScripts == {Both(<<register, register, publish, {"GRACEFUL"}>>, <<>>)}

PublishScripts == {Both(<<register, publish>>, <<>>)}

=============================================================================
