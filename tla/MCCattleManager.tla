-------------------------- MODULE MCCattleManager --------------------------
(***************************************************************************)
(* Small instances of CattleManager for TLC.                               *)
(***************************************************************************)
EXTENDS CattleManager, TLC

CONSTANTS c1, c2, c3, v1, v2, w1, h1, h2, h3, a1, a2

\* c1 and c2 are instances of two versions of one application; c3 is the only
\* instance of another one.
MCVersionOf == [c \in Cattle |-> CASE c = c1 -> v1 [] c = c2 -> v2 [] OTHER -> w1]
MCHostsOf   == [c \in Cattle |-> IF c \in {c1, c2} THEN {h1} ELSE {h2}]

\* End points 1.2:80, 1.2:81 and 1.3:80, a character being a number, 0 the colon.
MCIp   == [c \in Cattle |-> IF c \in {c1, c2} THEN <<1, 2>> ELSE <<1, 3>>]
MCPort == [c \in Cattle |-> IF c = c2 THEN <<8, 1>> ELSE <<8, 0>>]
Url(c) == MCIp[c] \o <<0>> \o MCPort[c]

Msg(op, c, v, load) == [op |-> op, cattle |-> c, version |-> v, load |-> load]

\* Two coordinators of the same application during a hand-over.
HandOver ==
    (a1 :> {Msg("REGISTER", c1, v1, {}), Msg("UNREGISTER", c1, v1, {}),
            Msg("RANCH_LOAD", c1, v1, {c1, c2})}) @@
    (a2 :> {Msg("REGISTER", c2, v2, {}), Msg("RANCH_LOAD", c2, v2, {c2}),
            Msg("APP_SET_DEFAULT_VERSION", c2, v2, {})})

\* The coordinators of two applications.
TwoApps ==
    (a1 :> {Msg("REGISTER", c1, v1, {}), Msg("RANCH_LOAD", c1, v1, {c1, c2}),
            Msg("APP_STOP", c1, v1, {}), Msg("APP_PAUSE", c1, v1, {}),
            Msg("APP_RESTART", c1, v1, {})}) @@
    (a2 :> {Msg("REGISTER", c3, w1, {}), Msg("UNREGISTER", c3, w1, {})})

\* No path, and one that names the host of the first application.
NoPaths == {<<>>}
OneName == {<<h1>>}

NoCookies     == {NoCookie}
ServerCookie  == {[NoCookie EXCEPT !.server = Url(c1)]}
AllCookies    == NoCookies \cup ServerCookie \cup
                 {[NoCookie EXCEPT !.version = v2], [NoCookie EXCEPT !.test = v2]}

\* Shed objects are interchangeable.
Symmetry == Permutations(ShedId)

=============================================================================
