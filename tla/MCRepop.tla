------------------------------- MODULE MCRepop -------------------------------
(* Small worlds for the repop manager. *)
EXTENDS Repop

CONSTANTS chief, shaman, grunt, acolyte

\* A tribe with both leaders and a follower, a rival of one tribe only, and a
\* leaderless Shrine cult.
MCPoints == {chief, shaman, grunt, acolyte}
MCTribes == {"kobold", "cult"}
MCTribeOf == [p \in MCPoints |-> IF p = acolyte THEN "cult" ELSE "kobold"]
MCRole == [p \in MCPoints |-> CASE p = chief -> "chief"
                                [] p = shaman -> "shaman"
                                [] OTHER -> "none"]
\* The order of the real delays: standard < halt < Shrine cycle.
MCRespawn == [p \in MCPoints |-> IF p = acolyte THEN 4 ELSE 2]
\* The same with shorter delays, the cultists' still the length of the cycle.
MCShortRespawn == [p \in MCPoints |-> IF p = acolyte THEN 2 ELSE 1]

MCShrinePoints == {acolyte}
MCRival == [t \in MCTribes |-> IF t = "kobold" THEN "cult" ELSE NoRival]
=============================================================================
