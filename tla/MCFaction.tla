----------------------------- MODULE MCFaction ------------------------------
(* Small worlds for the faction manager. *)
EXTENDS Faction

CONSTANTS aid, feud, bribe, spy

\* A cfg has no negative numerals.
Neg1 == -1
Neg2 == -2
Neg3 == -3
Neg4 == -4

\* Two allies, and the Cult at odds with one of them.  The numbers are scaled
\* down: what matters is the order of the thresholds and that no event is wider
\* than a band.
MCFactions == {"goblin", "ogre", "cult"}
MCInitial == [pair \in {{"goblin", "ogre"}, {"goblin", "cult"}, {"ogre", "cult"}} |->
                CASE pair = {"goblin", "ogre"} -> -2
                  [] pair = {"goblin", "cult"} -> 2
                  [] OTHER -> 0]
MCQuests == {aid, feud, bribe, spy}
MCHarms == [q \in MCQuests |-> IF q = feud THEN "cult" ELSE Nobody]
MCAids == [q \in MCQuests |-> IF q = aid THEN "goblin" ELSE Nobody]
MCAgainst == [q \in MCQuests |-> IF q = feud THEN {"goblin", "cult"} ELSE {}]
MCBreaks == [q \in MCQuests |-> IF q = bribe THEN {"goblin", "ogre"} ELSE {}]

\* The numbers of world/factions/config.py, where the goblins and the ogre are
\* allied at -10.
Neg8 == -8
Neg9 == -9
Neg10 == -10
Neg14 == -14
Neg29 == -29
Neg31 == -31
RealFactions == {"goblin", "ogre"}
RealInitial == [pair \in {{"goblin", "ogre"}} |-> -10]
RealQuests == {aid, bribe}
RealHarms == [q \in RealQuests |-> Nobody]
RealAids == [q \in RealQuests |-> IF q = aid THEN "goblin" ELSE Nobody]
RealAgainst == [q \in RealQuests |-> {}]
RealBreaks == [q \in RealQuests |-> IF q = bribe THEN {"goblin", "ogre"} ELSE {}]
=============================================================================
