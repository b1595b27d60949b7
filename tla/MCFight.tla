------------------------------- MODULE MCFight -------------------------------
(* A magic-user, a cleric and one goblin. *)
EXTENDS Fight

CONSTANTS mage, cleric, goblin, missile, cure, light

MCSpells == {missile, cure, light}
MCKind == [s \in MCSpells |-> CASE s = missile -> "harm" [] s = cure -> "heal" [] s = light -> "sense"]
MCSlots == [c \in {mage, cleric} |->
               [s \in MCSpells |-> IF (c = mage) = (s = missile) THEN 1 ELSE 0]]
MCHitPoints == [c \in {mage, cleric, goblin} |-> IF c = mage THEN 2 ELSE 1]
=============================================================================
