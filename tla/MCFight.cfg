\* Two casters and a monster, two rooms, blows of one point.
CONSTANTS
  mage = mage
  cleric = cleric
  goblin = goblin
  missile = missile
  cure = cure
  light = light
  Heroes = {mage, cleric}
  Monsters = {goblin}
  Spells <- MCSpells
  Kind <- MCKind
  Slots <- MCSlots
  HitPoints <- MCHitPoints
  Rolls = {1}
  Bailey = "bailey"
  Cave = "cave"
  Rooms = {"bailey", "cave"}
SPECIFICATION FairSpec
INVARIANTS SlotsAddUp
PROPERTIES KeepsTheBook DeclaredIsSettled
