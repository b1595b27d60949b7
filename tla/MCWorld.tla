------------------------------ MODULE MCWorld ------------------------------
(* The world of the zone files, built with one mishap. *)
EXTENDS World, Atlas

MCTribes == <<"bugbear", "gnoll", "goblin", "hobgoblin", "kobold", "minotaur", "orc">>

MCRoomsOf ==
  [ keep       |-> Rooms("keep", KeepRooms),
    wilderness |-> WildernessRooms,
    hub        |-> Rooms("caves", HUB_ROOMS),
    bugbear    |-> Rooms("caves", BugbearRooms),
    gnoll      |-> Rooms("caves", GnollRooms),
    goblin     |-> Rooms("caves", GoblinRooms),
    hobgoblin  |-> Rooms("caves", HobgoblinRooms),
    kobold     |-> Rooms("caves", KoboldRooms),
    minotaur   |-> Rooms("caves", MinotaurRooms),
    orc        |-> Rooms("caves", OrcRooms),
    shrine     |-> Rooms("shrine", ShrineRooms) ]

MCExitsOf ==
  [ keep       |-> KeepExits,
    wilderness |-> << >>,
    hub        |-> HUB_EXITS,
    bugbear    |-> expand("caves", BugbearLinks),
    gnoll      |-> expand("caves", GnollLinks),
    goblin     |-> expand("caves", GoblinLinks),
    hobgoblin  |-> expand("caves", HobgoblinLinks),
    kobold     |-> expand("caves", KoboldLinks),
    minotaur   |-> MinotaurExits,
    orc        |-> expand("caves", OrcLinks),
    shrine     |-> ShrineExits ]

Placed(zone, people) ==
  [i \in 1 .. Len(people) |-> <<people[i][1], zonekey(zone, people[i][2])>>]

MCNpcsOf ==
  [p \in DOMAIN MCRoomsOf |->
     CASE p = "keep"       -> Placed("keep", KeepNpcs)
       [] p = "wilderness" -> Placed("wilderness", WildernessNpcs)
       [] OTHER            -> << >>]

MCSpawnsOf ==
  [ keep       |-> << >>,
    wilderness |-> Spawns("wilderness", WildernessSpawns),
    hub        |-> << >>,
    bugbear    |-> Spawns("caves", BugbearSpawns),
    gnoll      |-> Spawns("caves", GnollSpawns),
    goblin     |-> Spawns("caves", GoblinSpawns),
    hobgoblin  |-> Spawns("caves", HobgoblinSpawns),
    kobold     |-> Spawns("caves", KoboldSpawns),
    minotaur   |-> Spawns("caves", MinotaurSpawns),
    orc        |-> Spawns("caves", OrcSpawns),
    shrine     |-> Spawns("shrine", ShrineSpawns) ]

MCTemplates ==
  WildernessMobs \cup BugbearMobs \cup GnollMobs \cup GoblinMobs \cup HobgoblinMobs
    \cup KoboldMobs \cup MinotaurMobs \cup OrcMobs \cup ShrineMobs

MCRecallPoint == zonekey("keep", "inner_bailey")
MCAltarRoom == zonekey("shrine", "altar_of_chaos")
MCRavine == zonekey("caves", "ravine")
MCRavineMouth == zonekey("caves", "ravine_mouth")
MCWildMouth == zonekey("wilderness", "ravine_mouth")
MCNoRecall == {zonekey("shrine", r) : r \in ShrineNoRecall}
MCGivers == KeepGivers \cup WildernessGivers \cup ChiefGivers
MCQuestsOf == [g \in MCGivers |-> quests_from(g)]
=============================================================================
