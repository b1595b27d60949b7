------------------------------- MODULE Atlas -------------------------------
(***************************************************************************)
(* The static data of the world: the rooms, passages, people, monsters and *)
(* spawn points of every zone, and who gives which quest.  World builds    *)
(* it; names and descriptions, stat blocks, treasure, respawn delays and   *)
(* rewards are left out, keys are kept as they are.                        *)
(*                                                                         *)
(* Links are triples <<room, direction, room>> in the order of the files,  *)
(* walked both ways once expanded; spawns are <<room, template, count>>.   *)
(***************************************************************************)
EXTENDS Integers, Sequences

\* A room's global identity, "<zone>:<key>".
zonekey(zone, key) == <<zone, key>>

REVERSE == [n |-> "s", s |-> "n", e |-> "w", w |-> "e", u |-> "d", d |-> "u",
            ne |-> "sw", sw |-> "ne", nw |-> "se", se |-> "nw"]

\* Each link of a zone followed by its way back.
expand(zone, links) ==
  [i \in 1 .. 2 * Len(links) |->
     LET link == links[(i + 1) \div 2]
         a == zonekey(zone, link[1])
         b == zonekey(zone, link[3])
     IN  IF i % 2 = 1 THEN <<a, link[2], b>> ELSE <<b, REVERSE[link[2]], a>>]

Rooms(zone, keys) == [i \in 1 .. Len(keys) |-> zonekey(zone, keys[i])]

Spawns(zone, spawns) ==
  [i \in 1 .. Len(spawns) |->
     <<zonekey(zone, spawns[i][1]), spawns[i][2], spawns[i][3]>>]

-----------------------------------------------------------------------------
(* The Keep.                                                               *)

KeepRooms ==
  << "main_gate", "gatehouse", "entry_yard", "east_wall", "west_wall",
     "outer_bailey", "provisioner", "armorer", "weaponsmith", "trader",
     "bank", "tavern", "inn", "guild", "chapel_nave", "chapel_vestry",
     "chapel_bell", "fountain_sq", "smith_yard", "stables", "warehouse",
     "bailiff", "inner_gate", "inner_bailey", "audience", "keep_tower" >>

KeepLinks ==
  << <<"main_gate", "n", "gatehouse">>, <<"gatehouse", "n", "entry_yard">>,
     <<"entry_yard", "n", "outer_bailey">>,
     <<"outer_bailey", "e", "east_wall">>,
     <<"outer_bailey", "w", "west_wall">>,
     <<"outer_bailey", "ne", "fountain_sq">>,
     <<"outer_bailey", "nw", "smith_yard">>,
     <<"outer_bailey", "se", "tavern">>,
     <<"outer_bailey", "sw", "provisioner">>,
     <<"outer_bailey", "n", "inner_gate">>, <<"fountain_sq", "n", "inn">>,
     <<"fountain_sq", "s", "bank">>, <<"fountain_sq", "e", "guild">>,
     <<"fountain_sq", "w", "chapel_nave">>,
     <<"fountain_sq", "se", "trader">>, <<"smith_yard", "n", "armorer">>,
     <<"smith_yard", "e", "weaponsmith">>,
     <<"smith_yard", "w", "stables">>, <<"smith_yard", "s", "bailiff">>,
     <<"smith_yard", "nw", "warehouse">>,
     <<"chapel_nave", "n", "chapel_vestry">>,
     <<"chapel_nave", "u", "chapel_bell">>,
     <<"inner_gate", "n", "inner_bailey">>,
     <<"inner_bailey", "e", "audience">>,
     <<"inner_bailey", "u", "keep_tower">> >>

KeepExits ==
  Append(expand("keep", KeepLinks),
         <<zonekey("keep", "main_gate"), "s",
           zonekey("wilderness", "keep_road")>>)

\* The people and the rooms they stand in, then the quest givers among them.
KeepNpcs ==
  << <<"tavernkeeper", "tavern">>, <<"guildmaster", "guild">>,
     <<"castellan", "audience">>, <<"curate", "chapel_nave">>,
     <<"anselm", "chapel_nave">>, <<"maeve", "chapel_vestry">>,
     <<"ortho", "chapel_nave">>, <<"bellan", "chapel_bell">>,
     <<"gisla", "chapel_nave">> >>

KeepGivers == {"guildmaster", "castellan", "curate"}

PRIEST_POOL == <<"anselm", "maeve", "ortho", "bellan", "gisla">>

-----------------------------------------------------------------------------
(* The Wilderness, a map of hexes at coordinates <<x, y>>.                 *)

Hexes ==
  << <<0, 1, "keep_road">>, <<1, 1, "crossroads">>, <<2, 1, "river_ford">>,
     <<3, 1, "hills_low">>, <<4, 1, "raider_camp">>, <<5, 1, "ravine_approach">>,
     <<1, 2, "farmlands">>, <<2, 2, "marsh_edge">>, <<3, 2, "hermit_hut">>,
     <<4, 2, "old_tower">>, <<5, 2, "ravine_mouth">>, <<1, 3, "woods_west">>,
     <<2, 3, "swamp">>, <<4, 3, "overlook">>, <<1, 4, "woods_deep">>,
     <<2, 0, "glade">>, <<3, 0, "hills_high">>, <<4, 0, "sealed_cleft">> >>

\* The strokes of the map: a way east, or north, from a coordinate.
MAPSTR ==
  [east  |-> {<<1, 3>>} \cup ((1 .. 4) \X {2}) \cup ((0 .. 4) \X {1})
               \cup ((2 .. 3) \X {0}),
   north |-> {<<1, 3>>} \cup ({1, 2, 4} \X {2}) \cup ((1 .. 5) \X {1})
               \cup ((2 .. 4) \X {0})]

WildernessRooms ==
  [i \in 1 .. Len(Hexes) |-> zonekey("wilderness", Hexes[i][3])]

\* The passages the map draws, as pairs of rooms, both ways.
HexWays ==
  LET Drawn(a, b) ==
        LET from == <<a[1], a[2]>>
            to   == <<b[1], b[2]>>
        IN  \/ to = <<a[1] + 1, a[2]>> /\ from \in MAPSTR.east
            \/ to = <<a[1], a[2] + 1>> /\ from \in MAPSTR.north
      joined == {hk \in (DOMAIN Hexes) \X (DOMAIN Hexes) :
                   \/ Drawn(Hexes[hk[1]], Hexes[hk[2]])
                   \/ Drawn(Hexes[hk[2]], Hexes[hk[1]])}
  IN  {<<WildernessRooms[hk[1]], WildernessRooms[hk[2]]>> : hk \in joined}

\* The exits out of the map.
WildernessGates ==
  << <<zonekey("wilderness", "keep_road"), "gate", zonekey("keep", "main_gate")>>,
     <<zonekey("wilderness", "ravine_mouth"), "enter",
       zonekey("caves", "ravine_mouth")>>,
     <<zonekey("wilderness", "sealed_cleft"), "cleft",
       zonekey("unknown", "entrance")>> >>

WildernessNpcs == << <<"mad_hermit", "hermit_hut">> >>

WildernessGivers == {"mad_hermit"}

WildernessMobs ==
     ({"giant_spider", "mountain_lion"} \X {"beast"})
  \cup {<<"brigand", "bandit">>, <<"lizard_raider", "lizard">>,
        <<"skeleton", "cult">>}

WildernessSpawns ==
  << <<"woods_west", "giant_spider", 2>>, <<"woods_deep", "giant_spider", 3>>,
     <<"hills_low", "mountain_lion", 2>>, <<"hills_high", "mountain_lion", 1>>,
     <<"hermit_hut", "mountain_lion", 1>>, <<"raider_camp", "brigand", 3>>,
     <<"swamp", "lizard_raider", 2>>, <<"old_tower", "skeleton", 2>> >>

-----------------------------------------------------------------------------
(* The Caves of Chaos: the ravine and the lairs that open on it.           *)

HUB_ROOMS == << "ravine", "ravine_north", "ravine_mid", "ravine_south" >>

HUB_EXITS ==
  Append(expand("caves", << <<"ravine", "n", "ravine_north">>,
                            <<"ravine", "e", "ravine_mid">>,
                            <<"ravine", "s", "ravine_south">> >>),
         <<zonekey("caves", "ravine"), "w",
           zonekey("wilderness", "ravine_mouth")>>)

KoboldRooms ==
  << "kobold_mouth", "kobold_guard", "kobold_kennels", "kobold_warren",
     "kobold_grotto", "kobold_den" >>

KoboldLinks ==
  << <<"ravine_north", "nw", "kobold_mouth">>,
     <<"kobold_mouth", "n", "kobold_guard">>,
     <<"kobold_guard", "e", "kobold_kennels">>,
     <<"kobold_guard", "n", "kobold_warren">>,
     <<"kobold_warren", "w", "kobold_grotto">>,
     <<"kobold_warren", "n", "kobold_den">> >>

KoboldMobs ==
  { "kobold_sentry", "kobold_warrior", "guard_dog",
    "kobold_shaman", "kobold_chief" }
    \X {"kobold"}

KoboldSpawns ==
  << <<"kobold_mouth", "kobold_sentry", 2>>,
     <<"kobold_guard", "kobold_sentry", 2>>,
     <<"kobold_kennels", "guard_dog", 3>>,
     <<"kobold_warren", "kobold_warrior", 4>>,
     <<"kobold_grotto", "kobold_shaman", 1>>,
     <<"kobold_den", "kobold_chief", 1>>,
     <<"kobold_den", "kobold_warrior", 2>> >>

OrcRooms ==
  << "orc_vol_mouth", "orc_vol_guard", "orc_vol_barracks",
     "orc_vol_warrens", "orc_vol_shaman", "orc_vol_war_room",
     "orc_vol_chief", "orc_dec_mouth", "orc_dec_guard", "orc_dec_hall",
     "orc_dec_totem", "orc_dec_shaman", "orc_dec_prison", "orc_dec_chief" >>

OrcLinks ==
  << <<"ravine_north", "n", "orc_vol_mouth">>,
     <<"orc_vol_mouth", "n", "orc_vol_guard">>,
     <<"orc_vol_guard", "e", "orc_vol_barracks">>,
     <<"orc_vol_guard", "n", "orc_vol_warrens">>,
     <<"orc_vol_warrens", "w", "orc_vol_shaman">>,
     <<"orc_vol_warrens", "n", "orc_vol_war_room">>,
     <<"orc_vol_war_room", "e", "orc_vol_chief">>,
     <<"ravine_north", "ne", "orc_dec_mouth">>,
     <<"orc_dec_mouth", "n", "orc_dec_guard">>,
     <<"orc_dec_guard", "n", "orc_dec_hall">>,
     <<"orc_dec_hall", "e", "orc_dec_totem">>,
     <<"orc_dec_hall", "w", "orc_dec_shaman">>,
     <<"orc_dec_hall", "n", "orc_dec_prison">>,
     <<"orc_dec_prison", "e", "orc_dec_chief">> >>

OrcMobs ==
       ({ "orc_vol_warrior", "orc_vol_war_party", "orc_vol_shaman",
         "orc_vol_chief" } \X {"orc_vol"})
  \cup ({ "orc_dec_warrior", "orc_dec_totem_guard",
         "orc_dec_shaman", "orc_dec_chief" } \X {"orc_dec"})

OrcSpawns ==
  << <<"orc_vol_mouth", "orc_vol_warrior", 2>>,
     <<"orc_vol_guard", "orc_vol_warrior", 2>>,
     <<"orc_vol_barracks", "orc_vol_warrior", 4>>,
     <<"orc_vol_warrens", "orc_vol_warrior", 3>>,
     <<"orc_vol_shaman", "orc_vol_shaman", 1>>,
     <<"orc_vol_war_room", "orc_vol_war_party", 3>>,
     <<"orc_vol_chief", "orc_vol_chief", 1>>,
     <<"orc_vol_chief", "orc_vol_warrior", 2>>,
     <<"orc_dec_mouth", "orc_dec_warrior", 2>>,
     <<"orc_dec_guard", "orc_dec_warrior", 2>>,
     <<"orc_dec_hall", "orc_dec_warrior", 4>>,
     <<"orc_dec_totem", "orc_dec_totem_guard", 2>>,
     <<"orc_dec_shaman", "orc_dec_shaman", 1>>,
     <<"orc_dec_prison", "orc_dec_warrior", 1>>,
     <<"orc_dec_chief", "orc_dec_chief", 1>>,
     <<"orc_dec_chief", "orc_dec_warrior", 2>> >>

GoblinRooms ==
  << "goblin_mouth", "goblin_guard", "goblin_pens", "goblin_hall",
     "goblin_grotto", "goblin_warrens", "goblin_throne", "ogre_den" >>

GoblinLinks ==
  << <<"ravine_mid", "ne", "goblin_mouth">>,
     <<"goblin_mouth", "n", "goblin_guard">>,
     <<"goblin_guard", "e", "goblin_pens">>,
     <<"goblin_guard", "n", "goblin_hall">>,
     <<"goblin_hall", "w", "goblin_grotto">>,
     <<"goblin_hall", "e", "goblin_warrens">>,
     <<"goblin_hall", "n", "goblin_throne">>,
     <<"goblin_throne", "e", "ogre_den">> >>

GoblinMobs ==
       ({ "goblin_warrior", "goblin_wolf", "goblin_shaman",
         "goblin_chief" } \X {"goblin"})
  \cup ({ "ogre" } \X {"ogre"})

GoblinSpawns ==
  << <<"goblin_mouth", "goblin_warrior", 2>>,
     <<"goblin_guard", "goblin_warrior", 2>>,
     <<"goblin_pens", "goblin_wolf", 3>>,
     <<"goblin_hall", "goblin_warrior", 5>>,
     <<"goblin_warrens", "goblin_warrior", 3>>,
     <<"goblin_grotto", "goblin_shaman", 1>>,
     <<"goblin_throne", "goblin_chief", 1>>,
     <<"goblin_throne", "goblin_warrior", 2>>, <<"ogre_den", "ogre", 1>> >>

HobgoblinRooms ==
  << "hobgoblin_gate", "hobgoblin_hall", "hobgoblin_barracks",
     "hobgoblin_mess", "hobgoblin_quarters", "hobgoblin_inner",
     "hobgoblin_armory", "hobgoblin_shaman", "hobgoblin_guard",
     "hobgoblin_throne" >>

HobgoblinLinks ==
  << <<"ravine_mid", "ne", "hobgoblin_gate">>,
     <<"hobgoblin_gate", "n", "hobgoblin_hall">>,
     <<"hobgoblin_hall", "e", "hobgoblin_barracks">>,
     <<"hobgoblin_hall", "w", "hobgoblin_mess">>,
     <<"hobgoblin_hall", "n", "hobgoblin_inner">>,
     <<"hobgoblin_mess", "n", "hobgoblin_quarters">>,
     <<"hobgoblin_inner", "e", "hobgoblin_armory">>,
     <<"hobgoblin_inner", "w", "hobgoblin_shaman">>,
     <<"hobgoblin_inner", "n", "hobgoblin_guard">>,
     <<"hobgoblin_guard", "n", "hobgoblin_throne">> >>

HobgoblinMobs ==
  { "hobgoblin_sentry", "hobgoblin_soldier",
    "hobgoblin_elite", "hobgoblin_shaman", "hobgoblin_king" }
    \X {"hobgoblin"}

HobgoblinSpawns ==
  << <<"hobgoblin_gate", "hobgoblin_sentry", 2>>,
     <<"hobgoblin_hall", "hobgoblin_soldier", 2>>,
     <<"hobgoblin_barracks", "hobgoblin_soldier", 4>>,
     <<"hobgoblin_mess", "hobgoblin_soldier", 2>>,
     <<"hobgoblin_inner", "hobgoblin_soldier", 2>>,
     <<"hobgoblin_armory", "hobgoblin_soldier", 1>>,
     <<"hobgoblin_shaman", "hobgoblin_shaman", 1>>,
     <<"hobgoblin_shaman", "hobgoblin_elite", 1>>,
     <<"hobgoblin_guard", "hobgoblin_elite", 3>>,
     <<"hobgoblin_throne", "hobgoblin_king", 1>>,
     <<"hobgoblin_throne", "hobgoblin_elite", 2>> >>

BugbearRooms ==
  << "bugbear_mouth", "bugbear_passage", "bugbear_barracks",
     "bugbear_hold", "bugbear_treasury", "bugbear_shaman", "bugbear_chief" >>

BugbearLinks ==
  << <<"ravine_south", "ne", "bugbear_mouth">>,
     <<"bugbear_mouth", "n", "bugbear_passage">>,
     <<"bugbear_passage", "n", "bugbear_barracks">>,
     <<"bugbear_barracks", "e", "bugbear_hold">>,
     <<"bugbear_barracks", "w", "bugbear_treasury">>,
     <<"bugbear_barracks", "n", "bugbear_shaman">>,
     <<"bugbear_shaman", "e", "bugbear_chief">> >>

BugbearMobs ==
  { "bugbear_mauler", "bugbear_guard", "bugbear_shaman",
    "bugbear_chief" }
    \X {"bugbear"}

BugbearSpawns ==
  << <<"bugbear_mouth", "bugbear_guard", 2>>,
     <<"bugbear_passage", "bugbear_mauler", 2>>,
     <<"bugbear_barracks", "bugbear_mauler", 4>>,
     <<"bugbear_hold", "bugbear_guard", 1>>,
     <<"bugbear_shaman", "bugbear_shaman", 1>>,
     <<"bugbear_chief", "bugbear_chief", 1>>,
     <<"bugbear_chief", "bugbear_mauler", 2>> >>

GnollRooms ==
  << "gnoll_mouth", "gnoll_entry", "gnoll_raider_hall", "gnoll_hyena_pit",
     "gnoll_shaman", "gnoll_chief", "gnoll_owlbear_den" >>

GnollLinks ==
  << <<"ravine_south", "s", "gnoll_mouth">>,
     <<"gnoll_mouth", "n", "gnoll_entry">>,
     <<"gnoll_entry", "n", "gnoll_raider_hall">>,
     <<"gnoll_raider_hall", "e", "gnoll_hyena_pit">>,
     <<"gnoll_raider_hall", "w", "gnoll_shaman">>,
     <<"gnoll_raider_hall", "n", "gnoll_chief">>,
     <<"gnoll_chief", "w", "gnoll_owlbear_den">> >>

GnollMobs ==
       ({ "gnoll_raider", "gnoll_hyena", "gnoll_shaman",
         "gnoll_chief" } \X {"gnoll"})
  \cup ({ "cave_g_owlbear" } \X {"owlbear"})

GnollSpawns ==
  << <<"gnoll_mouth", "gnoll_raider", 2>>,
     <<"gnoll_entry", "gnoll_raider", 2>>,
     <<"gnoll_raider_hall", "gnoll_raider", 4>>,
     <<"gnoll_hyena_pit", "gnoll_hyena", 3>>,
     <<"gnoll_shaman", "gnoll_shaman", 1>>,
     <<"gnoll_chief", "gnoll_chief", 1>>,
     <<"gnoll_chief", "gnoll_raider", 2>>,
     <<"gnoll_owlbear_den", "cave_g_owlbear", 1>> >>

MinotaurRooms ==
  << "minotaur_mouth", "minotaur_west_passage", "minotaur_north_passage",
     "minotaur_crossing", "minotaur_heart", "minotaur_shrine_passage" >>

MinotaurLinks ==
  << <<"ravine_south", "d", "minotaur_mouth">>,
     <<"minotaur_mouth", "w", "minotaur_west_passage">>,
     <<"minotaur_mouth", "n", "minotaur_north_passage">>,
     <<"minotaur_north_passage", "n", "minotaur_crossing">>,
     <<"minotaur_crossing", "w", "minotaur_heart">>,
     <<"minotaur_crossing", "n", "minotaur_shrine_passage">> >>

MinotaurExits ==
  Append(expand("caves", MinotaurLinks),
         <<zonekey("caves", "minotaur_shrine_passage"), "d",
           zonekey("shrine", "shrine_gate")>>)

MinotaurMobs ==
  { "cave_h_minotaur" }
    \X {"minotaur"}

MinotaurSpawns ==
  << <<"minotaur_heart", "cave_h_minotaur", 1>> >>

\* The chiefs who also give quests.
ChiefGivers == {"orc_vol_chief", "orc_dec_chief", "goblin_chief"}

-----------------------------------------------------------------------------
(* The Shrine of Evil Chaos.                                               *)

ShrineRooms ==
  << "shrine_gate", "narthex", "nave_evil", "side_chapel_n",
     "side_chapel_s", "crypt_upper", "crypt_lower", "cells",
     "acolyte_dorm", "adept_study", "river_cavern", "ritual_hall",
     "inner_sanctum", "altar_of_chaos", "boss_lair", "secret_vault" >>

\* Recall fails in the deep rooms.
ShrineNoRecall ==
  { "crypt_lower", "river_cavern", "ritual_hall", "inner_sanctum",
    "altar_of_chaos", "boss_lair", "secret_vault" }

ShrineLinks ==
  << <<"shrine_gate", "n", "narthex">>, <<"narthex", "n", "nave_evil">>,
     <<"nave_evil", "w", "side_chapel_n">>,
     <<"nave_evil", "e", "side_chapel_s">>,
     <<"nave_evil", "d", "crypt_upper">>,
     <<"nave_evil", "n", "acolyte_dorm">>,
     <<"crypt_upper", "d", "crypt_lower">>,
     <<"crypt_upper", "e", "cells">>,
     <<"acolyte_dorm", "e", "adept_study">>,
     <<"acolyte_dorm", "n", "ritual_hall">>,
     <<"adept_study", "s", "secret_vault">>,
     <<"ritual_hall", "d", "river_cavern">>,
     <<"ritual_hall", "n", "inner_sanctum">>,
     <<"inner_sanctum", "n", "altar_of_chaos">>,
     <<"inner_sanctum", "e", "boss_lair">> >>

\* Mutant: the sanctum's link is written south, over the way back to the dorm.
CrossedExits ==
  [Append(expand("shrine", ShrineLinks),
          <<zonekey("shrine", "shrine_gate"), "u",
            zonekey("caves", "minotaur_shrine_passage")>>)
   EXCEPT ![25][2] = "s"]

ShrineExits ==
  Append(expand("shrine", ShrineLinks),
         <<zonekey("shrine", "shrine_gate"), "u",
           zonekey("caves", "minotaur_shrine_passage")>>)

ShrineMobs ==
  { "cult_sentry", "cult_acolyte", "shrine_skeleton",
    "shrine_zombie", "shrine_wight", "adept_acolyte",
    "the_adept" }
    \X {"cult"}

ShrineSpawns ==
  << <<"narthex", "cult_sentry", 2>>, <<"nave_evil", "cult_acolyte", 3>>,
     <<"side_chapel_n", "cult_acolyte", 1>>,
     <<"side_chapel_s", "cult_acolyte", 1>>,
     <<"crypt_upper", "shrine_skeleton", 3>>,
     <<"crypt_upper", "shrine_zombie", 2>>,
     <<"crypt_lower", "shrine_wight", 2>>,
     <<"acolyte_dorm", "cult_acolyte", 2>>,
     <<"acolyte_dorm", "adept_acolyte", 2>>,
     <<"adept_study", "adept_acolyte", 1>>,
     <<"ritual_hall", "cult_acolyte", 2>>,
     <<"ritual_hall", "adept_acolyte", 1>>,
     <<"inner_sanctum", "the_adept", 1>>,
     <<"inner_sanctum", "cult_sentry", 2>> >>

-----------------------------------------------------------------------------
(* The quest catalog: <<quest, the faction whose death counts, the quest    *)
(* to be done first>>; "deed" where no kill is asked, "none" where the      *)
(* quest stands alone.                                                      *)

GuildmasterQuests ==
  { <<"g_kobold_cull", "kobold", "none">>, <<"g_orc_vile", "orc_vol", "none">>,
    <<"g_orc_dec", "orc_dec", "none">>, <<"g_owlbear", "owlbear", "none">>,
    <<"g_bugbear_chief", "bugbear", "none">>, <<"g_gnoll_chief", "gnoll", "none">>,
    <<"g_hobgoblin_king", "hobgoblin", "none">>,
    <<"g_minotaur", "minotaur", "none">> }

CastellanQuests ==
  { <<"c_scout_caves", "deed", "none">>, <<"c_rescue_soldier", "deed", "none">>,
    <<"c_expose_priest", "deed", "none">>,
    <<"c_destroy_shrine", "deed", "g_minotaur">> }

CurateQuests == {"cu_holy_water", "cu_suspicions", "cu_bless_blades"}
                  \X {"deed"} \X {"none"}

ProvisionerQuests == {"p_caravan", "p_supplies"} \X {"deed"} \X {"none"}

HermitQuests ==
  { <<"h_rare_herb", "deed", "p_supplies">>,
    <<"h_lions", "beast", "p_supplies">> }

ChiefQuests ==
  [ orc_vol_chief |-> {<<"t_vol_vs_dec", "orc_dec", "none">>},
    orc_dec_chief |-> {<<"t_dec_vs_vol", "orc_vol", "none">>},
    goblin_chief  |-> {<<"t_gob_vs_gnoll", "gnoll", "none">>,
                       <<"t_bribe_ogre", "deed", "none">>} ]

SpyQuests ==
  { <<"sp_package", "deed", "none">>, <<"sp_reagent", "deed", "sp_package">>,
    <<"sp_minister", "deed", "sp_reagent">> }

quests_from(giver) ==
  CASE giver = "guildmaster"          -> GuildmasterQuests
    [] giver = "castellan"            -> CastellanQuests
    [] giver = "curate"               -> CurateQuests
    [] giver = "provisioner"          -> ProvisionerQuests
    [] giver = "mad_hermit"           -> HermitQuests
    [] giver \in DOMAIN ChiefQuests   -> ChiefQuests[giver]
    [] giver = "spy"                  -> SpyQuests
=============================================================================
