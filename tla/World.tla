-------------------------------- MODULE World --------------------------------
(***************************************************************************)
(* The building of the world: the container's entry point, the server's    *)
(* first start, the build orchestrator with the zone builders it runs, and *)
(* the season's rebuild.                                                   *)
(*                                                                         *)
(* Nothing wraps a build in a transaction: every record is written on its  *)
(* own.  A stage of the plan is one action that writes all its records, or *)
(* only the first n of them when the process is killed there or an         *)
(* exception ends the build.  What a record writes (an object and its tag) *)
(* is taken as one write.  Evennia runs the initial setup again after a    *)
(* kill and never again once the hook has returned or raised.              *)
(***************************************************************************)
EXTENDS Integers, Sequences, FiniteSets, Functions

CONSTANTS
    Tribes,      \* the cave tribes in the order discovery sorts them
    RoomsOf,     \* part of the world -> its rooms, in order
    ExitsOf,     \* part -> its exits <<room, direction, room>>, in order
    NpcsOf,      \* part -> its people <<name, room>>, in order
    SpawnsOf,    \* part -> its spawn records <<room, template, count>>, in order
    Gates,       \* the exits the Wilderness hook wires itself, in order
    PriestPool,  \* names of the chapel staff
    RecallPoint, \* the room characters recall to
    AltarRoom,   \* the room of the altar
    Ravine,      \* the ravine floor
    RavineMouth, \* the other name it goes by
    WildMouth,   \* the Wilderness room across from it
    Templates,   \* the mob templates of every zone, <<template, faction>>
    GridWays,    \* the passages of the Wilderness map, pairs of rooms
    NoRecall,    \* rooms in which recall fails
    Givers,      \* people and templates that carry a giver key
    QuestsOf,    \* giver -> quests <<quest, faction to kill or "deed", prerequisite>>
    Baseline,    \* objects Evennia itself creates
    Populated,   \* objects the entry point takes for a built world, less one
    MaxMishaps   \* bound: kills and exceptions in a behaviour

Regions == {"keep", "wilderness", "hub", "shrine"} \cup Range(Tribes)

\* _aggregate refuses a template key used twice, spawn_points an unknown one.
ASSUME TemplatesAssumption ==
    /\ \A s, t \in Templates : s[1] = t[1] => s = t
    /\ \A p \in Regions : \A s \in Range(SpawnsOf[p]) : \E t \in Templates : t[1] = s[2]

ASSUME WorldAssumption ==
    /\ IsInjective(Tribes) /\ Tribes \in Seq(STRING)
    /\ Baseline \in Nat /\ Populated \in Nat /\ MaxMishaps \in Nat

Known(p) == Range(RoomsOf[p])
AllRooms == UNION {Known(p) : p \in Regions}
RoomIds == AllRooms \cup {RavineMouth}

\* What the zone files have in common.
ASSUME ZonesAssumption ==
    /\ \A f \in {RoomsOf, ExitsOf, NpcsOf, SpawnsOf} :
          DOMAIN f = Regions /\ \A p \in Regions : f[p] \in Seq(Range(f[p]))
    /\ Gates \in Seq(Range(Gates)) /\ PriestPool \in Seq(Range(PriestPool))
    \* the rooms the builders name are there
    /\ RecallPoint \in Known("keep") /\ AltarRoom \in Known("shrine")
    /\ Ravine \in Known("hub") /\ WildMouth \in Known("wilderness")
    \* people and spawns are in rooms of their own region; the hub has neither
    /\ \A p \in Regions : /\ \A m \in Range(NpcsOf[p]) : m[2] \in Known(p)
                          /\ \A s \in Range(SpawnsOf[p]) : s[1] \in Known(p)
    /\ NpcsOf["hub"] = << >> /\ NpcsOf["shrine"] = << >> /\ SpawnsOf["hub"] = << >>
    /\ \A name \in Range(PriestPool) : \E m \in Range(NpcsOf["keep"]) : m[1] = name
    \* the Keep and the Wilderness lead into each other, and on by the ravine alone
    /\ ExitsOf["wilderness"] = << >>
    /\ \A e \in Range(ExitsOf["keep"]) \cup Range(Gates) :
          \/ {e[1], e[3]} \subseteq Known("keep") \cup Known("wilderness")
          \/ e = <<WildMouth, "enter", RavineMouth>>
          \/ ~({e[1], e[3]} \subseteq RoomIds)
    /\ <<WildMouth, "enter", RavineMouth>> \in Range(Gates) \ Range(ExitsOf["keep"])
    \* no two gates are one exit
    /\ \A g, h \in Range(Gates) : <<g[1], g[2]>> = <<h[1], h[2]>> => g = h

\* The per-mob spawn ids of a part: room, template and a running index.
spawn_points(p) ==
    LET spawns == SpawnsOf[p]
        Before(k) == {j \in 1 .. (k - 1) : /\ spawns[j][1] = spawns[k][1]
                                           /\ spawns[j][2] = spawns[k][2]}
        seen(k) == FoldFunctionOnSet(+, 0, [j \in DOMAIN spawns |-> spawns[j][3]],
                                     Before(k))
    IN  UNION {{<<spawns[k][1], spawns[k][2], seen(k) + i>> :
                  i \in 0 .. (spawns[k][3] - 1)} : k \in DOMAIN spawns}

PointsOf == [p \in Regions |-> spawn_points(p)]
AllPoints == UNION Range(PointsOf)

-----------------------------------------------------------------------------
(* The plan of build_all, stage by stage.                                  *)

Stage(op, part) == [op |-> op, at |-> part]

KeepBuild == << Stage("rooms", "keep"), Stage("exits", "keep"),
                Stage("recall", "keep"), Stage("npcs", "keep"),
                Stage("pool", "keep") >>

\* The Wilderness settles the Keep's gate, deferred while it was missing.
WildernessBuild == << Stage("grid", "wilderness"), Stage("tags", "wilderness"),
                      Stage("gates", "wilderness"), Stage("exits", "keep"),
                      Stage("npcs", "wilderness") >>

build_tribe(t) == << Stage("rooms", t), Stage("exits", t), Stage("npcs", t),
                     Stage("register", t) >>

CavesBuild == << Stage("rooms", "hub"), Stage("exits", "hub"),
                 Stage("link", "hub") >>
              \o [i \in 1 .. 4 * Len(Tribes) |->
                    build_tribe(Tribes[(i + 3) \div 4])[((i - 1) % 4) + 1]]

ShrineBuild == << Stage("rooms", "shrine"), Stage("exits", "shrine"),
                  Stage("altar", "shrine") >>

\* Mutant: the second pass over the exits of the Caves is forgotten.
NoSecondPass == << >>

\* The whole of caves.EXITS once more: the way down to the Shrine.
CavesExitsAgain == << Stage("exits", "hub") >>
                   \o [i \in 1 .. Len(Tribes) |-> Stage("exits", Tribes[i])]

build_all == << Stage("managers", "keep") >>
             \o KeepBuild \o WildernessBuild \o CavesBuild \o ShrineBuild
             \o CavesExitsAgain
             \o << Stage("register", "keep"), Stage("register", "wilderness"),
                   Stage("register", "shrine"), Stage("populate", "keep") >>

\* The order in which the points are registered, and so populated.
Registry == Tribes \o <<"keep", "wilderness", "shrine">>

-----------------------------------------------------------------------------
VARIABLES
    entry,     \* the entry point: off, ready, verifying, serving or failed
    account,   \* the superuser exists
    server,    \* off, building (first setup), rebuilding (season) or up
    stage,     \* the stage of build_all under way, 0 outside a build
    settled,   \* Evennia's mark that the initial setup is over
    ended,     \* the last build began and ran to its end
    mishaps,   \* kills and exceptions so far
    managers,  \* the four global managers exist
    rooms,     \* identities tagged on built rooms
    exits,     \* tagged exits <<room, direction, destination>>
    grid,      \* the Wilderness map is spawned
    npcs,      \* tagged people <<name, room>>
    recall,    \* the recall point is tagged
    pool,      \* names tagged as chapel staff
    altar,     \* the altar stands
    points,    \* spawn points in the repop registry
    mobs       \* spawn points with a live tagged instance

control == <<entry, account, server, stage, settled, ended, mishaps>>
database == <<managers, rooms, exits, grid, npcs, recall, pool, altar, points, mobs>>
worldVars == <<control, database>>

-----------------------------------------------------------------------------
Building == server \in {"building", "rebuilding"}

At(op) == Building /\ build_all[stage].op = op

Here == build_all[stage].at

\* The last stage done: the hook returns, the setup is over.
Finish ==
    IF stage = Len(build_all)
    THEN /\ stage' = 0
         /\ server' = "up"
         /\ settled' = TRUE
         /\ ended' = TRUE
    ELSE /\ stage' = stage + 1
         /\ UNCHANGED <<server, settled, ended>>

\* An exception leaves the hook; the setup counts as over all the same.
Traceback ==
    /\ server' = "up"
    /\ stage' = 0
    /\ settled' = TRUE
    /\ UNCHANGED <<entry, ended>>

Killed ==
    /\ entry' = "off"
    /\ server' = "off"
    /\ stage' = 0
    /\ UNCHANGED <<settled, ended>>

\* How many of its len records a stage may have written when it ends.
Ends(len) == IF mishaps < MaxMishaps THEN 0 .. len ELSE {len}

\* A stage that has written n of its len records.
Wrote(n, len) ==
    \/ /\ n = len
       /\ Finish
       /\ UNCHANGED <<entry, account, mishaps>>
    \/ /\ n < len
       /\ mishaps' = mishaps + 1
       /\ Traceback \/ Killed
       /\ UNCHANGED account

-----------------------------------------------------------------------------
(* The builders.                                                           *)

_ensure_managers ==
    /\ At("managers")
    /\ \E n \in Ends(1) : /\ managers' = (managers \/ n = 1)
                         /\ Wrote(n, 1)
    /\ UNCHANGED <<rooms, exits, grid, npcs, recall, pool, altar, points, mobs>>

\* Mutant: a part with any room in the database is taken for built.
RoomsIfNone ==
    /\ At("rooms")
    /\ LET batch == IF Known(Here) \cap rooms = {} THEN RoomsOf[Here] ELSE << >>
       IN  \E n \in Ends(Len(batch)) :
              /\ rooms' = rooms \cup {batch[i] : i \in 1 .. n}
              /\ Wrote(n, Len(batch))
    /\ UNCHANGED <<managers, exits, grid, npcs, recall, pool, altar, points, mobs>>

build_rooms ==
    /\ At("rooms")
    /\ LET batch == RoomsOf[Here]
       IN  \E n \in Ends(Len(batch)) :
              /\ rooms' = rooms \cup {batch[i] : i \in 1 .. n}
              /\ Wrote(n, Len(batch))
    /\ UNCHANGED <<managers, exits, grid, npcs, recall, pool, altar, points, mobs>>

\* Two tags may name one room.
Resolve(room) == IF room = RavineMouth THEN Ravine ELSE room

Identity(e) == <<e[1], e[2]>>

\* What the first n records write, in turn: one with an end missing is skipped,
\* and of two with one identity the later wins.
Wired(batch, n) ==
    LET Live(e) == e[1] \in rooms /\ e[3] \in rooms
    IN  {<<batch[i][1], batch[i][2], Resolve(batch[i][3])>> : i \in
           {i \in 1 .. n :
              /\ Live(batch[i])
              /\ \A j \in (i + 1) .. n :
                   Identity(batch[j]) = Identity(batch[i]) => ~Live(batch[j])}}

\* Mutant: an exit that exists is left leading where it does.
ExitsIfNone ==
    /\ At("exits")
    /\ LET batch == ExitsOf[Here]
       IN  \E n \in Ends(Len(batch)) : \E wired \in {Wired(batch, n)} :
              /\ exits' = exits \cup
                            {w \in wired : \A e \in exits : Identity(w) # Identity(e)}
              /\ Wrote(n, Len(batch))
    /\ UNCHANGED <<managers, rooms, grid, npcs, recall, pool, altar, points, mobs>>

\* An exit that exists is moved to its new destination.
build_exits ==
    /\ At("exits")
    /\ LET batch == ExitsOf[Here]
       IN  \E n \in Ends(Len(batch)) : \E wired \in {Wired(batch, n)} :
              /\ exits' = {e \in exits : \A w \in wired : Identity(w) # Identity(e)}
                            \cup wired
              /\ Wrote(n, Len(batch))
    /\ UNCHANGED <<managers, rooms, grid, npcs, recall, pool, altar, points, mobs>>

tag_recall_point ==
    /\ At("recall")
    /\ \E n \in Ends(1) : /\ recall' = (recall \/ (n = 1 /\ RecallPoint \in rooms))
                         /\ Wrote(n, 1)
    /\ UNCHANGED <<managers, rooms, exits, grid, npcs, pool, altar, points, mobs>>

build_npcs ==
    /\ At("npcs")
    /\ LET batch == NpcsOf[Here]
       IN  \E n \in Ends(Len(batch)) :
              /\ npcs' = npcs \cup {batch[i] : i \in {k \in 1 .. n : batch[k][2] \in rooms}}
              /\ Wrote(n, Len(batch))
    /\ UNCHANGED <<managers, rooms, exits, grid, recall, pool, altar, points, mobs>>

tag_priest_pool ==
    /\ At("pool")
    /\ \E n \in Ends(Len(PriestPool)) :
          /\ pool' = pool \cup {PriestPool[i] : i \in
                                  {k \in 1 .. n : \E m \in npcs : m[1] = PriestPool[k]}}
          /\ Wrote(n, Len(PriestPool))
    /\ UNCHANGED <<managers, rooms, exits, grid, npcs, recall, altar, points, mobs>>

\* The xyzgrid contrib spawns the map; the game looks its rooms up by the tags
\* it gives them next.
spawn_grid ==
    /\ At("grid")
    /\ \E n \in Ends(1) : /\ grid' = (grid \/ n = 1)
                         /\ Wrote(n, 1)
    /\ UNCHANGED <<managers, rooms, exits, npcs, recall, pool, altar, points, mobs>>

_tag_rooms ==
    /\ At("tags")
    /\ LET batch == RoomsOf["wilderness"]
       IN  \E n \in Ends(Len(batch)) :
              /\ rooms' = IF grid THEN rooms \cup {batch[i] : i \in 1 .. n} ELSE rooms
              /\ Wrote(n, Len(batch))
    /\ UNCHANGED <<managers, exits, grid, npcs, recall, pool, altar, points, mobs>>

\* An exit these two hooks find is left as it is.
Unwired(e) == \A x \in exits : Identity(x) # Identity(e)

_wire_interzone_exits ==
    /\ At("gates")
    /\ \E n \in Ends(Len(Gates)) :
          /\ exits' = exits \cup
                {<<Gates[i][1], Gates[i][2], Resolve(Gates[i][3])>> : i \in
                   {k \in 1 .. n : /\ Gates[k][1] \in rooms
                                   /\ Gates[k][3] \in rooms
                                   /\ Unwired(Gates[k])}}
          /\ Wrote(n, Len(Gates))
    /\ UNCHANGED <<managers, rooms, grid, npcs, recall, pool, altar, points, mobs>>

\* Mutant: the way in is kept under the mouth's name, not the room it tags.
LinkToMouth ==
    /\ At("link")
    /\ LET enter == <<WildMouth, "enter", RavineMouth>>
       IN  \E n \in Ends(2) :
              /\ rooms' = IF n >= 1 /\ Ravine \in rooms
                          THEN rooms \cup {RavineMouth} ELSE rooms
              /\ exits' = IF n = 2 /\ Unwired(enter) THEN exits \cup {enter} ELSE exits
              /\ Wrote(n, 2)
    /\ UNCHANGED <<managers, grid, npcs, recall, pool, altar, points, mobs>>

_link_to_wilderness ==
    /\ At("link")
    /\ LET enter == <<WildMouth, "enter", Ravine>>
       IN  \E n \in Ends(2) :
              /\ rooms' = IF n >= 1 /\ Ravine \in rooms
                          THEN rooms \cup {RavineMouth} ELSE rooms
              /\ exits' = IF /\ n = 2
                             /\ {Ravine, WildMouth} \subseteq rooms
                             /\ Unwired(enter)
                          THEN exits \cup {enter} ELSE exits
              /\ Wrote(n, 2)
    /\ UNCHANGED <<managers, grid, npcs, recall, pool, altar, points, mobs>>

build_object ==
    /\ At("altar")
    /\ \E n \in Ends(1) : /\ altar' = (altar \/ (n = 1 /\ AltarRoom \in rooms))
                         /\ Wrote(n, 1)
    /\ UNCHANGED <<managers, rooms, exits, grid, npcs, recall, pool, points, mobs>>

\* The registry is one Attribute and is saved whole.
register_zone ==
    /\ At("register")
    /\ \E n \in Ends(1) :
          /\ points' = IF managers /\ n = 1 THEN points \cup PointsOf[Here]
                                            ELSE points
          /\ Wrote(n, 1)
    /\ UNCHANGED <<managers, rooms, exits, grid, npcs, recall, pool, altar, mobs>>

\* A live mob for each point whose room is built, one registered part after
\* the other.
populate ==
    /\ At("populate")
    /\ \E n \in Ends(Len(Registry)) :
          /\ mobs' = mobs \cup
                {p \in points : /\ p[1] \in rooms
                                /\ \E i \in 1 .. n : p \in PointsOf[Registry[i]]}
          /\ Wrote(n, Len(Registry))
    /\ UNCHANGED <<managers, rooms, exits, grid, npcs, recall, pool, altar, points>>

BuildStep ==
    \/ _ensure_managers \/ build_rooms \/ build_exits \/ tag_recall_point
    \/ build_npcs \/ tag_priest_pool \/ spawn_grid \/ _tag_rooms
    \/ _wire_interzone_exits \/ _link_to_wilderness \/ build_object
    \/ register_zone \/ populate

-----------------------------------------------------------------------------
(* The entry point and the season.                                         *)

\* Migrations, then the superuser, before the server ever starts.
ensure_superuser ==
    /\ entry = "off"
    /\ entry' = "ready"
    /\ account' = TRUE
    /\ UNCHANGED <<server, stage, settled, ended, mishaps, database>>

\* at_initial_setup, for the first account, unless the setup is over.
Start ==
    /\ entry = "ready"
    /\ entry' = "verifying"
    /\ IF settled \/ ~account
       THEN /\ server' = "up"
            /\ UNCHANGED <<stage, ended>>
       ELSE /\ server' = "building"
            /\ stage' = 1
            /\ ended' = FALSE
    /\ UNCHANGED <<account, settled, mishaps, database>>

Objects == Baseline + Cardinality(rooms \ {RavineMouth}) + Cardinality(exits)
             + Cardinality(npcs) + Cardinality(mobs) + (IF altar THEN 1 ELSE 0)

\* The check runs beside the server and is content with a few objects.
VerifyPasses ==
    /\ entry = "verifying"
    /\ Objects > Populated
    /\ entry' = "serving"
    /\ UNCHANGED <<account, server, stage, settled, ended, mishaps, database>>

\* Two minutes without them: die, and the container with it.  A build may
\* also just have been too slow.
VerifyFails ==
    /\ entry = "verifying"
    /\ Objects <= Populated
    /\ IF Building THEN mishaps < MaxMishaps /\ mishaps' = mishaps + 1
                   ELSE UNCHANGED mishaps
    /\ entry' = "failed"
    /\ server' = "off"
    /\ stage' = 0
    /\ UNCHANGED <<account, settled, ended, database>>

\* Compose restarts a container that ended by itself.
Restart ==
    /\ entry = "failed"
    /\ entry' = "off"
    /\ UNCHANGED <<account, server, stage, settled, ended, mishaps, database>>

\* Killed or stopped between two builds.
Stop ==
    /\ server = "up"
    /\ mishaps < MaxMishaps
    /\ mishaps' = mishaps + 1
    /\ Killed
    /\ UNCHANGED <<account, database>>

\* Mutant: the season puts its mobs back and builds nothing.
RepopulateOnly ==
    /\ server = "up" /\ entry = "serving"
    /\ managers
    /\ mobs' = {}
    /\ server' = "rebuilding"
    /\ stage' = Len(build_all)
    /\ ended' = FALSE
    /\ UNCHANGED <<entry, account, settled, mishaps, managers, rooms, exits, grid,
                   npcs, recall, pool, altar, points>>

\* The season's end: despawn_all, then build_all.
rebuild_world ==
    /\ server = "up" /\ entry = "serving"
    /\ managers
    /\ mobs' = {}
    /\ server' = "rebuilding"
    /\ stage' = 1
    /\ ended' = FALSE
    /\ UNCHANGED <<entry, account, settled, mishaps, managers, rooms, exits, grid,
                   npcs, recall, pool, altar, points>>

WorldInit ==
    /\ entry = "off" /\ account = FALSE /\ server = "off" /\ stage = 0
    /\ settled = FALSE /\ ended = FALSE /\ mishaps = 0
    /\ managers = FALSE /\ grid = FALSE /\ recall = FALSE /\ altar = FALSE
    /\ rooms = {} /\ exits = {} /\ npcs = {} /\ pool = {}
    /\ points = {} /\ mobs = {}

EntryStep == ensure_superuser \/ Start \/ VerifyPasses \/ VerifyFails \/ Restart

WorldNext == BuildStep \/ EntryStep \/ Stop \/ rebuild_world

\* The shell and the server go on by themselves; seasons end.
Fairness ==
    /\ WF_worldVars(BuildStep)
    /\ WF_worldVars(EntryStep)
    /\ WF_worldVars(rebuild_world)

WorldSpec == WorldInit /\ [][WorldNext]_worldVars /\ Fairness

-----------------------------------------------------------------------------
(* Properties.                                                             *)

Records == Range(Gates) \cup UNION {Range(ExitsOf[p]) : p \in Regions}

\* The exit that a record asks for, and whether it has two ends to join.
Way(e) == <<e[1], e[2], Resolve(e[3])>>
Joins(e) == {e[1], e[3]} \subseteq RoomIds

Declared == {Way(e) : e \in Records}

People == UNION {Range(NpcsOf[p]) : p \in Regions}

WorldTypeOK ==
    /\ entry \in {"off", "ready", "verifying", "serving", "failed"}
    /\ server \in {"off", "building", "rebuilding", "up"}
    /\ stage \in 0 .. Len(build_all) /\ (stage > 0 <=> Building)
    /\ mishaps \in 0 .. MaxMishaps
    /\ {account, settled, ended, managers, grid, recall, altar} \subseteq BOOLEAN
    /\ rooms \subseteq RoomIds
    /\ exits \subseteq Declared
    /\ npcs \subseteq People
    /\ pool \subseteq Range(PriestPool)
    /\ points \subseteq AllPoints
    /\ mobs \subseteq points

ExitStages == {k \in DOMAIN build_all : build_all[k].op = "exits"}

Positions(k) == DOMAIN ExitsOf[build_all[k].at]

Record(k, i) == ExitsOf[build_all[k].at][i]

\* The exits about which a part has a record with two ends.
ClaimsOf == [p \in Regions |-> {Identity(e) : e \in {f \in Range(ExitsOf[p]) : Joins(f)}}]

\* No record that the plan comes to after the i-th of stage k says where this
\* exit leads.
LastWord(k, i) ==
    /\ Joins(Record(k, i))
    /\ \A m \in Positions(k) :
          m > i /\ Joins(Record(k, m)) => Identity(Record(k, m)) # Identity(Record(k, i))
    /\ \A j \in ExitStages :
          j > k => Identity(Record(k, i)) \notin ClaimsOf[build_all[j].at]

\* The exits of the world: each as the last record about it says, and a gate
\* only where no zone file knows better.
BuiltExits ==
    (UNION {{Way(Record(k, i)) : i \in {m \in Positions(k) : LastWord(k, m)}} : k \in ExitStages})
    \cup {Way(g) : g \in {h \in Range(Gates) :
             Joins(h) /\ \A p \in Regions : Identity(h) \notin ClaimsOf[p]}}

\* Every room, every person, every spawn point with its mob, and every exit,
\* leading where the zone files say.
Whole ==
    /\ managers /\ grid /\ recall /\ altar
    /\ rooms = RoomIds
    /\ exits = BuiltExits
    /\ npcs = People
    /\ pool = Range(PriestPool)
    /\ points = AllPoints
    /\ mobs = AllPoints

\* A build that runs to its end leaves the one world the zone files describe,
\* however many builds were cut short before it and wherever: nothing half
\* built is taken for built, every exit deferred by the build order is settled
\* by the end, and none is left leading where an earlier pass had it lead.
WholeAfterBuild == ended => Whole

(* What makes it inductive. *)

\* Stage k has this stage of the plan behind it.
Has(k, op, part) == \E j \in 1 .. (k - 1) : build_all[j] = Stage(op, part)

\* Stage j lays the rooms of a region.
Lays(j, p) ==
    \/ build_all[j] = Stage("rooms", p)
    \/ /\ p = "wilderness"
       /\ build_all[j] = Stage("tags", p)
       /\ Has(j, "grid", p)

NamesMouth(j) == build_all[j] = Stage("link", "hub") /\ Has(j, "rooms", "hub")

\* The rooms that stand when stage k begins, whatever went before this build.
RoomsBy(k) ==
    {r \in RoomIds : \E j \in 1 .. (k - 1) :
        \/ \E p \in Regions : Lays(j, p) /\ r \in Known(p)
        \/ NamesMouth(j) /\ r = RavineMouth}

\* What stage k leaves behind.
Done(k) ==
    LET op == build_all[k].op
        at == build_all[k].at
    IN  /\ op = "managers" => managers
        /\ op = "grid" => grid
        /\ \A p \in Regions : Lays(k, p) => Known(p) \subseteq rooms
        /\ NamesMouth(k) => RavineMouth \in rooms
        /\ op = "link" /\ {Ravine, WildMouth} \subseteq RoomsBy(k)
              => ~Unwired(<<WildMouth, "enter", Ravine>>)
        /\ op = "exits" => \A e \in Range(ExitsOf[at]) :
              {e[1], e[3]} \subseteq RoomsBy(k) => ~Unwired(e)
        /\ op = "gates" => \A e \in Range(Gates) :
              {e[1], e[3]} \subseteq RoomsBy(k) => ~Unwired(e)
        /\ op = "recall" /\ RecallPoint \in RoomsBy(k) => recall
        /\ op = "altar" /\ AltarRoom \in RoomsBy(k) => altar
        /\ op = "npcs" => \A m \in Range(NpcsOf[at]) : m[2] \in RoomsBy(k) => m \in npcs
        /\ op = "pool" => \A name \in Range(PriestPool) :
              (\E j \in 1 .. (k - 1) :
                 /\ build_all[j] = Stage("npcs", "keep")
                 /\ \E m \in Range(NpcsOf["keep"]) : m[1] = name /\ m[2] \in RoomsBy(j))
              => name \in pool
        /\ op = "register" => PointsOf[at] \subseteq points
        /\ op = "populate" => \A p \in Range(Registry) :
              Has(k, "register", p) => \A x \in PointsOf[p] : x[1] \in RoomsBy(k) => x \in mobs

\* The stages behind the build that runs, or behind the one that has ended.
Behind == IF ended THEN DOMAIN build_all ELSE 1 .. (stage - 1)

\* A build never loses what its stages have left behind.
NothingIsLost == \A k \in Behind : Done(k)

\* The server runs only beside the entry point that started it.
ServerIsStarted == entry \in {"off", "ready", "failed"} => server = "off"

WorldIInv ==
    /\ WorldTypeOK /\ ServerIsStarted
    /\ Building => ~ended
    /\ NothingIsLost

\* An exit leads where some record says, and one that a stage of this build
\* has had the last word on leads where that says.
ExitsIInv ==
    /\ \A x \in exits : \E e \in Records : Joins(e) /\ x = Way(e)
    /\ \A k \in Behind \cap ExitStages : \A i \in Positions(k) :
          LastWord(k, i) =>
             \A x \in exits : Identity(x) = Identity(Record(k, i)) => x = Way(Record(k, i))

Passages(wired) == {<<x[1], x[3]>> : x \in wired}

Ways == Passages(exits) \cup (IF grid THEN GridWays ELSE {})

\* The rooms one can walk to from a set of rooms along the given ways.
Closure(ways, start) ==
    LET Close[S \in SUBSET AllRooms] ==
          LET more == {w[2] : w \in {v \in ways : v[1] \in S}} \ S
          IN  IF more = {} THEN S ELSE Close[S \cup more]
    IN  Close[start]

Reached(ways) == Closure(ways, {RecallPoint})

\* From every room without recall that one can walk into along these ways one
\* can walk on to a room with it.
LeadOut(ways) ==
    LET Home == Closure({<<w[2], w[1]>> : w \in ways}, AllRooms \ NoRecall)
    IN  Reached(ways) \cap NoRecall \subseteq Home

\* Whoever has walked from the recall point into a room where recall fails
\* can walk on to one where it works.
NobodyIsTrapped == ended => LeadOut(Ways)

\* The givers a player can walk to.
Met(ways, people, alive) ==
    LET reached == Reached(ways)
    IN  {n[1] : n \in {m \in people : m[1] \in Givers /\ m[2] \in reached}}
          \cup {p[2] : p \in {m \in alive : m[2] \in Givers /\ m[1] \in reached}}

CanBeDone(ways, people, alive) ==
    LET given == UNION {QuestsOf[g] : g \in Met(ways, people, alive)}
        CanBegin(q) == q[3] = "none" \/ \E r \in given : r[1] = q[3]
        reached == Reached(ways)
    IN  /\ AltarRoom \in reached
        /\ \A q \in given :
              q[2] # "deed" /\ CanBegin(q) =>
                \E m \in alive : m[1] \in reached /\ <<m[2], q[2]>> \in Templates

\* The altar can be walked to, and a quest that a giver one can meet gives,
\* itself or after another such quest, asks for no death that cannot be had:
\* some mob of the faction stands where one can walk.
QuestsCanBeDone == ended => CanBeDone(Ways, npcs, mobs)

\* The ways of the world as the zone files describe it.
BuiltWays == Passages(BuiltExits) \cup GridWays

\* Each cave mouth is an exit from a ravine room into the lair.
LairsOpenOnTheRavine ==
    ended =>
      \A t \in Range(Tribes) : \A e \in Range(ExitsOf[t]) :
         e[1] \in Known("hub") => <<e[1], e[2], e[3]>> \in exits

\* With a bounded number of kills and exceptions the world is made whole again
\* and again, or the entry point keeps saying that it is not there: no partial
\* world is served for ever.
WorldHeals == []<>(Whole \/ entry = "failed")
=============================================================================
