# Keep on the Borderlands: models, checks and proofs

This directory holds a TLA+ model of the rules that make the game's shared world
hang together: the managers that decide when the slain return, what the factions
think, who the spy is, which quests are paid and when a season ends; how a fight
spends spells and lives; where coin, experience and henchmen go; how the world itself is
built out of the zone files, and rebuilt; and how the project's agents are fanned out. The
modules are translated from the Python under `mudgame/` and the scripts beside it; paths
below are relative to `mudgame/` unless they start with `docs/`, `docker/` or `scripts/`.

To repeat a check: `tlc -config MCRepop.cfg MCRepop.tla` (any cfg with the module
`PROJECT.json` names for it), `tlapm RepopProofs.tla`.

## 1. The system and its parts

The game is an Evennia server: one thread, so no two handlers interleave (the entry
point of the container and the fan-out's scheduler and loops are the exceptions: they are
processes that share files); but each attribute write reaches the database on its own, the server may die or an
exception may leave a handler between any two writes, and what players and timers
do comes in any order. The hard behaviours are therefore **long orders of legal
calls, handlers cut short, scores and timers at their boundaries, and state that
outlives the thing it was about**.

| Part | Source | State | Operations | Module |
|---|---|---|---|---|
| Repop manager, spawner, world build | `world/repop/`, `world/managers/repop_manager.py`, `world/build/` | respawn timers, halts, scout records, Shrine boundary; the mob objects | a mob or scout dies, the tick, the season reset, the operator's rebuild | `Repop` |
| Faction manager | `world/factions/`, `world/managers/faction_manager.py` | standings of players, tensions of pairs | kills, broken leadership, gifts, quest effects, daily decay, season reset | `Faction` |
| Season manager, leaderboard, altar | `world/season/`, `world/managers/season_manager.py`, `typeclasses/objects.py` | season number and start, warnings given, leaderboard; the altar | the tick, `end_season`, hardcore death, destroying the altar | `Season` |
| Disguised priest | `world/priest/`, `world/managers/priest_manager.py` | spy, drawn clues, exposed flag; evidence on each character | four detection paths, the report, the season reset | `Priest` |
| Quests | `world/quests/`, `commands/quests.py` | each character's quest log, the spy log | accept, kill credit, deed credit, turn-in | `Quests` |
| Combat, spells, death | `commands/combat.py`, `commands/spells.py`, `typeclasses/scripts.py`, `typeclasses/characters.py` | combatants, hit points, memorized spells, declarations | attack, cast, declare, rest, the round, death and recall | `Fight` |
| Economy, corpses | `commands/economy.py`, `world/economy/`, `world/rules/economy.py`, `typeclasses/objects.py` | coin, bank, secured experience, corpses | buy, sell, deposit, withdraw, secure, bury, loot | `Purse` |
| Henchmen | `commands/henchmen.py`, `world/rules/henchmen.py`, `typeclasses/npcs.py` | employer, order, room | hire, order, dismiss, follow, die | `Purse` |
| Zones | `world/zones/*/`, `world/quests/config.py` | none: static records | read | `Atlas` |
| Builders, orchestrator, first start, entry point | `world/zones/builder.py`, `world/zones/*/build.py`, `world/build/orchestrator.py`, `server/conf/at_initial_setup.py`, `docker/entrypoint.sh` | rooms, exits, people, spawn points, mobs in the database; Evennia's mark that the setup is over | the first build, the season's rebuild, the check that a world is there, restart | `World` |
| Agent loop and fan-out | `scripts/fanout.sh`, `scripts/ralph.sh` | slots and verdicts of the pool; a clone with its STATUS.md and a container per tribe; stall counts | launch, poll, push, request review; turn, stop, pause, halt | `Fanout` |
| Rules tables | `world/rules/` (dice, saves, progression, pacing) | none | arithmetic | no |
| Accounts, web, settings | `typeclasses/accounts.py`, `server/conf/`, `web/` | Evennia's | Evennia's | no |
| Landing of pull requests | `scripts/fanout-land.sh`, `scripts/until_reset.py` | GitHub's | merge, parse | no |

How they meet: `Mob.at_death` (`typeclasses/npcs.py`) credits the kill to the
factions and to the slayer's quests, then tells the repop manager, which may
break the tribe and charge the slayer once more. A turn-in pays through the
faction manager, may expose the spy in the priest manager, and on the cult's
chain may spring an ambush. Every move of a character, the recall of the slain
included, ends in `at_post_move`, which secures treasure in the Keep and brings the
followers along. The season manager's reset calls a hook on every
other manager, and one of the hooks despawns every mob and runs the whole build again. A
hardcore death writes the season's leaderboard. The build registers the spawn points with
the repop manager and asks it for the first mobs. The scheduler of the fan-out and a loop
share only the clone's files and the state of the container.

### What makes each part correct

* **Repop**: a tribe breaks only when both leaders are down; while it is broken
  nothing of it returns; everything slain does return, whoever keeps killing; nothing
  that fell is lost but what a death of the server caught between the write of its body
  and that of its timer; scouts stand only in broken lairs.
* **World**: a build that ends leaves the one world the zone files describe, whatever
  earlier builds were cut short; nobody is walled up where recall fails;
  the kills asked for by a quest that a giver one can meet gives can be had;
  no partial world is served for ever.
* **Fanout**: no more loops than slots; what is put up for review is finished; a loop
  gives up only after as many turns in a row without a commit as it is allowed, unless a
  usage limit met a turn that had committed; every tribe gets one verdict.
* **Faction**: killing and waiting never make an alliance; friendship takes
  service, not gifts; no band of a score is skipped; what is left alone returns
  to rest.
* **Season**: nobody survives a season twice, or survives one and falls in it; a
  season that opens finds every manager flushed and the last season on the board;
  the timed end comes when it is due and after its warnings (each of these but for what was cut
  short at the one write it depends on, section 6); every season ends.
* **Priest**: one unmasking a season; on evidence of the reporter's own; of a spy
  who did not serve the season before.
* **Fight**: a declared spell keeps its slot until it is resolved or spoiled; no slot is
  spent twice, none is spent for nothing; no declaration outlives its fight, and every
  one is settled.
* **Purse**: coin is never made, and lost only with the vault of one who dies for good; a coin teaches once; dying is no way to
  bring treasure home; those told to follow are there.
* **Quests**: what is completed was paid and what was paid is completed; kill
  quests are paid for kills; a cooldown is waited out; a hunt has one hero; the
  ambush springs once, unless it is lost to one cut of the turn-in.

`PROJECT.json` lists the hazards line by line, with the properties that cover each.

## 2. The modules

Each manager call is one action where the code runs it without yielding and
saves at the end; a handler whose writes can come apart is several steps, or has a
second action that stops in the middle. Counters that only the bound of a run
stops are constants named `Max...`.

### Repop (with `RepopPromise`, `MCRepop`, `RepopProofs`)

State: `mob[p]` is the object tagged with a spawn id (none, alive, dead at 0 hit
points), `respawn[p]` the *time left* on its timer (`NoTimer` when the dictionary
has no entry), `halt[t]` the time left of a tribe's halt, `scouts` the recorded
scout ids and `scoutMob` their objects, `shrine` the time left to the Shrine's
boundary. Absolute deadlines in the code become time left, so that time need not
be bounded. A timer's remaining time stops at 0; the Shrine's goes negative down
to `MaxLag`, which is how late a tick may be.

`KillMob` is a death with `notify_death`, either scheduling the return (`ScheduleRespawn`) or
breaking the tribe (`TriggerHalt`: halt, common timer, scouts). `Tick` is
`at_repeat` whole: the Shrine, then scout retreats, then due spawns, then the
save. `SeasonReset` and `Rebuild` are `reset_season` and `build_all`. Three
constants switch on what is not ordinary play: `Crashes`, `DeadCurable` (`CureDead`: cure
light wounds on a body), `OperatorRebuild`. `Undisturbed` says that all three are off.

With `Crashes` every handler has a second action that stops it between any two of its writes;
`Saves` are the parts of `_save` that may be written by then, in its order.

| Handler | Cut short |
|---|---|
| `KillMob` | `CrashInKill`: after the hit points and before the timer (`FallUnreported`), inside the save of a halt, or while its scouts are made (`HaltCutShort`) |
| `KillScout` | `CrashInKillScout`: before the record is dropped |
| `Tick` | `CrashInTick`: while objects are made and deleted (`TickUnsaved`), or inside the save (`TickHalfSaved`) |
| `SeasonReset` | `CrashInSeason`: inside the manager's save (`SeasonNotRebuilt`), while the old mobs are deleted (`SeasonDespawning`), while the new ones are made (`SeasonPopulating`) |
| `Rebuild` | `CrashInRebuild`: while zones are registered (`Registering`), while mobs are made (`Populating`) |

Some of these leave a mob down with no timer that would bring it back. The history `caught`
names them, until a cure, a halt of the tribe, a rebuild or a reset mends it: the code does lose such a mob
for the time, and `FallenIsPending` says that it loses no other. An object and its tag are taken as one write, and a
due mob whose body is deleted and not yet replaced is missing (`gap`).

`RepopPromise` is what `docs/specs/repop.md` promises without timers: mobs fall,
a tribe breaks when a leader falls and the counterpart is not standing, the fallen
of unbroken tribes return, a new season makes everything whole, and every fallen
mob eventually stands again. `KeepsPromise` is the refinement.

### Faction (`MCFaction`, `FactionProofs`)

State: `standing[f,p]`, `tension[{f,g}]`, and `done`, the turn-ins that no player
can repeat. A dictionary entry that is missing reads as the initial value in the
code, hence total functions. Actions: `KillMember`, `KillLeader`, `KillScout`
(both credits, as the code gives both), `LeadershipBroken`, `Bribe`, `TurnIn` (aid,
harm, tension, broken alliance, the cult's chain), `Decay`, `SeasonReset`. The
model knows only the order of the numbers: that no event is wider than a band is
an assumption (`BandAssumption`) that TLC checks for the instance, and that the
numbers of `world/factions/config.py` satisfy.

### Season (`MCSeason`, `SeasonProofs`)

State: the four saved fields, `since[c]` (the season a character was made in, 0
when there is none), `dirty` (parts of the world that bear marks of play), `now`,
`step` and `draft` (how far `end_season` has come and the leaderboard it holds in
memory), and histories. `end_season` is a sequence of steps: snapshot, the seven
hooks of `run_reset` in order, season saved, leaderboard saved; `Crash` may end
it between any two, as an exception or a crash does, and the next `Tick` then runs
it again. `FallCut` is a hardcore death cut short between board and deletion. Three histories (`lapses`) keep
what such a cut has spoilt: `unkept`, the seasons that closed before their board was saved; `torn`, those that opened
on the start or the warnings of the last; `spared`, the characters on the board as fallen and not deleted.

### Hunt, Priest (`MCPriest`, `PriestProofs`)

`Hunt` is what the priest plot promises the rest of the game: a player gathers
evidence and keeps it, one report on good evidence exposes the spy, a new hunt
hides him. `Priest` implements it: `spy`, `clues`, `exposed`, the `sightings` and
`proofs` on each character, and the reset in its two saves (`ResetSeason`,
`OpenSeason`, `CutShort`). Histories: `served` (who served the season before),
`own` (sightings that are not hearsay), `about` (which spies a player's evidence
points at), `unmaskings`. The detection functions have no callers in the game yet;
they are modelled as the interface they offer.

### Quests (`MCQuests`, `QuestsProofs`)

State: `log[p][q]` (status, progress, times, cooldown), `spied`, the plot as `Hunt`
has it, and histories of payments, kills, ambushes and hunts. A turn-in is five
writes in the code's order (the report, the reward, the spy log, the ambush, the
quest log); `TurnIn` makes them all and `TurnInCut` stops after any of them
(`Writes(p, q, n)`); the history `unsprung` names those cut short between the spy log and the ambush. What the quests do to the plot is again `Hunt`
(`KeepsTheHunt`): `Priest` is proved to do no more than `Hunt` allows, and `Quests`
to rely on nothing else, so the two compose without a joint state space.

### Spellbook, Fight (`MCFight`, `FightProofs`)

State: `hp` and `room` of everyone, `memory[c]` (how often each spell is prepared;
the order of the list does not matter), `declared[c]` (spell and target, or `NoCast`),
the handler (`running`, its `combatants`) and the round it is in (`turn`, `living`).
`Attack`, `Rest`, `Move`, `Cast` and `Declare` are the commands, whole; only heroes act,
since no monster of the game strikes back. `AtRepeat`, `Resolve` or `PassOver` for each
combatant, and `EndRound` are one repeat of the handler. They are steps because what a
spell does depends on those resolved before it; `Between` keeps the commands out until
the round is over. A handler that Evennia stops because `is_valid` fails resolves the
pending spells in `at_stop`, which comes to the same steps. A hero slain by a blow is
recalled within the same action (`Wound`, `MemoryAfter`).

`Spellbook` is what casting promises a caster, without rounds, targets or hit points: a rest
prepares his slots, a declared spell keeps its slot, and a slot goes for one effect, one
disruption, or a death that takes them all. `Fight` implements it (`KeepsTheBook`), with no
help from the histories: the list is what the code keeps, the pledge what it has declared.
To heroes who are `loose` only the weaker half is promised, that they gain nothing.

Histories: `book[c]`, the slots cast, spoiled or forgotten since the last rest; `loose`,
the heroes for whom the books need not balance: who struck himself with a spell (he is
disrupted by it and pays again, or dies and remembers, `commands/spells.py:110`), and
who was taken out of the fight with a declaration pending. `Begin`, `AddCombatant` and
`RemoveCombatant` are the interface of the handler; nothing in the game calls them yet.

### Purse (`MCPurse`, `PurseProofs`)

State: `place` of every character, `coin` and `bank`, `xp` and `credited`
(`secured_xp_credited`), `holder` of every thing, the `corpse`s lying about, and
`employer`, `order` and `post` of every henchman. One action per command; `Walk` is a
move with `at_post_move` whole (`Arrive`), `Die` is `_create_corpse` followed by the
recall, which is such a move too (`Recall`), `DieForGood` the death of a hardcore
character, who is deleted and his vault with him. Goods, corpses and henchmen have ids from finite sets, which bound how many
there are at one time. Histories: `won`, what has come to a character from outside (his
own coin fetched from his own corpse is not won again), `house`, what the shops and
recruits have taken less what was paid out, and `lost`, what lay in the vaults of those who died for good.

Economy, henchmen and death are one module because a coin is conserved, and a follower
kept, only across all of them. Spells and hit points at death are `Fight`'s; the season's
board is `Season`'s; how a reward is earned is `Quests`'.

### Atlas and World (`MCWorld`, `SeasonProofs`)

`Atlas` holds the static records of every zone as the files have them, in their order and
under their keys: rooms, links, people, mob templates with their faction, spawns, and who
gives which quest, with the faction a quest wants killed and the quest it follows. `expand`
turns links into exits both ways, as `_hub.expand` does.

`World` builds it. State: what is in the database (`rooms`, `exits`, `npcs`, `grid`, `pool`,
`recall`, `altar`, `managers`, `points`, `mobs`), the entry point (`entry`, `account`), and the
server (`server`, the `stage` of the build it is at, `settled`, Evennia's mark that the
initial setup is over). `build_all` is the plan of stages in the order of the
orchestrator and the zones' own `build` functions, including the second passes over the
exits of the Keep and the Caves that settle exits deferred because their far room did not
exist yet. A stage is one action, of the operator it runs, and writes all its records, or
the first n of them and then ends by a kill or by an exception (`Ends`, `Wrote`). An exception
leaves `at_initial_setup`, which swallows it and never runs again; a kill makes the entry
point start over. `VerifyPasses` is the entry point's check that more than five objects exist,
which runs beside the build; `rebuild_world` is the season's hook: all mobs go, then the whole
build again. An object and its tag are taken as one write.

`Whole` says of every variable of the database what it is after a build. The exits are
`BuiltExits`: each as the record says that the plan comes to last and whose rooms are both
there (`LastWord`), and a gate of the Wilderness only where no zone file has a record of the
same room and direction, since `_wire_interzone_exits` leaves alone what it finds. So all
histories of builds, cuts and seasons leave the same world.

What is proved about `World` stands in `SeasonProofs`, behind the proofs about the season
whose reset rebuilds it; so that one module can extend both, the names they would share
carry a prefix here (`WorldInit`, `WorldNext`, `worldVars`, `WorldTypeOK`).

### Fanout (`MCFanout`, `FanoutProofs`)

State of the scheduler: `pending`, `running`, the round under way (`polling`, `kept`), and
`pool`, where it is between two looks; verdicts `gated` and `stalled`; `pushed` and `review` on
the remote. State of each tribe: the container (`box`), STATUS.md and the commits in the clone
(`status`, `head`), and what the loop holds in memory (`at`, `before`, `stalls`). `Look`,
`Kind`, `Inspect`, `Push` and `Request` are separate steps because the loop goes on between
the two greps of STATUS.md, the inspection of the container, the push and the pull request. The
agent's doings in a turn, `Commit` and `Write`, are its own steps. `Pause`, a usage limit, asks nothing about
what the turn has done, as `ralph.sh` does not, and leaves out the look at STATUS.md and the count of stalls. `record` is a
history: for the last turns, whether each committed, where a turn that a limit stops is entered only if it
did. `lapsed` names the loops that had a stall counted when a limit met a turn that had committed, whose
count has thus survived a commit; the next turn that commits and is counted clears it. A usage limit, a container that dies or never starts, a push or a pull
request that fails share the bound `MaxMishaps`.

A clone starts with the STATUS.md of the repository (`start`): blank, a breadcrumb, or a
breadcrumb with the word "complete" in it (`Crumbs`).

## 3. The runs

| Run | Distinct states | What it asks |
|---|---|---|
| `repop` | 15,260 | ordinary play, with fairness and the refinement |
| `repop_disturbed` | 365,199 | with every handler cut short anywhere, cures and rebuilds: is anything lost but what a crash caught between two writes |
| `faction` | 195,072 | two allied tribes and the Cult, every kind of event |
| `season` | 548,510 | three seasons, two mishaps anywhere, with fairness |
| `priest` | 1,753,752 | two hunters, two seasons, one reset cut short |
| `quests` | 784,228 | four ways to play, one turn-in cut short |
| `fight` | 442,932 | two casters and a goblin, every order of commands and rounds, with fairness and the refinement of `Spellbook` |
| `purse` | 637,795 | two adventurers, one with a single life; trade, bank, hire, die, loot |
| `world` | 27,227 | the game's own zones, one mishap at any record of any build, with fairness |
| `fanout` | 1,117,195 | three tribes, two slots, one mishap, with fairness |
| `faction_alliance`, `world_lairs` | | one disagreement each (section 6) |

Bounds and why they suffice:

* *Repop*: chief, shaman, one follower, one leaderless Shrine cultist; a rival for
  the one tribe. Halts concern one tribe and its two leaders; a second follower
  would only repeat the first. The delays keep the order of the real ones
  (standard 2, halt 3, Shrine cycle 4), which is all the comparisons see. Lateness
  is bounded by `MaxLag` 5, more than a cycle, so that missed boundaries occur. The disturbed
  run has many more actions and shorter times: a respawn of 1, halt, cycle and the cultist's respawn of 2, lateness 1, a party of one
  scout. It still has a halt that outlasts a respawn and a tick that comes late; missed cycles stay with the other run.
* *Faction*: one player; standings of different players never meet in the code.
  Scores are bounded by `MinStanding`, `MaxStanding`, `MaxTension`, one or two
  points beyond the outermost bands; a decay of 2 makes overshoot possible.
  `faction_alliance` uses the game's own numbers.
* *Season*: seasons of three units, warnings one and two before the end, up to
  three seasons within seven units, so that downtime can cover both warnings and
  the end; two mishaps, so that a repeated reset can be cut short too.
* *Priest*: a pool of two, draws of two of three clues, thresholds 1 and 2 (the
  code's 2 and 3 with the same distance between them), two seasons.
* *Quests*: an excerpt of the catalog with every kind of quest; `Pursuits` picks
  one of four combinations in the initial state (free choice of all of them by
  two players does not fit). Two completions a bounty, four kills, cooldown 2.
  The bounds end every behaviour, so this run does not check deadlock; the game
  itself never stops.

* *Fight*: a magic-user with one missile and 2 hit points, a cleric with a cure and a
  light and 1 hit point, a goblin with 1; blows of one point; two rooms, so that a
  target can be out of reach and the slain are recalled away. That is enough for a
  wound that only disrupts and one that kills, for a monster healed from 0, and for
  a spell that kills a caster who comes later in the same round.

* *Purse*: one character who comes back and one who does not, one ware, one gem, one
  recruit and one corpse at a time. Three rooms: the bailey, one that is bank, trader
  and tavern together (every room of the Keep can be reached from every other, and no
  guard tells these three apart otherwise), and the wild. Prices of 2, so that half of
  one is not the whole; amounts of 1 and 2, so that deposits are partial; `MaxWon` 2
  for each, so that everything is earned once and what one loses the other may find.

* *World*: no abstraction of the data: all 121 rooms, 209 exits and 160 mobs of the
  zone files, in 57 stages. `Baseline` is what Evennia itself creates, `Populated` the entry point's five.
  One mishap (`MaxMishaps` 1) already reaches every cut of every stage in a first build, in
  a repeated one and in a season's rebuild; builds are repeated without bound.
* *Fanout*: three tribes and two slots, so that one waits; two stalls, so that a commit can
  fall between two; one task, which a review may lack; one mishap, in every place. All
  three kinds of breadcrumb. Every behaviour ends when the pool does, so this run
  does not check deadlock; `EveryTribeIsSettled` says that it ends well.

### Fairness

Six specifications have any. Four only have it for timers of Evennia that fire while
the server runs. `Repop`: `WF(Tick)` (the manager's repeat) and `WF(Elapse)` (time
passes). `Faction`: `WF(Decay)` (the daily repeat). `Season`: `WF(Tick)`, and
`WF(Reset)`: a reset that runs takes its next step, since mishaps are
bounded. `Fight`: `WF(AtRepeat)` (the handler's repeat every six seconds), and `WF` of
the steps of a round, which is one call. `World`: `WF(BuildStep)` (a build that runs goes on),
`WF(EntryStep)` (so does the shell of the entry point, and compose restarts it) and
`WF(rebuild_world)` (seasons end, as `Season` shows). `Fanout`: `WF(PoolStep)` and
`WF(LoopStep(t))` (every turn is ended by its `timeout`, if by nothing else); that a container
dies is never assumed. No player is ever assumed to act. `Priest`, `Quests` and `Purse` promise nothing
eventual and assume nothing.

### Properties worth a second look

* The liveness of `KeepsPromise` is not obvious: every halt pushes out the timers of the
  whole tribe, so a party that keeps breaking the tribe might starve a follower that
  died long ago. It cannot, since leaders must return before they fall again and
  return together with everyone else whose timer the halt set.
* `FallenIsPending`: timers are dropped before bodies are made and written after they fall, in four
  handlers; that the mobs lost so are exactly those of the moment, and that the tick absorbs every other
  remainder, has to survive every sequence of further crashes, cures and rebuilds.
* `HaltedIsLeaderless`: the code decides a halt by timers, not bodies. With a cure
  on the dead the two part (section 6); without it they provably agree.
* `ClosedSeasonIsOnBoard`, `OnePlacement`: a reset cut short runs again over
  its own results.
* `NobodyAccusesOnHearsay`: the Curate confides at one threshold and his hint is
  itself a sighting towards the next.
* `PaidForWhatIsDone`: completions <= payments <= completions plus the turn-ins cut
  short; with none cut short they are equal.
* `SlotsAddUp`: a slot can be spent by the cast itself, by a blow while the spell is
  declared, by death, and by another's spell in the same round; what is held and what
  the history records must always make up what the rest prepared.
* `DeathSecuresNothing`: the recall is an ordinary move into the Keep, where coin carried
  becomes experience. That it secures nothing needs the corpse to be made first, and
  the vault to hold nothing that was not credited before.
* `TreasureTeachesOnce`: the same coin is seen by deposits, steps, withdrawals and after
  a corpse is emptied.
* `FollowersKeepUp`: a follower left in another room would never move again, since orders
  reach only the room.
* `WholeAfterBuild`: builders of rooms and people skip what they find, those of exits defer
  what they cannot wire and move what they find, and two hooks leave it; that all of them
  together leave nothing out and nothing leading astray, after a build cut anywhere, depends
  on the identities they look things up by and on the order of the stages.
* `NobodyIsTrapped`, `QuestsCanBeDone`: claims about the zone files and the builder together,
  on the world as built, not as declared; the way out of the gnoll lair that the
  way further in overwrites (section 6) does not break them, since recall works there.
* `ReviewIsOfFinishedWork`: STATUS.md is read twice and the clone pushed later; the loop may
  write, commit and exit in between.
* `KeepsTheBook`: two ways of paying meet in one round, the blow that disrupts and the cast
  that resolves, each reading the list by itself; no order of them may take two slots for
  one declaration, or leave one declared whose slot is gone.
* `DeclaredIsSettled`: a declaration bars its caster from casting, so one that nobody
  settles would silence him for good.

## 4. The proofs

TLAPS checks, for every value of the constants that meets the named assumptions:

| Module | Theorems |
|---|---|
| `RepopProofs` | types; what fell is pending, and the Shrine's boundary brings the whole cult back, but for mobs a server death caught without a timer (crashes in every handler, cures and rebuilds included); and, undisturbed: halted tribes are leaderless, scouts keep to broken lairs, nothing of a halted tribe returns, halts are earned, a broken tribe regroups as one, every step is a step of `RepopPromise` |
| `FactionProofs` | types; a floor under every tension that was not allied; no forged alliance; friends have served; no band skipped; decay never crosses its target and brings every score a day nearer to it |
| `SeasonProofs` | types; survivors once, placements unique, closed seasons on the board, the board only grows, seasons start clean, a season the clock ends has been warned of and has lasted its length (each but for what was cut at one write); and of the world: types, what the stages of a build have left behind is there for the stages after them, what the last word has been said on keeps leading there, a build that ends leaves the one world of the zone files, and whether anybody is trapped in it and whether its quests can be done is decided by those files alone |
| `PriestProofs` | types; no accusation on hearsay alone, one unmasking a season, the first hunt names its own spy, no spy twice running, implements `Hunt` |
| `FightProofs` | types; declared spells keep their slots, spells held and spent make up what was prepared, no declaration outside a running fight, rounds end and settle every declaration, implements `Spellbook` |
| `PurseProofs` | types (nothing is overdrawn); death secures nothing; followers are where their employer is; experience is backed by credited treasure; the retainer cap; coin is conserved but for the vaults of those who die for good; a coin teaches once |
| `FanoutProofs` | types; live loops hold slots; reviews are of finished work; halts are earned but for a limit after a commit; every tribe leaves with one verdict |
| `QuestsProofs` | types; payments and completions agree, stories pay once, kills back completions, chains in order, one ambush (and one for every full chain, but for one cut), one hero a hunt, bounties rest, implements `Hunt` |

Assumptions: `RepopAssumption` and `LeaderAssumption` (one chief and one shaman a
tribe at most; the Shrine's cult has no leaders), `FactionAssumption` and
`BandAssumption`, `SeasonAssumption`, `PriestAssumption`, `QuestsAssumption`,
`FightAssumption`, `PurseAssumption` (characters, corpses and henchmen are finitely many,
so that coin can be counted), `FanoutAssumption`; and `WorldAssumption`,
`TemplatesAssumption` and `ZonesAssumption`, which say what the zone files have in common:
people and spawns are in rooms of their own region, the rooms that builders name exist, no
two gates are one exit, and the records of the Keep and the gates join rooms of the Keep and
the Wilderness, or are the one way into the ravine, which is a gate and not in the Keep's
file. TLC evaluates each on the instance of its runs, and those of `World` on the game's own data. `Undisturbed` is a hypothesis of the
theorems that need it, not an assumption.

The lines of argument:

* **Repop.** `HaltedIsLeaderless` is not inductive: that the counterpart has a timer
  must mean that it is dead (`LeaderOnTimerIsDead`), that no body is without a timer
  (`FallenIsPending`, with nothing `caught`), that two dead leaders of
  a tribe are due at the same moment (`LeadersReturnTogether`), and that halted tribes have both leaders
  pending (`HaltedIsPending`). `IInv` is their conjunction with the facts about
  scouts. The preservation proof has one step per action and splits a death into
  the breaking and the plain one. `ShrineRestocksWhole` needs less, and so holds
  disturbed as well: where rooms are built a mob stands or is pending or `caught`
  (`FallenIsPending` alone, which is inductive with the types), so the restock finds it. That a tribe regroups as one
  (`TribesRegroup`) needs one fact more, that the leaders of a halted tribe have exactly the
  halt's time left (`LeadersReturnWithTheHalt`); followers slain in the halt are the
  exception that section 6 describes.
* **Faction.** Most theorems are about one number: `DriftBetween`, `ThawBounds`,
  `RewardBounds` bound what each operator can do to it, and the invariants follow
  action by action. `FriendshipIsEarned` ties a standing to the history in `done`.
* **Season.** `Board` relates the leaderboard, the draft in memory and the living;
  `FlushedSoFar` says which parts are clean after which step of the reset;
  `WarnedSoFar` ties what was broadcast to the stored list between the writes of the reset,
  and `StartSoFar` the stored start to the opening, of every season but the `torn`.
* **Priest.** `Learns` is the common shape of all detection paths; `IInv` ties the
  evidence to its history, and the exposed flag to the unmasking of the season.
* **Quests.** Whatever the step, one of five things happens to an entry of a log: it
  rests, is taken, is credited, is turned in, or is left by a turn-in cut short.
  `EveryStepMovesEntries` shows it once; each conjunct of `IInv` is then kept by a
  lemma over the five cases.

* **Fight.** The invariant falls into bodies, minds and the handler (`BodyOK`, `MindOK`,
  `BellOK`, proved equal to `IInv`). `WoundKeepsAgreement` says that a wound spends what it
  takes; `EffectBalances` that a caster who holds the spell pays exactly once, whether
  the list is the one read before the effect (`Cast`) or after it (`ResolvePendingCast`).
  That nobody in the fight has a spell pending when the handler stops needs what
  `SettledSoFar` says of the combatants the round has passed, and that needs
  `HeroesLive`: heroes are never at 0 hit points between two actions, so the round
  never skips one. The refinement of `Spellbook` is shown caster by caster
  (`EveryStepMovesBooks`): whoever is wounded loses everything, or the spell declared, or
  nothing (`WoundMoves`), a caster pays for his own spell (`CasterMoves`), and everybody
  else's book is wounded or untouched (`OthersMove`). It needs `IInv`: that a declared
  spell still has its slot, and that who casts at once has none declared.

* **Purse.** `VaultIsCredited` makes the recall's securing a grant of 0
  (`RecallKeepsBooks`); `FollowersCome` serves walks and recalls alike;
  `EmployedLive` says that an employer is always somewhere, so that a hardcore death
  must release the henchmen. The cap counts a set, which grows only in `Hire`.
  Conservation needs sums. The total of a purse is shown to be the number of its single
  coins (`TotalCounts`, by the induction over finite subsets that well-foundedness gives),
  and then what a step moves is what it takes from one heap and lays on another
  (`TotalMoves`). `NoCoinFromNothing` is kept by every step as it stands (a hardcore death moves its vault into `lost`); `TreasureTeachesOnce` needs that no
  character has, in pocket, bank and corpses together, more than has come to him (`HeldWasWon`),
  and was never credited with more (`CreditWasWon`): looting one's own corpse is no win,
  looting another's is. `Ledger` is their conjunction.

* **World.** `Done(k)` says what stage k of the plan leaves behind, on condition that the
  rooms it needs are laid by stages before it (`RoomsBy`): a way whose far room is not
  there yet is deferred and owed by a later stage. `NothingIsLost` says that every stage
  behind the running build is done. It is kept because the database only grows while a
  build runs, and a stage cut short is not behind it. That it makes the world whole
  (`WholeByPlan`) is read off the plan: for every record of every zone file some stage
  comes after all the rooms it needs. This is where the second passes over the exits of
  the Keep and the Caves are needed.

  `NothingIsLost` says of an exit only that it leads somewhere, for two files may claim one
  exit, as two lairs do (section 6). Where it leads is a second invariant, `ExitsIInv`: every
  exit leads where some record says, and one that a stage behind the running build has had
  the last word on leads where that record says. `LastIsLaid` reads off the plan that the last word
  on an exit is spoken after both its rooms are laid, so it is never deferred; the hooks that
  only add an exit cannot unsettle it (`AddedExits`), a later pass over the same file says
  the same again, and no later stage claims it. At the end the exits are those that the last
  words name, and every exit has one (`SomeLastWord`, `ExitsAreBuilt`). With all of the
  database fixed by `Whole`, `NobodyIsTrapped` and `QuestsCanBeDone` in an ended world are
  facts about the constants, `LeadOut(BuiltWays)` and
  `CanBeDone(BuiltWays, People, AllPoints)`; the theorems `MapDecidesEscape` and
  `MapDecidesQuests` have them as hypotheses.

* **Fanout.** `RoundIsWhole` says that a tribe of a round is yet to be looked at, kept, or
  decided, each once, so that a container is removed on every path that frees a slot; the
  count of live loops follows from the cardinality of a sequence's range. `GateIsFinal` says that what
  the scheduler has read still holds when it acts on it: once the gate is in STATUS.md no
  turn changes it and no task is left to commit. `StallsAreTurns` ties the counter to the
  record of the turns, of every loop but the `lapsed`. `VerdictsAreWhole` adds `NobodyIsLost`: who is not decided waits or
  holds a slot, so when the pool ends, with neither, everybody is.

`IInv` of every module, `Ledger`, `ExitsIInv`, `LeadersReturnWithTheHalt`, and the parts of
`WorldIInv` that are not a property of a run anyway (`NothingIsLost` among them) were also
checked by TLC on the instances above while the proofs were written; the whole is not a
property of the runs, which state its parts.

Some properties are theorems and no longer part of a run, since the proof covers every
instance: `NoBandSkipped`, `FriendshipIsEarned` (`Faction`), `TypeOK` (`Season`), `SlotIsReserved`,
`CastingMeansFighting`, `TypeOK` (`Fight`), `NoSpyTwiceRunning` (`Priest`), `BountyRests` and the
refinement of `Hunt` (`Quests`), `ScoutsOnlyInBrokenLairs`, `HaltNeedsBothLeadersDown` (`Repop`). `ShrineRestocksWhole` is run undisturbed only, and proved for both.

**Only model-checked**: everything eventual (`GrudgesFade`, `SeasonTurns`,
`DeclaredIsSettled`, `WorldHeals`, `EveryTribeIsSettled` and the liveness half of
`KeepsPromise`), which is beyond the prover. Of several the half that is safety is proved, what
a step does towards the end and what holds when it is reached: `DecayBringsNearer` (each
day takes a day's drift off every distance), `RoundsSettleAll` (a round comes to its next
combatant or ends with everything settled), `VerdictsAreWhole` (the pool ends with one verdict
for each tribe), `TribesRegroup` (a halt ends with the tribe due) and `BuildsAreWhole`; what
is left to TLC is that fair steps are taken and do not alternate for ever. The hypotheses of `MapDecidesEscape`
and `MapDecidesQuests` are a matter of data: the run `world` checks the two properties on the
game's own files, where every ended build has the ways `BuiltWays`, and for other files they
need not hold. `Closure`, in which they are stated, is a recursive function, and neither theorem
needs to look into it.

## 5. Plan

Done: `Repop`, `Faction`, `Season`, `Hunt` and `Priest`, `Quests`, `Spellbook` and `Fight`, `Purse`, `Fanout`,
`Atlas` and `World`, each with its proofs.

Next, in this order:

1. `Slaying`: the chain of `Mob.at_death` over `Faction`, `Quests` and `Repop`, with an
   exception between any two credits, and who is credited: `last_attacker` is set by
   swings only, so a spell credits the last swinger or nobody.
2. `World` with an object and its tag as two writes, once it is decided what should become
   of an untagged twin.
3. The landing of pull requests (`scripts/fanout-land.sh`).
4. `Purse` with handlers cut short, if a promise is found that survives it; loyalty and the
   split of experience as functions, once something calls them.

## 6. Where the code and its documents disagree

Shown by a run each (`PROJECT.json`, findings):

* `faction_alliance`: an alliance broken on purpose is whole again after one day.
* `world_lairs`: the goblins and the hobgoblins both claim the way north-east out of
  `ravine_mid` (`world/zones/caves/goblin/exits.py:19`, `world/zones/caves/hobgoblin/exits.py:19`).
  An exit is known by its room and direction (`world/zones/builder.py:93`), so the
  hobgoblins, built later, take it, and nobody can walk into the goblin lair
  (`docs/specs/zones/caves.md:27`).

Seen while modelling, without a run of their own:

* *Repop*: a death of the server loses a mob in three places (`caught`): its hit points are saved before its timer
  (`typeclasses/npcs.py:165`), and a rebuild and a season's reset save the dropped timers before anything
  is made (`world/build/orchestrator.py:96`, `world/managers/repop_manager.py:222`). No document speaks of it,
  so it is a hazard and an exception of `FallenIsPending`, not a finding. A slain leader cured from 0 hit points lives with its timer running
  (`commands/spells.py:282`), and the death of the other leader alone then breaks the tribe, where
  `docs/specs/repop.md:49` wants both dead at the same instant; hence the hypothesis
  `Undisturbed`. The body of a scout slain in one halt keeps that scout from appearing in the
  next (`world/build/spawner.py:183`; `docs/specs/repop.md:123`).
* *Priest*: no reset clears the evidence on characters (`world/managers/priest_manager.py:172`;
  `docs/specs/disguised-priest.md:119` says it does), so evidence against last season's spy
  exposes this season's.
* *World*: the way back north out of `gnoll_mouth` is overwritten in the same manner by the
  way further in, which is north too (`world/zones/caves/gnoll/exits.py:16`), so one leaves
  that lair by recall only. The first boot's build may be cut short by an exception that
  Evennia swallows, and the check for six objects passes all the same
  (`docker/entrypoint.sh:120`): a partial world is served until a season ends. A rebuild cut
  short after the mobs were despawned leaves none until then.
* *Fanout*: any STATUS.md with the word "complete" in it is taken for the gate
  (`scripts/fanout.sh:278`), and the one the repository tracks has it in line 4, so a fresh clone
  is pushed and put up for review at the first poll; `ReviewIsOfFinishedWork` excepts such
  clones. Any other breadcrumb has its tribe listed as stalled at the first poll, though
  `scripts/ralph.sh:189` expects one. A loop that gates and exits between the first grep and the
  inspection is listed as stalled. `scripts/ralph.sh:206` pauses on a usage limit whatever the turn has done, and its
  `continue` skips the reset of the stalls (line 242): a turn that commits and then meets the limit leaves the count as it
  was, so a single turn without a commit can make the loop halt, where line 27 has it give up only after
  `RALPH_MAX_STALLS` of them in a row. `Pause` is that turn, and `HaltIsEarned` excepts just the loops
  whose stalls were so kept (`lapsed`). An error
  of the review's API counts as no comments in `scripts/fanout-land.sh:105`.
* *Repop*: a follower slain late in a halt returns after the leaders
  (`world/repop/state.py:147`; `docs/specs/repop.md:56` has the tribe regroup as
  one). An operator's rebuild in a halt brings the tribe back early (`state.py:113`).
* *Faction*: kills of solitary factions and beasts thaw tensions too
  (`world/factions/state.py:89`); a scout's death is charged twice
  (`world/managers/repop_manager.py:163` and `typeclasses/npcs.py:81`); the cult's
  chain gives +10 where `docs/specs/faction.md:88` has +15; decay does not ask
  whether anything happened that day.
* *Season*: `end_season` saves the season before the board
  (`world/managers/season_manager.py:121`); a death of the server between the two loses the closing season's
  survivors for good (`docs/specs/seasonal-reset.md:86`). `_save_season` writes the number before the start
  (line 68); a death between the two makes the next tick end the season that has just opened, unwarned
  (`docs/specs/seasonal-reset.md:16`). A hardcore death cut short between the board and the deletion
  (`typeclasses/characters.py:186`) leaves on the board as fallen one who still lives, and may be placed again.
  The model does all three; `ClosedSeasonIsOnBoard`, `SeasonLasts`, `TimedEndIsWarned` and `OnePlacement`
  except what such a cut has spoilt (`torn` takes a season cut anywhere inside `_save_season`), not every behaviour with a cut in it. Nothing rebuilds a destroyed altar (`world/managers/season_manager.py:192`;
  `docs/specs/seasonal-reset.md:112`), so no later season ends by it. `refresh_roster`
  only logs.
* *Priest*: a reset repeated after a crash may bring back the spy it had just
  retired. A draw of only observed and dialogue clues can leave the spy
  unreportable to a party without a cleric of level 5.
* *Fight*: a caster slain by his own missile keeps his remaining spells
  (`commands/spells.py:110`). A slain hero is recalled at 1 hit point and stays among the
  combatants, so a fight may tick for ever (`typeclasses/scripts.py:177`). A spell is not
  an attack for `last_attacker` (`commands/combat.py:53`).
* *Purse*: a hardcore death deletes the character with `bank_balance`
  (`typeclasses/characters.py:186`), as `docs/specs/death.md` section 3 has it, so that coin is gone (`lost`), although
  line 95 of the same document calls the bank "unaffected by death". `secured_xp_credited` is a high-water mark of what was owned at one time, not
  the "lifetime gp already converted" of `docs/specs/economy.md` section 6, so treasure
  won after spending teaches nothing until the mark is passed. No character's level is
  ever raised, so a death resets experience to the start of level 1; and nothing in the
  game sets `char_class`, without which a death costs none. `Corpse.loot` has no caller,
  and a season's reset clears neither corpses (`docs/specs/death.md` section 5) nor henchmen
  (`docs/specs/henchmen.md` section 6). A recruit can be hired any number of times. Coin moves
  in two writes: a crash after the first doubles it in a withdrawal, a death or a looting
  and loses it in a deposit, a purchase, a sale or a hire.
* *Quests*: no NPC gives the quests of the "spy" and the "provisioner"; no deed but
  the altar's is ever credited; the commands never pass standings, so standing gates
  never close. A turn-in cut short after the exposure leaves the reporter unpaid for
  that season. One cut short between the spy log and the ambush (`commands/quests.py:336`) and done again finds the
  chain already full, and the ambush never springs (`docs/specs/disguised-priest.md:135`); `AmbushOnce` excepts just that.

## 7. What is left out, and why

Hit points, names, wording, rooms (beyond what a guard reads) and the amounts of
rewards are abstracted everywhere. The draw of clues and the choice of the spy are
nondeterministic. Two servers on one database are not modelled, since the code does
not support them. Rule tables without state are left to the unit tests that
enumerate them. Of the zone files descriptions, details, stat blocks, treasure, respawn delays, locked doors
and shop stock are left out, of the load harness everything: it times commands and keeps nothing.
Of the fan-out the merging of pull requests, the parsing of reset times, the status files, `--once` and
`--dry-run`, and the copy of the loop under `ralph-harness/` are left out. Starting gold is a reward like any other,
and dropping, giving and fetching things are Evennia's own; a character logged out is
where he left. Of combat: initiative is only announced and orders nothing, saving
throws and morale are called by nobody, the light a spell sheds is read by nobody, and
one handler stands for all, since a character is in one fight at a time.
