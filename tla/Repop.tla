-------------------------------- MODULE Repop --------------------------------
(***************************************************************************)
(* The repop manager: the registry of spawn points with their respawn      *)
(* timers, the leadership halts, the rival scouting parties, the Shrine's  *)
(* reset cycle, and the mob objects the spawner keeps in the world.        *)
(*                                                                         *)
(* Every handler runs to completion in the single reactor thread and       *)
(* writes its Attributes before it returns, so a handler is one action.    *)
(* Each write is committed on its own: a handler that the server's death   *)
(* cuts short is a second action, which leaves what was written by then.   *)
(* The code keeps the epoch second a timer ends; the module keeps the time *)
(* LEFT until then, which is all that any comparison with the clock reads. *)
(* Elapse is the passage of one unit of wall-clock time.                   *)
(***************************************************************************)
EXTENDS Integers, FiniteSets

CONSTANTS
    Points,          \* spawn ids of the zone data
    Tribes,          \* factions that own spawn points
    TribeOf,         \* Points -> Tribes
    Role,            \* Points -> {"chief", "shaman", "none"}
    Respawn,         \* Points -> respawn_seconds
    ShrinePoints,    \* the points of zone "shrine"
    Rival,           \* Tribes -> DESIGNATED_RIVAL, or NoRival
    NoRival,
    ScoutPartySize,  \* SCOUT_PARTY_SIZE
    LeadershipHalt,  \* LEADERSHIP_HALT
    ShrineReset,     \* SHRINE_RESET
    Built,           \* tribes whose lair rooms exist in the database
    MaxLag,          \* bound: how long the Shrine tick may be late (an outage)
    DeadCurable,     \* TRUE: players also cast cure light wounds on the slain
    OperatorRebuild, \* TRUE: an operator may run build_all() on a live world
    Crashes          \* TRUE: a handler may be cut short by the server's death

Leaders == {p \in Points : Role[p] # "none"}

MembersOf(t) == {p \in Points : TribeOf[p] = t}

ASSUME RepopAssumption ==
    /\ NoRival \notin Tribes
    /\ TribeOf \in [Points -> Tribes]
    /\ Role \in [Points -> {"chief", "shaman", "none"}]
    /\ Respawn \in [Points -> Nat \ {0}]
    /\ ShrinePoints \subseteq Points
    /\ Rival \in [Tribes -> Tribes \cup {NoRival}]
    /\ ScoutPartySize \in Nat \ {0}
    /\ LeadershipHalt \in Nat \ {0}
    /\ ShrineReset \in Nat \ {0}
    /\ Built \subseteq Tribes
    /\ MaxLag \in Nat
    /\ {DeadCurable, OperatorRebuild, Crashes} \subseteq BOOLEAN

\* The zone data gives a tribe at most one chief and one shaman, and the
\* Shrine cult has neither (tests/zones check both).
ASSUME LeaderAssumption ==
    /\ \A p, q \in Leaders : TribeOf[p] = TribeOf[q] /\ Role[p] = Role[q] => p = q
    /\ \A p \in Leaders, q \in ShrinePoints : TribeOf[p] # TribeOf[q]

ScoutIds == Tribes \X (0 .. ScoutPartySize - 1)

\* The absent dictionary entry; no time left is ever that small.
NoTimer == -MaxLag - 1

VARIABLES
    mob,       \* the object tagged with a spawn id: none, alive or dead (0 HP)
    respawn,   \* _respawn_at: time left until the point is due
    halt,      \* _halted_until: time left of a tribe's halt (0: it has expired)
    scouts,    \* _scouts: the recorded scout ids
    scoutMob,  \* the object tagged with a scout id
    shrine,    \* _shrine_reset_at: time left, negative while the tick is late
    caught     \* history: down without a timer, since a handler was cut short

vars == <<mob, respawn, halt, scouts, scoutMob, shrine, caught>>

-----------------------------------------------------------------------------
Pending(p) == respawn[p] # NoTimer

Halted(t) == halt[t] > 0

\* The points with a room and no living mob in it.
Fallen == {p \in Points : TribeOf[p] \in Built /\ mob[p] # "alive"}

OtherLeaders(p) ==
    {q \in Leaders : TribeOf[q] = TribeOf[p] /\ Role[q] # Role[p]}

\* Mutant: the counterpart is not looked at.
AnyLeaderDown(p) == p \in Leaders

BothLeadersDown(p) == p \in Leaders /\ \E q \in OtherLeaders(p) : Pending(q)

\* Mutant: the party is counted from 0 to its size.
ScoutPartyAndOne(t) ==
    IF Rival[t] = NoRival THEN {} ELSE {t} \X (0 .. ScoutPartySize)

ScoutParty(t) ==
    IF Rival[t] = NoRival THEN {} ELSE {t} \X (0 .. ScoutPartySize - 1)

\* Mutant: the body is taken for a living instance, as spawn_scout takes it.
SpawnMobOverBody(p) == IF mob[p] = "none" THEN "alive" ELSE mob[p]

\* spawn_mob: a living instance is kept, a dead one is deleted, and nothing
\* is made in a room that is not built.
SpawnMob(p) ==
    IF mob[p] = "alive" \/ TribeOf[p] \in Built THEN "alive" ELSE "none"

\* spawn_scout: any instance is kept, the dead one included.
SpawnScout(c) ==
    IF scoutMob[c] = "none" /\ c[1] \in Built THEN "alive" ELSE scoutMob[c]

-----------------------------------------------------------------------------
\* The world as the first boot leaves it: registered, populated, not ticked.
Init ==
    /\ mob = [p \in Points |-> IF TribeOf[p] \in Built THEN "alive" ELSE "none"]
    /\ respawn = [p \in Points |-> NoTimer]
    /\ halt = [t \in Tribes |-> NoTimer]
    /\ scouts = {}
    /\ scoutMob = [c \in ScoutIds |-> "none"]
    /\ shrine = NoTimer
    /\ caught = {}

\* What _save has written when it is cut short. The timers are always the first
\* of it, then come the halts, the scouts and last the Shrine's time.
Whole == {"respawn", "halt", "scouts", "shrine"}
Saves == {{"respawn"}, {"respawn", "halt"}, {"respawn", "halt", "scouts"}, Whole}

\* _trigger_halt, as far as it was saved, and _on_leadership_halt, which makes
\* the scouts of the party one by one.
TriggerHalt(t, saved, made) ==
    /\ respawn' = [p \in Points |-> IF TribeOf[p] = t THEN LeadershipHalt ELSE respawn[p]]
    /\ halt' = IF "halt" \in saved THEN [halt EXCEPT ![t] = LeadershipHalt] ELSE halt
    /\ scouts' = IF "scouts" \in saved THEN scouts \cup ScoutParty(t) ELSE scouts
    /\ scoutMob' = [c \in ScoutIds |-> IF c \in made THEN SpawnScout(c) ELSE scoutMob[c]]
    /\ caught' = caught \ MembersOf(t)

ScheduleRespawn(p) ==
    /\ respawn' = [respawn EXCEPT ![p] = Respawn[p]]
    /\ UNCHANGED <<halt, scouts, scoutMob, caught>>

\* A living mob is struck down: its hit points are written.
Fell(p) ==
    /\ mob[p] = "alive"
    /\ mob' = [mob EXCEPT ![p] = "dead"]
    /\ UNCHANGED shrine

\* A mob falls; at_death reports it and notify_death schedules the respawn, or
\* halts the whole tribe.
KillMob(p) ==
    /\ Fell(p)
    /\ IF BothLeadersDown(p) THEN TriggerHalt(TribeOf[p], Whole, ScoutParty(TribeOf[p]))
                             ELSE ScheduleRespawn(p)

\* The server dies after the hit points are written and before the timer is.
FallUnreported(p) ==
    /\ Fell(p)
    /\ caught' = IF Pending(p) THEN caught ELSE caught \cup {p}
    /\ UNCHANGED <<respawn, halt, scouts, scoutMob>>

\* The server dies while the halt is saved, or while its scouts are made.
HaltCutShort(p) ==
    /\ Fell(p)
    /\ BothLeadersDown(p)
    /\ \E saved \in Saves, made \in SUBSET ScoutParty(TribeOf[p]) :
         /\ made # {} => saved = Whole
         /\ TriggerHalt(TribeOf[p], saved, made)

CrashInKill == Crashes /\ \E p \in Points : FallUnreported(p) \/ HaltCutShort(p)

\* A scout is struck down: its record goes, its body stays.
KillScout(c) ==
    /\ scoutMob[c] = "alive"
    /\ scoutMob' = [scoutMob EXCEPT ![c] = "dead"]
    /\ scouts' = scouts \ {c}
    /\ UNCHANGED <<mob, respawn, halt, shrine, caught>>

\* The server dies before the slain scout's record is dropped.
CrashInKillScout ==
    /\ Crashes
    /\ \E c \in ScoutIds : /\ scoutMob[c] = "alive"
                           /\ scoutMob' = [scoutMob EXCEPT ![c] = "dead"]
    /\ UNCHANGED <<mob, respawn, halt, scouts, shrine, caught>>

\* Cure light wounds on a slain mob or scout: hit points return, and nothing
\* else is told.
CureDead ==
    /\ DeadCurable
    /\ \/ \E p \in Points : /\ mob[p] = "dead"
                            /\ mob' = [mob EXCEPT ![p] = "alive"]
                            /\ caught' = caught \ {p}
                            /\ UNCHANGED scoutMob
       \/ \E c \in ScoutIds : /\ scoutMob[c] = "dead"
                              /\ scoutMob' = [scoutMob EXCEPT ![c] = "alive"]
                              /\ UNCHANGED <<mob, caught>>
    /\ UNCHANGED <<respawn, halt, scouts, shrine>>

-----------------------------------------------------------------------------
ShrineDue == shrine # NoTimer /\ shrine <= 0

\* Mutant: one period on, however many were missed.
OnePeriodOn(left) == left + ShrineReset

\* mark_shrine_reset: the first later boundary of the fixed cadence, whole
\* periods that passed meanwhile skipped.
NextBoundary(left) ==
    IF left % ShrineReset = 0 THEN ShrineReset ELSE left % ShrineReset

\* restock("shrine"): the dead points of the zone, all at once.
Restocked == IF ShrineDue THEN {p \in ShrinePoints : Pending(p)} ELSE {}

\* Mutant: the halt is not looked at.
DueSpawnsInHalt == {p \in Points \ Restocked : respawn[p] = 0}

DueSpawns ==
    {p \in Points \ Restocked : respawn[p] = 0 /\ ~Halted(TribeOf[p])}

DueRetreats == {c \in scouts : ~Halted(c[1])}

Back == Restocked \cup DueSpawns

\* What the tick makes and deletes in the world.
TickWorld ==
    /\ mob' = [p \in Points |-> IF p \in Back THEN SpawnMob(p) ELSE mob[p]]
    /\ scoutMob' = [c \in ScoutIds |-> IF c \in DueRetreats THEN "none" ELSE scoutMob[c]]

\* The timers the tick clears.
TickTimers == respawn' = [p \in Points |-> IF p \in Back THEN NoTimer ELSE respawn[p]]

Tick ==
    /\ TickWorld
    /\ TickTimers
    /\ scouts' = scouts \ DueRetreats
    /\ shrine' = IF shrine = NoTimer THEN ShrineReset
                 ELSE IF ShrineDue THEN NextBoundary(shrine) ELSE shrine
    /\ UNCHANGED <<halt, caught>>

\* The server dies before the tick saves. Objects are written as they are made:
\* first some restocked points were made, then the retreating scouts deleted,
\* then some due points made, and one dead body may be gone with nothing in its
\* place yet.
TickUnsaved ==
    \E made \in SUBSET Back, gone \in SUBSET DueRetreats,
      gap \in SUBSET {p \in Back : mob[p] = "dead"} :
        /\ gone # {} => Restocked \subseteq made
        /\ (made \cup gap) \cap DueSpawns # {} => Restocked \subseteq made /\ gone = DueRetreats
        /\ Cardinality(gap) <= 1 /\ gap \cap made = {}
        /\ mob' = [p \in Points |-> IF p \in made THEN SpawnMob(p)
                                    ELSE IF p \in gap THEN "none" ELSE mob[p]]
        /\ scoutMob' = [c \in ScoutIds |-> IF c \in gone THEN "none" ELSE scoutMob[c]]
        /\ UNCHANGED <<respawn, scouts>>

\* The server dies inside the tick's save, the Shrine's time not yet written.
TickHalfSaved ==
    /\ TickWorld
    /\ TickTimers
    /\ scouts' \in {scouts, scouts \ DueRetreats}

CrashInTick ==
    /\ Crashes
    /\ TickUnsaved \/ TickHalfSaved
    /\ UNCHANGED <<halt, shrine, caught>>

-----------------------------------------------------------------------------
\* The season reset as the manager sees it: timers, halts and scouts dropped,
\* the Shrine re-armed, every instance deleted, every point built anew.
SeasonReset ==
    /\ respawn' = [p \in Points |-> NoTimer]
    /\ halt' = [t \in Tribes |-> NoTimer]
    /\ scouts' = {}
    /\ shrine' = ShrineReset
    /\ scoutMob' = [c \in ScoutIds |-> "none"]
    /\ mob' = [p \in Points |-> IF TribeOf[p] \in Built THEN "alive" ELSE "none"]
    /\ caught' = {}

\* reset_season's save, as far as it got.
SeasonSaved(saved) ==
    /\ respawn' = [p \in Points |-> NoTimer]
    /\ halt' = IF "halt" \in saved THEN [t \in Tribes |-> NoTimer] ELSE halt
    /\ scouts' = IF "scouts" \in saved THEN {} ELSE scouts
    /\ shrine' = IF "shrine" \in saved THEN ShrineReset ELSE shrine

\* The server dies inside reset_season, before the world is touched.
SeasonNotRebuilt ==
    /\ \E saved \in Saves : SeasonSaved(saved)
    /\ caught' = Fallen
    /\ UNCHANGED <<mob, scoutMob>>

\* The server dies inside despawn_all.
SeasonDespawning ==
    \E gone \in SUBSET {p \in Points : mob[p] # "none"},
      removed \in SUBSET {c \in ScoutIds : scoutMob[c] # "none"} :
        /\ SeasonSaved(Whole)
        /\ mob' = [p \in Points |-> IF p \in gone THEN "none" ELSE mob[p]]
        /\ scoutMob' = [c \in ScoutIds |-> IF c \in removed THEN "none" ELSE scoutMob[c]]
        /\ caught' = Fallen \cup {p \in gone : TribeOf[p] \in Built}

\* The server dies inside populate, every instance of the last season deleted.
SeasonPopulating ==
    \E made \in SUBSET {p \in Points : TribeOf[p] \in Built} :
        /\ SeasonSaved(Whole)
        /\ mob' = [p \in Points |-> IF p \in made THEN "alive" ELSE "none"]
        /\ scoutMob' = [c \in ScoutIds |-> "none"]
        /\ caught' = {p \in Points \ made : TribeOf[p] \in Built}

CrashInSeason == Crashes /\ (SeasonNotRebuilt \/ SeasonDespawning \/ SeasonPopulating)

\* build_all() on a live world: register drops each point's timer and populate
\* re-makes what is dead; halts, scouts and the Shrine's timer are kept.
Rebuild ==
    /\ OperatorRebuild
    /\ respawn' = [p \in Points |-> NoTimer]
    /\ mob' = [p \in Points |-> SpawnMob(p)]
    /\ caught' = {}
    /\ UNCHANGED <<halt, scouts, scoutMob, shrine>>

\* The server dies inside build_all() while the zones are registered, one by one
\* and the Shrine last.
Registering ==
    \E registered \in SUBSET Tribes :
        LET cleared == {p \in Points : TribeOf[p] \in registered} IN
        /\ cleared \cap ShrinePoints # {} => cleared = Points
        /\ respawn' = [p \in Points |-> IF p \in cleared THEN NoTimer ELSE respawn[p]]
        /\ caught' = caught \cup (Fallen \cap cleared)
        /\ UNCHANGED mob

\* The server dies inside populate, where one dead body may be gone with nothing
\* in its place yet.
Populating ==
    \E made \in SUBSET Points, gap \in SUBSET {p \in Points : mob[p] = "dead"} :
        /\ Cardinality(gap) <= 1 /\ gap \cap made = {}
        /\ respawn' = [p \in Points |-> NoTimer]
        /\ mob' = [p \in Points |-> IF p \in made THEN SpawnMob(p)
                                    ELSE IF p \in gap THEN "none" ELSE mob[p]]
        /\ caught' = Fallen \ made

CrashInRebuild ==
    /\ OperatorRebuild
    /\ Crashes
    /\ Registering \/ Populating
    /\ UNCHANGED <<halt, scouts, scoutMob, shrine>>

Less(left) == IF left > 0 THEN left - 1 ELSE left

\* One unit of wall-clock time passes.
Elapse ==
    /\ shrine = NoTimer \/ shrine > -MaxLag
    /\ respawn' = [p \in Points |-> Less(respawn[p])]
    /\ halt' = [t \in Tribes |-> Less(halt[t])]
    /\ shrine' = IF shrine = NoTimer THEN NoTimer ELSE shrine - 1
    /\ UNCHANGED <<mob, scouts, scoutMob, caught>>

Kill == \E p \in Points : KillMob(p)

Next ==
    \/ Kill
    \/ CrashInKill
    \/ \E c \in ScoutIds : KillScout(c)
    \/ CrashInKillScout
    \/ CureDead
    \/ Tick
    \/ CrashInTick
    \/ SeasonReset
    \/ CrashInSeason
    \/ Rebuild
    \/ CrashInRebuild
    \/ Elapse

Spec == Init /\ [][Next]_vars

\* The clock runs and the manager's LoopingCall fires again and again; nobody
\* owes a kill, a reset or a crash.
FairSpec == Spec /\ WF_vars(Tick) /\ WF_vars(Elapse)

-----------------------------------------------------------------------------
(* Types *)

TimeLeft(max) == {NoTimer} \cup 0 .. max

\* Every variable has its type, and no timer exceeds the delay it was set to.
TypeOK ==
    /\ mob \in [Points -> {"none", "alive", "dead"}]
    /\ respawn \in [Points -> Nat \cup {NoTimer}]
    /\ halt \in [Tribes -> TimeLeft(LeadershipHalt)]
    /\ scouts \subseteq ScoutIds
    /\ scoutMob \in [ScoutIds -> {"none", "alive", "dead"}]
    /\ shrine \in -MaxLag - 1 .. ShrineReset
    /\ caught \subseteq Points

-----------------------------------------------------------------------------
(* Invariants *)

\* A mob that does not stand is on a timer, slain or deleted, across a halt, a
\* late tick, a cure of the dead, a rebuild and a season reset, and across a
\* server death inside a tick or a halt (notify_death, restock, mark_respawned,
\* register, reset_season). The server's death loses only a mob it caught with
\* its hit points at 0 and its timer not yet written (npcs.py, at_death), or with
\* its timer already dropped and its body not yet made (register_zone and
\* reset_season save before populate), and only until it is cured, its tribe is
\* halted, or a rebuild or a season reset runs to its end.
FallenIsPending == \A p \in Fallen : Pending(p) \/ p \in caught

\* While a tribe's halt lasts both its leaders lie dead: the halt is triggered
\* by nothing less, and nothing brings one back early (repop.md section 3).
HaltedIsLeaderless ==
    \A t \in Tribes : Halted(t) =>
        \E c, s \in MembersOf(t) : /\ Role[c] = "chief"  /\ mob[c] = "dead"
                                   /\ Role[s] = "shaman" /\ mob[s] = "dead"

\* While a tribe's halt lasts all of it is on a timer, survivors included, and
\* none of those timers outlasts the halt unless its mob fell during it.
HaltedIsPending ==
    \A t \in Tribes : Halted(t) => \A p \in MembersOf(t) :
        /\ Pending(p)
        /\ respawn[p] > halt[t] => mob[p] = "dead" /\ respawn[p] <= Respawn[p]

\* A scout alive in the world is recorded by the manager, so that the tick that
\* ends the halt will find and withdraw it (_spawn_scouts, due_scout_retreats).
NoStrayScout == \A c \in ScoutIds : scoutMob[c] = "alive" => c \in scouts

\* Scouts never share a lair with the leaders they came to replace: the tick
\* withdraws them before the tribe regroups into the same rooms.
ScoutsOnlyInBrokenLairs ==
    \A c \in ScoutIds : scoutMob[c] = "alive" =>
        \A p \in Leaders : TribeOf[p] = c[1] => mob[p] # "alive"

-----------------------------------------------------------------------------
(* The inductive invariant of undisturbed play *)

Undisturbed == ~DeadCurable /\ ~OperatorRebuild /\ ~Crashes

\* Only a death puts a leader on a timer: the halt finds both already there.
LeaderOnTimerIsDead == \A p \in Leaders : Pending(p) => mob[p] = "dead"

\* Two dead leaders of a tribe are due at the same moment.
LeadersReturnTogether ==
    \A p, q \in Leaders :
        TribeOf[p] = TribeOf[q] /\ mob[p] = "dead" /\ mob[q] = "dead"
            => respawn[p] = respawn[q]

\* An object is missing only where its room is.
LairsArePopulated == \A p \in Points : mob[p] = "none" <=> TribeOf[p] \notin Built

\* The leaders of a tribe with recorded scouts lie dead.
ScoutedIsLeaderless ==
    \A c \in scouts : \A p \in Leaders : TribeOf[p] = c[1] => mob[p] = "dead"

IInv ==
    /\ TypeOK
    /\ FallenIsPending
    /\ caught = {}
    /\ HaltedIsLeaderless
    /\ HaltedIsPending
    /\ NoStrayScout
    /\ LeaderOnTimerIsDead
    /\ LeadersReturnTogether
    /\ LairsArePopulated
    /\ ScoutedIsLeaderless

-----------------------------------------------------------------------------
(* Action properties *)

NewSeason == \A t \in Tribes : halt'[t] = NoTimer

\* During a leadership halt nothing of the tribe comes back (due_spawns), unless
\* a new season clears every halt.
NoRepopWhileHalted ==
    [][\A p \in Points : mob[p] = "dead" /\ mob'[p] = "alive" /\ Halted(TribeOf[p])
           => NewSeason]_vars

\* A halt begins only with the fall of a leader whose counterpart already lies
\* dead (notify_death: "both leaders are down at once").
HaltNeedsBothLeadersDown ==
    [][\A t \in Tribes : halt'[t] > halt[t] =>
           \E c, s \in MembersOf(t) : /\ Role[c] = "chief"  /\ mob'[c] = "dead"
                                      /\ Role[s] = "shaman" /\ mob'[s] = "dead"]_vars

\* When the Shrine's boundary is handled the whole cult stands again, but for a
\* cultist a server death left without a timer, which restock does not see, and
\* the next boundary lies ahead however late the tick was (_tick_shrine, restock,
\* mark_shrine_reset: "the timer never lags forever").
ShrineRestocksWhole ==
    [][ShrineDue /\ shrine' # shrine /\ ~(shrine' < shrine) =>
           /\ shrine' > 0
           /\ \A p \in ShrinePoints \ caught' : TribeOf[p] \in Built => mob'[p] = "alive"]_vars

-----------------------------------------------------------------------------
(* Refinement *)

Promise == INSTANCE RepopPromise WITH
    Points <- {p \in Points : TribeOf[p] \in Built},
    standing <- {p \in Points : mob[p] = "alive"},
    broken <- {t \in Tribes : Halted(t)}

\* The manager keeps its promise to the players, step by step and in the end:
\* whoever falls stands again, however often players break the tribe meanwhile.
KeepsPromise == Promise!PromiseSpec
=============================================================================
