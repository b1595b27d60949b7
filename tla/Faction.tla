------------------------------- MODULE Faction -------------------------------
(***************************************************************************)
(* The faction manager: every player's standing with every faction and the *)
(* tension of every pair of factions, both hidden integers of which the    *)
(* rest of the game reads only the band.                                   *)
(*                                                                         *)
(* Each call loads the dictionaries, changes them and saves them without   *)
(* yielding, so a call is one action.  A key the dictionaries lack reads   *)
(* as its initial value, so both are total functions here.  Which quests   *)
(* are open to a player is the quest log's business; here a player may     *)
(* turn in a story quest once and a bounty again and again.                *)
(***************************************************************************)
EXTENDS Integers, FiniteSets

CONSTANTS
    Factions, PairFactions,  \* FACTIONS and _PAIR_FACTIONS
    Players,
    Initial,                 \* INITIAL_RELATIONS, DEFAULT_RELATION where silent
    Cult,                    \* CULT_FACTION_ID
    Hostile, Neutral, Friendly,  \* STANDING_LADDER: lowest score of each band
    Peaceful, Tense, War,        \* RELATION_LADDER
    MemberSlain, LeaderSlain, QuestAid, QuestHarm, Gift,  \* STANDING_EVENTS
    Thaw, AidVs, Broken,         \* RELATION_EVENTS
    BrokenAlliance,              \* BROKEN_ALLIANCE_TENSION
    DecayPerDay,
    Quests, Bounties, SpyQuests, \* CATALOG, its repeatable and aids_cult quests
    Harms, Aids,                 \* quest -> the faction harmed or aided, if any
    Against, Breaks,             \* quest -> tension_pair and breaks_alliance
    Nobody,                      \* the faction of a quest that has none
    SpyQuestsToAmbush,
    Gifts,                       \* TRUE: something calls apply_bribe
    Met,                         \* bound: the factions whose members players meet
    MinStanding, MaxStanding, MaxTension  \* bounds: no event beyond them

NeutralCap == Friendly - 1

PairsOf(f) == {{f, g} : g \in PairFactions \ {f}}

Pairs == UNION {{{f, g} : g \in Factions \ {f}} : f \in Factions}

ASSUME FactionAssumption ==
    /\ PairFactions \subseteq Factions
    /\ Nobody \notin Factions
    /\ Initial \in [Pairs -> Int]
    /\ {Hostile, Neutral, Friendly, Peaceful, Tense, War} \subseteq Int
    /\ Friendly > 0 /\ Tense < War
    /\ {QuestAid, Gift, AidVs, Broken, DecayPerDay} \subseteq Nat
    /\ {MemberSlain, LeaderSlain, QuestHarm, Thaw, BrokenAlliance} \subseteq Int
    /\ MemberSlain <= 0 /\ LeaderSlain <= 0 /\ QuestHarm <= 0 /\ Thaw <= 0
    /\ Tense + Thaw >= Peaceful
    /\ BrokenAlliance \in Peaceful .. Tense - 1
    /\ Bounties \subseteq Quests /\ SpyQuests \subseteq Quests /\ IsFiniteSet(SpyQuests)
    /\ Harms \in [Quests -> Factions \cup {Nobody}]
    /\ Aids \in [Quests -> Factions \cup {Nobody}]
    /\ Against \in [Quests -> Pairs \cup {{}}]
    /\ Breaks \in [Quests -> Pairs \cup {{}}]
    /\ SpyQuestsToAmbush \in Nat
    /\ Gifts \in BOOLEAN
    /\ {MinStanding, MaxStanding, MaxTension} \subseteq Int

\* Every event is narrower than every band of the score it moves, and no quest of
\* the spy aids the Cult a second time.
ASSUME BandAssumption ==
    /\ \A a, b \in {Hostile, Neutral, Friendly} : a < b =>
          \A width \in {-MemberSlain - MemberSlain, -LeaderSlain, -QuestHarm, QuestAid, Gift, DecayPerDay} :
              width <= b - a
    /\ \A a, b \in {Peaceful, Tense, War} : a < b =>
          \A width \in {-Thaw - Thaw, AidVs, Broken, DecayPerDay} : width <= b - a
    /\ \A q \in SpyQuests : Aids[q] # Cult

VARIABLES
    standing,  \* (faction, player) -> reputation
    tension,   \* unordered pair -> tension
    done       \* (player, quest) turned in, from the players' quest logs

vars == <<standing, tension, done>>

-----------------------------------------------------------------------------
\* band_for reads a score against the lower bounds of the bands; a step from x to
\* y that crosses two bounds at once skips the band between them.
Skips(x, y, bounds) ==
    \E a, b \in bounds : a < b /\ ((x < a /\ b <= y) \/ (y < a /\ b <= x))

IsAllied(t) == t < Peaceful

\* Scores no event has pushed to the bounds of the model yet.
Room(f, p) ==
    f \in Met /\ MinStanding < standing[<<f, p>>] /\ standing[<<f, p>>] < MaxStanding

RoomBetween(pairs) == \A pair \in pairs : tension[pair] < MaxTension

Regard(f, p, delta) == [standing EXCEPT ![<<f, p>>] = @ + delta]

\* Mutant: the band is not looked at.
ThawedAlways(t, f) ==
    [pair \in Pairs |-> IF pair \in PairsOf(f) THEN t[pair] + Thaw ELSE t[pair]]

\* Mutant: the table is rebuilt from the pairs of f alone.
ThawedAlone(t, f) ==
    [pair \in PairsOf(f) |-> IF t[pair] >= Tense THEN t[pair] + Thaw ELSE t[pair]]

\* A member of f was slain: every pair of f that is tense or at war thaws.
Thawed(t, f) ==
    [pair \in Pairs |->
        IF pair \in PairsOf(f) /\ t[pair] >= Tense THEN t[pair] + Thaw ELSE t[pair]]

Larger(a, b) == IF a > b THEN a ELSE b

Smaller(a, b) == IF a < b THEN a ELSE b

\* Mutant: only what is above its target drifts back.
DriftedDown(score, target) ==
    IF score > target THEN Larger(target, score - DecayPerDay) ELSE score

\* One day's drift.
Drifted(score, target) ==
    IF score > target THEN Larger(target, score - DecayPerDay)
                      ELSE Smaller(target, score + DecayPerDay)

SpyLog(p) == {q \in SpyQuests : <<p, q>> \in done}

\* complete_spy_quest: this turn-in is the one that springs the ambush.
Springs(p, q) ==
    /\ q \in SpyQuests \ SpyLog(p)
    /\ Cardinality(SpyLog(p)) < SpyQuestsToAmbush
    /\ Cardinality(SpyLog(p) \cup {q}) >= SpyQuestsToAmbush

-----------------------------------------------------------------------------
Init ==
    /\ standing = [k \in Factions \X Players |-> 0]
    /\ tension = Initial
    /\ done = {}

KillMember(f, p) ==
    /\ Room(f, p)
    /\ standing' = Regard(f, p, MemberSlain)
    /\ tension' = Thawed(tension, f)
    /\ UNCHANGED done

\* The larger penalty, and no thaw.
KillLeader(f, p) ==
    /\ Room(f, p)
    /\ standing' = Regard(f, p, LeaderSlain)
    /\ UNCHANGED <<tension, done>>

\* A rival scout falls: its own at_death credits a member of its faction, and
\* so does the repop manager's notify_scout_death.
KillScout(f, p) ==
    /\ Room(f, p)
    /\ standing' = Regard(f, p, MemberSlain + MemberSlain)
    /\ tension' = Thawed(Thawed(tension, f), f)
    /\ UNCHANGED done

\* The repop manager reports a leadership halt.
LeadershipBroken(f) ==
    /\ RoomBetween(PairsOf(f))
    /\ tension' = [pair \in Pairs |->
                     IF pair \in PairsOf(f) THEN tension[pair] + Broken ELSE tension[pair]]
    /\ UNCHANGED <<standing, done>>

\* The gain is capped; a friend is never made less of one.
Bribed(score) == Larger(score, Smaller(score + Gift, NeutralCap))

\* apply_bribe is offered by the manager and no command calls it.
Bribe(f, p) ==
    /\ Gifts /\ f \in Met
    /\ standing' = [standing EXCEPT ![<<f, p>>] = Bribed(@)]
    /\ UNCHANGED <<tension, done>>

\* What turning in q does to the standing k of player p.
Reward(k, p, q) ==
    IF k[2] # p THEN 0
    ELSE (IF k[1] = Harms[q] THEN QuestHarm ELSE 0)
       + (IF k[1] = Aids[q] THEN QuestAid ELSE 0)
       + (IF k[1] = Cult /\ Springs(p, q) THEN QuestAid ELSE 0)

\* What turning in q does to a pair: the rivalry first, then the broken bond.
Stirred(pair, q) ==
    LET t == tension[pair] + (IF pair = Against[q] THEN AidVs ELSE 0)
    IN  IF pair = Breaks[q] /\ IsAllied(t) THEN BrokenAlliance ELSE t

TurnIn(p, q) ==
    /\ q \in Bounties \/ <<p, q>> \notin done
    /\ \A f \in Factions : Reward(<<f, p>>, p, q) # 0 => Room(f, p)
    /\ RoomBetween(Pairs \cap {Against[q]})
    /\ standing' = [k \in Factions \X Players |-> standing[k] + Reward(k, p, q)]
    /\ tension' = [pair \in Pairs |-> Stirred(pair, q)]
    /\ done' = done \cup {<<p, q>>}

\* at_repeat, once a day.
Decay ==
    /\ standing' = [k \in Factions \X Players |-> Drifted(standing[k], 0)]
    /\ tension' = [pair \in Pairs |-> Drifted(tension[pair], Initial[pair])]
    /\ UNCHANGED done

\* A new season forgets and forgives; the players' quest logs are not touched.
SeasonReset ==
    /\ standing' = [k \in Factions \X Players |-> 0]
    /\ tension' = Initial
    /\ UNCHANGED done

Event ==
    \/ \E f \in Factions, p \in Players :
          KillMember(f, p) \/ KillLeader(f, p) \/ KillScout(f, p) \/ Bribe(f, p)
    \/ \E f \in PairFactions : LeadershipBroken(f)
    \/ \E p \in Players, q \in Quests : TurnIn(p, q)

Next == Event \/ Decay \/ SeasonReset

Spec == Init /\ [][Next]_vars

\* The decay script is persistent and fires daily whatever the players do.
FairSpec == Spec /\ WF_vars(Decay)

-----------------------------------------------------------------------------
(* Invariants *)

TypeOK ==
    /\ standing \in [Factions \X Players -> Int]
    /\ tension \in [Pairs -> Int]
    /\ done \subseteq Players \X Quests

\* A tension never sinks below where the season put it, except by the thaw of a
\* killing, and that stops at peace (apply_kill_member, decay_tick).
TensionFloor ==
    \A pair \in Pairs : tension[pair] >= Initial[pair] \/ tension[pair] >= Tense + Thaw

\* However many of them are slain, no two tribes become allies that were not
\* allies when the season began (faction.md section 2.2: the thaw ends in peace).
NoForgedAlliance ==
    \A pair \in Pairs : IsAllied(tension[pair]) => IsAllied(Initial[pair])

\* Player p has turned in a quest that aids f.
Served(f, p) ==
    \/ \E q \in Quests : <<p, q>> \in done /\ Aids[q] = f
    \/ f = Cult /\ Cardinality(SpyLog(p)) >= SpyQuestsToAmbush

\* Friendship cannot be bought or waited for: only who has served a faction is
\* ever above the top of the neutral band (apply_bribe, decay_tick).
FriendshipIsEarned ==
    \A f \in Factions, p \in Players : standing[<<f, p>>] > NeutralCap => Served(f, p)

-----------------------------------------------------------------------------
(* Action properties *)

Reset == standing' = [k \in Factions \X Players |-> 0] /\ tension' = Initial

\* No single event skips a band: a player is hostile for a while before being
\* killed on sight, and tribes are tense before they are at war.  The new season
\* alone may jump (config.py: the sizes of the bands and of the events).
NoBandSkipped ==
    [][\/ Reset
       \/ /\ \A k \in Factions \X Players :
                ~Skips(standing[k], standing'[k], {Hostile, Neutral, Friendly})
          /\ \A pair \in Pairs :
                ~Skips(tension[pair], tension'[pair], {Peaceful, Tense, War})]_vars

Between(a, x, b) == (a <= x /\ x <= b) \/ (b <= x /\ x <= a)

\* The day's drift takes every score towards where the season started it and
\* never past it, standings and tensions alike (decay_tick).
DecayNeverCrosses ==
    [][Decay =>
         /\ \A k \in Factions \X Players : Between(0, standing'[k], standing[k])
         /\ \A pair \in Pairs : Between(Initial[pair], tension'[pair], tension[pair])]_vars

-----------------------------------------------------------------------------
(* Liveness *)

AtRest ==
    /\ \A k \in Factions \X Players : standing[k] = 0
    /\ tension = Initial

\* Grudges fade: once the players leave the tribes alone every standing and every
\* tension returns to where the season began (faction.md section 2.3: no
\* permanent kill-on-sight from a single bad day).
GrudgesFade == <>[][Decay]_vars => <>[]AtRest

-----------------------------------------------------------------------------
(* What the documents say and the code does not do *)

\* "The bribe-the-ogre quest breaks the goblin-ogre alliance" (quests.md section
\* 9.6): for the rest of the season the two are no longer allies.
BrokenAllianceHolds ==
    [][\A pair \in Pairs :
          IsAllied(tension'[pair]) /\ ~IsAllied(tension[pair]) => Reset]_vars
=============================================================================
