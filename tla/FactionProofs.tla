---------------------------- MODULE FactionProofs ----------------------------
(***************************************************************************)
(* Theorems about the faction manager for every set of factions, players   *)
(* and quests and for every tuning of the numbers that keeps events        *)
(* narrower than bands.                                                    *)
(***************************************************************************)
EXTENDS Faction, FiniteSetTheorems, TLAPS

\* The constants are integers of the expected sign.
LEMMA Signs ==
    /\ {Hostile, Neutral, Friendly, Peaceful, Tense, War} \subseteq Int
    /\ {MemberSlain, LeaderSlain, QuestHarm, Thaw, BrokenAlliance} \subseteq Int
    /\ {QuestAid, Gift, AidVs, Broken, DecayPerDay} \subseteq Int
    /\ MemberSlain <= 0 /\ LeaderSlain <= 0 /\ QuestHarm <= 0 /\ Thaw <= 0
    /\ QuestAid >= 0 /\ Gift >= 0 /\ AidVs >= 0 /\ Broken >= 0 /\ DecayPerDay >= 0
    /\ Friendly > 0 /\ Tense < War
    /\ Tense + Thaw >= Peaceful
    /\ Peaceful <= BrokenAlliance /\ BrokenAlliance < Tense
    /\ Initial \in [Pairs -> Int]
BY FactionAssumption

\* A day's drift lies between the score and its target.
LEMMA DriftBetween ==
    ASSUME NEW score \in Int, NEW target \in Int
    PROVE  /\ Drifted(score, target) \in Int
           /\ Between(target, Drifted(score, target), score)
           /\ Drifted(score, target) - score \in -DecayPerDay .. DecayPerDay
BY Signs DEF Drifted, Between, Larger, Smaller

\* A gift never takes away, gives at most its worth, and gives nothing above the cap.
LEMMA GiftBounds ==
    ASSUME NEW score \in Int
    PROVE  /\ Bribed(score) \in Int
           /\ Bribed(score) - score \in 0 .. Gift
           /\ Bribed(score) > NeutralCap => Bribed(score) = score
BY Signs DEF Bribed, NeutralCap, Larger, Smaller

\* A killing cools a pair by at most one thaw, and never below the first bound
\* under which it would not have cooled.
LEMMA ThawBounds ==
    ASSUME NEW t \in [Pairs -> Int], NEW f, NEW pair \in Pairs
    PROVE  /\ Thawed(t, f) \in [Pairs -> Int]
           /\ Thawed(t, f)[pair] - t[pair] \in Thaw .. 0
           /\ Thawed(t, f)[pair] = t[pair] \/ Thawed(t, f)[pair] >= Tense + Thaw
BY Signs DEF Thawed

\* A turn-in moves a pair up by at most AidVs, or ends its alliance.
LEMMA StirBounds ==
    ASSUME NEW pair \in Pairs, NEW q \in Quests, tension \in [Pairs -> Int]
    PROVE  /\ Stirred(pair, q) \in Int
           /\ Stirred(pair, q) >= tension[pair]
           /\ \/ Stirred(pair, q) - tension[pair] <= AidVs
              \/ tension[pair] < Peaceful /\ Stirred(pair, q) < Tense
BY Signs DEF Stirred, IsAllied

\* A turn-in moves a standing by at most one quest's worth either way, and up
\* only where the player served.
LEMMA RewardBounds ==
    ASSUME NEW p \in Players, NEW q \in Quests, NEW k \in Factions \X Players
    PROVE  /\ Reward(k, p, q) \in QuestHarm .. QuestAid
           /\ Reward(k, p, q) > 0 => /\ k[2] = p
                                     /\ Aids[q] = k[1] \/ (k[1] = Cult /\ Springs(p, q))
<1>1. Springs(p, q) => Aids[q] # Cult
  BY BandAssumption DEF Springs
<1> QED
  BY <1>1, Signs DEF Reward

-----------------------------------------------------------------------------
(* Types *)

\* Scores stay integers: no handler stores a band, or drops an entry.
THEOREM TypeCorrect == Spec => []TypeOK
<1>1. Init => TypeOK
  BY Signs DEF Init, TypeOK
<1>2. TypeOK /\ [Next]_vars => TypeOK'
  <2> SUFFICES ASSUME TypeOK, [Next]_vars
               PROVE  TypeOK'
    OBVIOUS
  <2> USE DEF TypeOK
  <2>1. ASSUME NEW f \in Factions, NEW p \in Players, KillMember(f, p)
        PROVE  TypeOK'
    <3>1. Thawed(tension, f) \in [Pairs -> Int]
      BY Signs DEF Thawed
    <3> QED
      BY <2>1, <3>1, Signs DEF KillMember, Regard
  <2>2. ASSUME NEW f \in Factions, NEW p \in Players, KillLeader(f, p)
        PROVE  TypeOK'
    BY <2>2, Signs DEF KillLeader, Regard
  <2>3. ASSUME NEW f \in Factions, NEW p \in Players, KillScout(f, p)
        PROVE  TypeOK'
    <3>1. Thawed(tension, f) \in [Pairs -> Int]
      BY Signs DEF Thawed
    <3>2. Thawed(Thawed(tension, f), f) \in [Pairs -> Int]
      BY <3>1, Signs DEF Thawed
    <3> QED
      BY <2>3, <3>2, Signs DEF KillScout, Regard
  <2>4. ASSUME NEW f \in Factions, NEW p \in Players, Bribe(f, p)
        PROVE  TypeOK'
    BY <2>4, GiftBounds DEF Bribe
  <2>5. ASSUME NEW f \in PairFactions, LeadershipBroken(f)
        PROVE  TypeOK'
    BY <2>5, Signs DEF LeadershipBroken
  <2>6. ASSUME NEW p \in Players, NEW q \in Quests, TurnIn(p, q)
        PROVE  TypeOK'
    <3>1. \A k \in Factions \X Players : Reward(k, p, q) \in Int
      BY RewardBounds, Signs
    <3> QED
      BY <2>6, <3>1, StirBounds DEF TurnIn
  <2>7. CASE Decay
    <3>1. \A k \in Factions \X Players : Drifted(standing[k], 0) \in Int
      <4> SUFFICES ASSUME NEW k \in Factions \X Players
                   PROVE  Drifted(standing[k], 0) \in Int
        OBVIOUS
      <4>1. standing[k] \in Int /\ 0 \in Int
        OBVIOUS
      <4> QED
        BY <4>1, DriftBetween
    <3>2. \A pair \in Pairs : Drifted(tension[pair], Initial[pair]) \in Int
      <4> SUFFICES ASSUME NEW pair \in Pairs
                   PROVE  Drifted(tension[pair], Initial[pair]) \in Int
        OBVIOUS
      <4>1. tension[pair] \in Int /\ Initial[pair] \in Int
        BY Signs
      <4> QED
        BY <4>1, DriftBetween
    <3> QED
      BY <2>7, <3>1, <3>2 DEF Decay
  <2>8. CASE SeasonReset
    BY <2>8, Signs DEF SeasonReset
  <2>9. CASE UNCHANGED vars
    BY <2>9 DEF vars
  <2> QED
    BY <2>1, <2>2, <2>3, <2>4, <2>5, <2>6, <2>7, <2>8, <2>9 DEF Next, Event
<1> QED
  BY <1>1, <1>2, PTL DEF Spec

-----------------------------------------------------------------------------
(* The thaw ends in peace *)

\* No tension sinks below where the season put it except by thaw, and thaw stops
\* at the bottom of tense.
THEOREM TensionsHaveAFloor == Spec => []TensionFloor
<1>1. Init => TensionFloor
  BY Signs DEF Init, TensionFloor
<1>2. TypeOK /\ TensionFloor /\ [Next]_vars => TensionFloor'
  <2> SUFFICES ASSUME TypeOK, TensionFloor, [Next]_vars, NEW pair \in Pairs
               PROVE  tension'[pair] >= Initial[pair] \/ tension'[pair] >= Tense + Thaw
    BY DEF TensionFloor
  <2>0. /\ tension \in [Pairs -> Int] /\ tension[pair] \in Int /\ Initial[pair] \in Int
        /\ tension[pair] >= Initial[pair] \/ tension[pair] >= Tense + Thaw
    BY Signs DEF TypeOK, TensionFloor
  <2>1. ASSUME NEW f \in Factions, NEW p \in Players, KillMember(f, p)
        PROVE  tension'[pair] = tension[pair] \/ tension'[pair] >= Tense + Thaw
    BY <2>0, <2>1, ThawBounds DEF KillMember
  <2>2. ASSUME NEW f \in Factions, NEW p \in Players, KillScout(f, p)
        PROVE  tension'[pair] = tension[pair] \/ tension'[pair] >= Tense + Thaw
    <3>1. Thawed(tension, f) \in [Pairs -> Int]
      BY <2>0, ThawBounds
    <3>2. /\ Thawed(tension, f)[pair] = tension[pair] \/ Thawed(tension, f)[pair] >= Tense + Thaw
          /\ \/ tension'[pair] = Thawed(tension, f)[pair]
             \/ tension'[pair] >= Tense + Thaw
      BY <2>0, <2>2, <3>1, ThawBounds DEF KillScout
    <3> QED
      BY <3>2
  <2>3. ASSUME NEW f \in PairFactions, LeadershipBroken(f)
        PROVE  tension'[pair] >= tension[pair]
    BY <2>0, <2>3, Signs DEF LeadershipBroken
  <2>4. ASSUME NEW p \in Players, NEW q \in Quests, TurnIn(p, q)
        PROVE  tension'[pair] >= tension[pair]
    BY <2>0, <2>4, StirBounds DEF TurnIn
  <2>5. CASE Decay
    <3>1. tension'[pair] = Drifted(tension[pair], Initial[pair])
      BY <2>5 DEF Decay
    <3>2. /\ Drifted(tension[pair], Initial[pair]) \in Int
          /\ Between(Initial[pair], Drifted(tension[pair], Initial[pair]), tension[pair])
      BY <2>0, DriftBetween
    <3> QED
      BY <2>0, <3>1, <3>2, Signs DEF Between
  <2>6. CASE SeasonReset
    BY <2>0, <2>6 DEF SeasonReset
  <2>7. ASSUME \/ \E f \in Factions, p \in Players : KillLeader(f, p) \/ Bribe(f, p)
               \/ UNCHANGED vars
        PROVE  tension' = tension
    BY <2>7 DEF KillLeader, Bribe, vars
  <2> QED
    <3>1. CASE tension'[pair] \in Int /\ tension'[pair] >= tension[pair]
      BY <2>0, <3>1, Signs
    <3>2. tension'[pair] \in Int \/ SeasonReset \/ tension' = tension \/ Decay
              \/ (\E f \in Factions, p \in Players : KillMember(f, p) \/ KillScout(f, p))
      <4>1. ASSUME NEW f \in PairFactions, LeadershipBroken(f)
            PROVE  tension'[pair] \in Int
        BY <2>0, <4>1, Signs DEF LeadershipBroken
      <4>2. ASSUME NEW p \in Players, NEW q \in Quests, TurnIn(p, q)
            PROVE  tension'[pair] \in Int
        BY <2>0, <4>2, StirBounds DEF TurnIn
      <4> QED
        BY <2>7, <4>1, <4>2 DEF Next, Event
    <3> QED
      BY <2>0, <2>1, <2>2, <2>3, <2>4, <2>5, <2>6, <2>7, <3>1, <3>2 DEF Next, Event
<1> QED
  BY <1>1, <1>2, TypeCorrect, PTL DEF Spec

\* No alliance that the season did not begin with is ever formed.
THEOREM AlliancesAreNotForged == Spec => []NoForgedAlliance
<1>1. TypeOK /\ TensionFloor => NoForgedAlliance
  BY Signs DEF TypeOK, TensionFloor, NoForgedAlliance, IsAllied
<1> QED
  BY <1>1, TypeCorrect, TensionsHaveAFloor, PTL

-----------------------------------------------------------------------------
(* Friendship is earned *)

\* Quest logs only grow, so who has served has served.
LEMMA ServiceIsRemembered ==
    ASSUME done \subseteq done', NEW f \in Factions, NEW p \in Players, Served(f, p)
    PROVE  Served(f, p)'
<1>1. SpyLog(p) \subseteq SpyLog(p)'
  BY DEF SpyLog
<1>2. /\ IsFiniteSet(SpyQuests) /\ SpyLog(p) \subseteq SpyQuests /\ SpyLog(p)' \subseteq SpyQuests
      /\ SpyQuestsToAmbush \in Nat
  BY FactionAssumption DEF SpyLog
<1>3. /\ IsFiniteSet(SpyLog(p)) /\ IsFiniteSet(SpyLog(p)')
      /\ Cardinality(SpyLog(p)) <= Cardinality(SpyLog(p)')
  BY <1>1, <1>2, FS_Subset
<1>4. Cardinality(SpyLog(p)) \in Nat /\ Cardinality(SpyLog(p)') \in Nat
  BY <1>3, FS_CardinalityType
<1> QED
  BY <1>2, <1>3, <1>4 DEF Served

\* A turn-in that raises a standing is a service to that faction.
LEMMA RewardIsForService ==
    ASSUME NEW p \in Players, NEW q \in Quests, TurnIn(p, q),
           NEW k \in Factions \X Players, Reward(k, p, q) > 0
    PROVE  Served(k[1], k[2])'
<1>1. k[2] = p /\ <<p, q>> \in done' /\ (Aids[q] = k[1] \/ (k[1] = Cult /\ Springs(p, q)))
  BY RewardBounds DEF TurnIn
<1>2. CASE Springs(p, q)
  <2>1. SpyLog(p)' = SpyLog(p) \cup {q}
    BY <1>2 DEF TurnIn, SpyLog, Springs
  <2> QED
    BY <1>1, <1>2, <2>1 DEF Springs, Served
<1> QED
  BY <1>1, <1>2 DEF Served

\* Neither gifts nor decay nor anything else lifts a player above the neutral
\* band who has not served the faction.
THEOREM FriendsHaveServed == Spec => []FriendshipIsEarned
<1>1. Init => FriendshipIsEarned
  BY Signs DEF Init, FriendshipIsEarned, NeutralCap
<1>2. TypeOK /\ FriendshipIsEarned /\ [Next]_vars => FriendshipIsEarned'
  <2> SUFFICES ASSUME TypeOK, FriendshipIsEarned, [Next]_vars,
                      NEW g \in Factions, NEW r \in Players,
                      standing'[<<g, r>>] > NeutralCap
               PROVE  Served(g, r)'
    BY DEF FriendshipIsEarned, NeutralCap
  <2> DEFINE k == <<g, r>>
  <2>0. /\ standing[k] \in Int /\ NeutralCap \in Int /\ NeutralCap >= 0
        /\ standing[k] > NeutralCap => Served(g, r)
    BY Signs DEF TypeOK, FriendshipIsEarned, NeutralCap
  <2>1. done \subseteq done'
    BY DEF Next, Event, KillMember, KillLeader, KillScout, Bribe, LeadershipBroken, TurnIn,
           Decay, SeasonReset, vars
  <2>2. CASE standing[k] > NeutralCap
    BY <2>0, <2>1, <2>2, ServiceIsRemembered
  <2>3. CASE ~(standing[k] > NeutralCap)
    <3>1. ASSUME NEW f \in Factions, NEW p \in Players,
                 KillMember(f, p) \/ KillLeader(f, p) \/ KillScout(f, p)
          PROVE  FALSE
      BY <2>0, <2>3, <3>1, Signs DEF KillMember, KillLeader, KillScout, Regard, TypeOK
    <3>2. ASSUME NEW f \in Factions, NEW p \in Players, Bribe(f, p)
          PROVE  FALSE
      BY <2>0, <2>3, <3>2, GiftBounds DEF Bribe, TypeOK
    <3>3. ASSUME NEW p \in Players, NEW q \in Quests, TurnIn(p, q)
          PROVE  Served(g, r)'
      <4>1. standing'[k] = standing[k] + Reward(k, p, q) /\ Reward(k, p, q) \in Int
        BY <3>3, RewardBounds, Signs DEF TurnIn
      <4>2. Reward(k, p, q) > 0
        BY <2>0, <2>3, <4>1
      <4> QED
        BY <3>3, <4>2, RewardIsForService
    <3>4. CASE Decay
      <4>1. standing'[k] = Drifted(standing[k], 0) /\ 0 \in Int
        BY <3>4 DEF Decay
      <4>2. Drifted(standing[k], 0) \in Int /\ Between(0, Drifted(standing[k], 0), standing[k])
        BY <2>0, <4>1, DriftBetween
      <4> HIDE DEF k
      <4>3. ~(standing'[k] > NeutralCap)
        BY <2>0, <2>3, <4>1, <4>2 DEF Between
      <4> QED
        BY <4>3 DEF k
    <3>5. CASE SeasonReset
      BY <2>0, <3>5 DEF SeasonReset
    <3>6. CASE UNCHANGED standing
      BY <2>3, <3>6
    <3> QED
      BY <3>1, <3>2, <3>3, <3>4, <3>5, <3>6 DEF Next, Event, LeadershipBroken, vars
  <2> QED
    BY <2>2, <2>3
<1> QED
  BY <1>1, <1>2, TypeCorrect, PTL DEF Spec

-----------------------------------------------------------------------------
(* No band is skipped *)

StandingBounds == {Hostile, Neutral, Friendly}
RelationBounds == {Peaceful, Tense, War}

\* A step no wider than the narrowest band crosses one bound at most.
LEMMA NarrowStep ==
    ASSUME NEW bounds \in SUBSET Int, NEW x \in Int, NEW y \in Int,
           \A a, b \in bounds : a < b => y - x <= b - a /\ x - y <= b - a
    PROVE  ~Skips(x, y, bounds)
BY DEF Skips

\* Every event is narrower than every band of a player's standing.
LEMMA StandingStep ==
    ASSUME NEW x \in Int, NEW y \in Int,
           \/ y = x \/ y - x = MemberSlain \/ y - x = MemberSlain + MemberSlain
           \/ y - x = LeaderSlain \/ y - x \in QuestHarm .. QuestAid
           \/ y - x \in 0 .. Gift \/ y - x \in -DecayPerDay .. DecayPerDay
    PROVE  ~Skips(x, y, StandingBounds)
<1>1. ASSUME NEW a \in StandingBounds, NEW b \in StandingBounds, a < b
      PROVE  y - x <= b - a /\ x - y <= b - a
  <2>1. /\ -MemberSlain - MemberSlain <= b - a /\ -LeaderSlain <= b - a /\ -QuestHarm <= b - a
        /\ QuestAid <= b - a /\ Gift <= b - a /\ DecayPerDay <= b - a
        /\ a \in Int /\ b \in Int
    BY <1>1, BandAssumption, Signs DEF StandingBounds
  <2> QED
    BY <1>1, <2>1, Signs
<1> QED
  BY <1>1, NarrowStep, Signs DEF StandingBounds

\* Every event is narrower than every band of a pair's relation, and the end of
\* an alliance only leaves the lowest of them.
LEMMA RelationStep ==
    ASSUME NEW x \in Int, NEW y \in Int,
           \/ y = x \/ y - x \in Thaw + Thaw .. 0 \/ y - x = Broken
           \/ y - x \in 0 .. AidVs \/ y - x \in -DecayPerDay .. DecayPerDay
           \/ x <= y /\ x < Peaceful /\ y < Tense
    PROVE  ~Skips(x, y, RelationBounds)
<1>1. CASE x <= y /\ x < Peaceful /\ y < Tense
  BY <1>1, Signs DEF RelationBounds, Skips
<1>2. CASE ~(x <= y /\ x < Peaceful /\ y < Tense)
  <2>1. ASSUME NEW a \in RelationBounds, NEW b \in RelationBounds, a < b
        PROVE  y - x <= b - a /\ x - y <= b - a
    <3>1. /\ -Thaw - Thaw <= b - a /\ AidVs <= b - a /\ Broken <= b - a
          /\ DecayPerDay <= b - a /\ a \in Int /\ b \in Int
      BY <2>1, BandAssumption, Signs DEF RelationBounds
    <3>2. /\ y - x <= AidVs \/ y - x <= Broken \/ y - x <= DecayPerDay \/ y - x <= 0
          /\ x - y <= -Thaw - Thaw \/ x - y <= DecayPerDay \/ x - y <= 0
      BY <1>2, Signs
    <3> QED
      BY <2>1, <3>1, <3>2, Signs
  <2>2. RelationBounds \subseteq Int
    BY Signs DEF RelationBounds
  <2> QED
    BY <2>1, <2>2, NarrowStep
<1> QED
  BY <1>1, <1>2

\* Only the new season moves a player or a pair by more than one band at once.
THEOREM BandsAreNotSkipped == Spec => NoBandSkipped
<1>1. TypeOK /\ [Next]_vars =>
         [\/ Reset
          \/ /\ \A k \in Factions \X Players :
                   ~Skips(standing[k], standing'[k], StandingBounds)
             /\ \A pair \in Pairs :
                   ~Skips(tension[pair], tension'[pair], RelationBounds)]_vars
  <2> SUFFICES ASSUME TypeOK, Next, ~Reset
               PROVE  /\ \A k \in Factions \X Players :
                           ~Skips(standing[k], standing'[k], StandingBounds)
                      /\ \A pair \in Pairs :
                           ~Skips(tension[pair], tension'[pair], RelationBounds)
    OBVIOUS
  <2>1. ASSUME NEW k \in Factions \X Players
        PROVE  ~Skips(standing[k], standing'[k], StandingBounds)
    <3>0. standing[k] \in Int /\ standing \in [Factions \X Players -> Int]
      BY <2>1 DEF TypeOK
    <3>1. ASSUME NEW f \in Factions, NEW p \in Players,
                 KillMember(f, p) \/ KillLeader(f, p) \/ KillScout(f, p)
          PROVE  ~Skips(standing[k], standing'[k], StandingBounds)
      <4>1. /\ standing'[k] \in Int
            /\ \/ standing'[k] = standing[k]
               \/ standing'[k] - standing[k] = MemberSlain
               \/ standing'[k] - standing[k] = MemberSlain + MemberSlain
               \/ standing'[k] - standing[k] = LeaderSlain
        BY <3>0, <3>1, Signs DEF KillMember, KillLeader, KillScout, Regard
      <4> QED
        BY <3>0, <4>1, StandingStep
    <3>2. ASSUME NEW f \in Factions, NEW p \in Players, Bribe(f, p)
          PROVE  ~Skips(standing[k], standing'[k], StandingBounds)
      <4>1. standing'[k] = standing[k] \/ standing'[k] = Bribed(standing[k])
        BY <3>0, <3>2 DEF Bribe
      <4> QED
        BY <3>0, <4>1, GiftBounds, StandingStep
    <3>3. ASSUME NEW p \in Players, NEW q \in Quests, TurnIn(p, q)
          PROVE  ~Skips(standing[k], standing'[k], StandingBounds)
      <4>1. standing'[k] = standing[k] + Reward(k, p, q)
        BY <3>3 DEF TurnIn
      <4>2. Reward(k, p, q) \in QuestHarm .. QuestAid
        BY RewardBounds
      <4>3. standing'[k] \in Int /\ standing'[k] - standing[k] \in QuestHarm .. QuestAid
        BY <3>0, <4>1, <4>2, Signs
      <4> QED
        BY <3>0, <4>3, StandingStep
    <3>4. CASE Decay
      <4>1. standing'[k] = Drifted(standing[k], 0) /\ 0 \in Int
        BY <3>4 DEF Decay
      <4>2. standing'[k] \in Int /\ standing'[k] - standing[k] \in -DecayPerDay .. DecayPerDay
        BY <3>0, <4>1, DriftBetween
      <4> QED
        BY <3>0, <4>2, StandingStep
    <3>5. CASE UNCHANGED standing
      BY <3>0, <3>5, StandingStep
    <3> QED
      BY <3>1, <3>2, <3>3, <3>4, <3>5 DEF Next, Event, LeadershipBroken, SeasonReset, Reset
  <2>2. ASSUME NEW pair \in Pairs
        PROVE  ~Skips(tension[pair], tension'[pair], RelationBounds)
    <3>0. tension[pair] \in Int /\ tension \in [Pairs -> Int] /\ Initial[pair] \in Int
      BY Signs DEF TypeOK
    <3>1. ASSUME NEW f \in Factions, NEW p \in Players, KillMember(f, p)
          PROVE  ~Skips(tension[pair], tension'[pair], RelationBounds)
      <4>1. tension'[pair] \in Int /\ tension'[pair] - tension[pair] \in Thaw .. 0
        BY <3>0, <3>1, ThawBounds DEF KillMember
      <4> QED
        BY <3>0, <4>1, RelationStep, Signs
    <3>2. ASSUME NEW f \in Factions, NEW p \in Players, KillScout(f, p)
          PROVE  ~Skips(tension[pair], tension'[pair], RelationBounds)
      <4> DEFINE t == Thawed(tension, f)
      <4>1. /\ t \in [Pairs -> Int] /\ t[pair] \in Int
            /\ t[pair] - tension[pair] \in Thaw .. 0
        BY <3>0, ThawBounds
      <4>2. /\ Thawed(t, f) \in [Pairs -> Int]
            /\ Thawed(t, f)[pair] - t[pair] \in Thaw .. 0
        BY <4>1, ThawBounds
      <4>3. tension' = Thawed(t, f)
        BY <3>2 DEF KillScout
      <4>4. tension'[pair] \in Int /\ tension'[pair] - tension[pair] \in Thaw + Thaw .. 0
        BY <3>0, <4>1, <4>2, <4>3, Signs
      <4> QED
        BY <3>0, <4>4, RelationStep
    <3>3. ASSUME NEW f \in PairFactions, LeadershipBroken(f)
          PROVE  ~Skips(tension[pair], tension'[pair], RelationBounds)
      <4>1. /\ tension'[pair] \in Int
            /\ tension'[pair] = tension[pair] \/ tension'[pair] - tension[pair] = Broken
        BY <3>0, <3>3, Signs DEF LeadershipBroken
      <4> QED
        BY <3>0, <4>1, RelationStep
    <3>4. ASSUME NEW p \in Players, NEW q \in Quests, TurnIn(p, q)
          PROVE  ~Skips(tension[pair], tension'[pair], RelationBounds)
      <4>1. tension'[pair] = Stirred(pair, q)
        BY <3>4 DEF TurnIn
      <4>2. /\ tension'[pair] \in Int
            /\ \/ tension'[pair] - tension[pair] \in 0 .. AidVs
               \/ /\ tension[pair] <= tension'[pair]
                  /\ tension[pair] < Peaceful /\ tension'[pair] < Tense
        BY <3>0, <4>1, StirBounds, Signs
      <4> QED
        BY <3>0, <4>2, RelationStep
    <3>5. CASE Decay
      <4>1. tension'[pair] = Drifted(tension[pair], Initial[pair])
        BY <3>5 DEF Decay
      <4> QED
        BY <3>0, <4>1, DriftBetween, RelationStep
    <3>6. CASE UNCHANGED tension
      BY <3>0, <3>6, RelationStep
    <3> QED
      BY <3>1, <3>2, <3>3, <3>4, <3>5, <3>6
      DEF Next, Event, KillLeader, Bribe, SeasonReset, Reset
  <2> QED
    BY <2>1, <2>2
<1> QED
  BY <1>1, TypeCorrect, PTL DEF Spec, NoBandSkipped, StandingBounds, RelationBounds

-----------------------------------------------------------------------------
(* Decay *)

\* A day's drift never crosses the score it drifts to.
THEOREM DecayDoesNotCross == Spec => DecayNeverCrosses
<1>1. TypeOK /\ [Next]_vars =>
         [Decay =>
            /\ \A k \in Factions \X Players : Between(0, standing'[k], standing[k])
            /\ \A pair \in Pairs : Between(Initial[pair], tension'[pair], tension[pair])]_vars
  <2> SUFFICES ASSUME TypeOK, Decay
               PROVE  /\ \A k \in Factions \X Players : Between(0, standing'[k], standing[k])
                      /\ \A pair \in Pairs : Between(Initial[pair], tension'[pair], tension[pair])
    OBVIOUS
  <2>1. ASSUME NEW k \in Factions \X Players
        PROVE  Between(0, standing'[k], standing[k])
    <3>1. standing[k] \in Int /\ 0 \in Int /\ standing'[k] = Drifted(standing[k], 0)
      BY DEF TypeOK, Decay
    <3> QED
      BY <3>1, DriftBetween
  <2>2. ASSUME NEW pair \in Pairs
        PROVE  Between(Initial[pair], tension'[pair], tension[pair])
    <3>1. /\ tension[pair] \in Int /\ Initial[pair] \in Int
          /\ tension'[pair] = Drifted(tension[pair], Initial[pair])
      BY Signs DEF TypeOK, Decay
    <3> QED
      BY <3>1, DriftBetween
  <2> QED
    BY <2>1, <2>2
<1> QED
  BY <1>1, TypeCorrect, PTL DEF Spec, DecayNeverCrosses

\* How far a score is off its target.
Off(score, target) == IF score > target THEN score - target ELSE target - score

\* A day brings a score nearer by a day's drift, or all the way.
LEMMA DriftGains ==
    ASSUME NEW score \in Int, NEW target \in Int
    PROVE  Off(Drifted(score, target), target) = Larger(0, Off(score, target) - DecayPerDay)
BY Signs DEF Off, Drifted, Larger, Smaller

\* What a day does for every grudge and every bond: it is a day's drift nearer to
\* where the season began, or there (decay_tick).
DecayGains ==
    [][Decay =>
         /\ \A k \in Factions \X Players :
               Off(standing'[k], 0) = Larger(0, Off(standing[k], 0) - DecayPerDay)
         /\ \A pair \in Pairs :
               Off(tension'[pair], Initial[pair])
                 = Larger(0, Off(tension[pair], Initial[pair]) - DecayPerDay)]_vars

\* No score is left out by a day's decay: with any drift at all the days that a grudge
\* takes to fade are its distance over the drift of a day.
THEOREM DecayBringsNearer == Spec => DecayGains
<1>1. TypeOK /\ [Next]_vars =>
         [Decay =>
            /\ \A k \in Factions \X Players :
                  Off(standing'[k], 0) = Larger(0, Off(standing[k], 0) - DecayPerDay)
            /\ \A pair \in Pairs :
                  Off(tension'[pair], Initial[pair])
                    = Larger(0, Off(tension[pair], Initial[pair]) - DecayPerDay)]_vars
  <2> SUFFICES ASSUME TypeOK, Decay
               PROVE  /\ \A k \in Factions \X Players :
                            Off(standing'[k], 0) = Larger(0, Off(standing[k], 0) - DecayPerDay)
                      /\ \A pair \in Pairs :
                            Off(tension'[pair], Initial[pair])
                              = Larger(0, Off(tension[pair], Initial[pair]) - DecayPerDay)
    OBVIOUS
  <2>1. ASSUME NEW k \in Factions \X Players
        PROVE  Off(standing'[k], 0) = Larger(0, Off(standing[k], 0) - DecayPerDay)
    <3>1. standing[k] \in Int /\ 0 \in Int /\ standing'[k] = Drifted(standing[k], 0)
      BY <2>1 DEF TypeOK, Decay
    <3> QED
      BY <3>1, DriftGains
  <2>2. ASSUME NEW pair \in Pairs
        PROVE  Off(tension'[pair], Initial[pair])
                 = Larger(0, Off(tension[pair], Initial[pair]) - DecayPerDay)
    <3>1. /\ tension[pair] \in Int /\ Initial[pair] \in Int
          /\ tension'[pair] = Drifted(tension[pair], Initial[pair])
      BY <2>2, Signs DEF TypeOK, Decay
    <3> QED
      BY <3>1, DriftGains
  <2> QED
    BY <2>1, <2>2
<1> QED
  BY <1>1, TypeCorrect, PTL DEF Spec, DecayGains
=============================================================================
