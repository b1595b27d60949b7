\* The numbers of the game: an alliance broken by a bribe.
CONSTANTS
  aid = aid
  feud = feud
  bribe = bribe
  spy = spy
  Players = {"ana"}
  Nobody = Nobody
  Cult = "cult"
  SpyQuestsToAmbush = 1
  Factions <- RealFactions
  PairFactions <- RealFactions
  Initial <- RealInitial
  Quests <- RealQuests
  Bounties = {}
  SpyQuests = {}
  Harms <- RealHarms
  Aids <- RealAids
  Against <- RealAgainst
  Breaks <- RealBreaks
  Hostile <- Neg29
  Neutral <- Neg14
  Friendly = 15
  Peaceful <- Neg9
  Tense = 5
  War = 20
  MemberSlain <- Neg3
  LeaderSlain <- Neg8
  QuestAid = 10
  QuestHarm <- Neg10
  Gift = 5
  Thaw <- Neg1
  AidVs = 8
  Broken = 6
  BrokenAlliance <- Neg9
  DecayPerDay = 1
  Gifts = FALSE
  Met = {"goblin"}
  MinStanding <- Neg31
  MaxStanding = 25
  MaxTension = 26
SPECIFICATION Spec
PROPERTY BrokenAllianceHolds
