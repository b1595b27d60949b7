\* Two allies and the Cult, quests of every kind, a decay wider than a point.
CONSTANTS
  aid = aid
  feud = feud
  bribe = bribe
  spy = spy
  Players = {"ana"}
  Nobody = Nobody
  Cult = "cult"
  SpyQuestsToAmbush = 1
  Factions <- MCFactions
  PairFactions <- MCFactions
  Initial <- MCInitial
  Quests <- MCQuests
  Bounties = {feud}
  SpyQuests = {spy}
  Harms <- MCHarms
  Aids <- MCAids
  Against <- MCAgainst
  Breaks <- MCBreaks
  Hostile <- Neg3
  Neutral <- Neg1
  Friendly = 2
  Peaceful <- Neg1
  Tense = 1
  War = 3
  MemberSlain <- Neg1
  LeaderSlain <- Neg2
  QuestAid = 2
  QuestHarm <- Neg2
  Gift = 1
  Thaw <- Neg1
  AidVs = 2
  Broken = 1
  BrokenAlliance <- Neg1
  DecayPerDay = 2
  Gifts = TRUE
  Met = {"goblin", "cult"}
  MinStanding <- Neg4
  MaxStanding = 3
  MaxTension = 4
SPECIFICATION FairSpec
INVARIANTS TypeOK NoForgedAlliance
PROPERTIES GrudgesFade
