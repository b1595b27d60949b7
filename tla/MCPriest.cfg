\* Two players, a pool of two, one reset that may be cut short.
CONSTANTS
  ana = ana
  bo = bo
  anselm = anselm
  maeve = maeve
  candles = candles
  dagger = dagger
  password = password
  Players <- MCPlayers
  Clerics <- MCClerics
  Pool <- MCPool
  Clues <- MCClues
  NightActs <- MCNightActs
  Planted <- MCPlanted
  Smoking <- MCSmoking
  ClueCount = 2
  CurateThreshold = 1
  ReportThreshold = 2
  Aura = Aura
  MaxSeason = 2
  MaxCrashes = 1
SPECIFICATION Spec
INVARIANTS TypeOK NobodyAccusesOnHearsay OneUnmaskingASeason
PROPERTIES KeepsTheHunt
