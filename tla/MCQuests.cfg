\* Four pursuits in turn, bounties taken twice, one turn-in cut short; every
\* behaviour ends where the bounds do.
CONSTANTS
  ana = ana
  bo = bo
  kobold_cull = kobold_cull
  expose_priest = expose_priest
  sp_package = sp_package
  sp_reagent = sp_reagent
  sp_minister = sp_minister
  into_the_maze = into_the_maze
  cleanse_the_shrine = cleanse_the_shrine
  beast = beast
  kobold = kobold
  suspicions = suspicions
  Players <- MCPlayers
  Catalog <- MCCatalog
  Factions <- MCFactions
  Kills <- MCKills
  Prey <- MCPrey
  Repeatable <- MCRepeatable
  Prior <- MCPrior
  NeedsReport <- MCNeedsReport
  NeedsCurate <- MCNeedsCurate
  Exposing <- MCExposing
  AidsCult <- MCAidsCult
  MinLevel <- MCMinLevel
  Level <- MCLevel
  Cooldown = 2
  ToAmbush = 2
  Pursuits <- MCPursuits
  MaxSlain = 4
  MaxTimes = 2
  MaxNow = 3
  MaxHunts = 2
  MaxCrashes = 1
SPECIFICATION Spec
CHECK_DEADLOCK FALSE
INVARIANTS TypeOK PaidForWhatIsDone KillsBackCompletions AmbushOnce

