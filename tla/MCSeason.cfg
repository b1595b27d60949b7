\* Two characters, three seasons, two resets or deaths cut short.
CONSTANTS
  ana = ana
  bo = bo
  Characters <- MCCharacters
  Hardcore <- MCHardcore
  SeasonLength = 3
  WarnOffsets = {1, 2}
  MaxNow = 7
  MaxSeason = 3
  MaxCrashes = 2
SPECIFICATION FairSpec
INVARIANTS OnePlacement ClosedSeasonIsOnBoard
PROPERTIES NewSeasonStartsClean TimedEndIsWarned SeasonLasts SeasonTurns
