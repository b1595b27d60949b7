SPECIFICATION WorldSpec
CONSTANTS
    Tribes <- MCTribes
    RoomsOf <- MCRoomsOf
    ExitsOf <- MCExitsOf
    NpcsOf <- MCNpcsOf
    SpawnsOf <- MCSpawnsOf
    Gates <- WildernessGates
    PriestPool <- PRIEST_POOL
    RecallPoint <- MCRecallPoint
    AltarRoom <- MCAltarRoom
    Ravine <- MCRavine
    RavineMouth <- MCRavineMouth
    WildMouth <- MCWildMouth
    Templates <- MCTemplates
    GridWays <- HexWays
    NoRecall <- MCNoRecall
    Givers <- MCGivers
    QuestsOf <- MCQuestsOf
    Baseline = 2
    Populated = 5
    MaxMishaps = 1
INVARIANTS WorldTypeOK WholeAfterBuild NobodyIsTrapped QuestsCanBeDone
PROPERTIES WorldHeals
