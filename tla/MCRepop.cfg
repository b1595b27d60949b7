\* Play without mishap: no crash, no cure cast on the dead, no operator.
CONSTANTS
  chief = chief
  shaman = shaman
  grunt = grunt
  acolyte = acolyte
  Points <- MCPoints
  Tribes <- MCTribes
  TribeOf <- MCTribeOf
  Role <- MCRole
  Respawn <- MCRespawn
  ShrinePoints <- MCShrinePoints
  Rival <- MCRival
  NoRival = NoRival
  ScoutPartySize = 2
  LeadershipHalt = 3
  ShrineReset = 4
  Built = {"kobold", "cult"}
  MaxLag = 5
  DeadCurable = FALSE
  OperatorRebuild = FALSE
  Crashes = FALSE
SPECIFICATION FairSpec
INVARIANTS TypeOK HaltedIsLeaderless
PROPERTIES ShrineRestocksWhole KeepsPromise
