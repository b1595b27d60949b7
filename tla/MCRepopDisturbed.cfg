\* Everything may happen: crashes inside every handler, cures on the dead, rebuilds.
CONSTANTS
  chief = chief
  shaman = shaman
  grunt = grunt
  acolyte = acolyte
  Points <- MCPoints
  Tribes <- MCTribes
  TribeOf <- MCTribeOf
  Role <- MCRole
  Respawn <- MCShortRespawn
  ShrinePoints <- MCShrinePoints
  Rival <- MCRival
  NoRival = NoRival
  ScoutPartySize = 1
  LeadershipHalt = 2
  ShrineReset = 2
  Built = {"kobold", "cult"}
  MaxLag = 1
  DeadCurable = TRUE
  OperatorRebuild = TRUE
  Crashes = TRUE
SPECIFICATION Spec
INVARIANT FallenIsPending
