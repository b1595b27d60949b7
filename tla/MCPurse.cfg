\* Two adventurers, one ware, one gem, one recruit, one corpse at a time, three rooms.
CONSTANTS
  rogue = rogue
  paladin = paladin
  sword = sword
  ruby = ruby
  footman = footman
  grave = grave
  Characters = {rogue, paladin}
  Hardcore = {paladin}
  Classed = {rogue}
  LevelStart <- MCLevelStart
  Corpses = {grave}
  Rooms = {"bailey", "market", "wild"}
  Keep = {"bailey", "market"}
  Bank = "market"
  Trader = "market"
  Tavern = "market"
  Bailey = "bailey"
  Items = {sword, ruby}
  Gems = {ruby}
  Vendors <- MCVendors
  Value <- MCValue
  Retainers = {footman}
  HireFee <- MCHireFee
  Cap <- MCCap
  Orders = {"follow", "wait"}
  Rewards = {2}
  MaxWon = 2
SPECIFICATION Spec
INVARIANTS TypeOK NoCoinFromNothing TreasureTeachesOnce FollowersKeepUp
PROPERTIES DeathSecuresNothing
