SPECIFICATION WalkSpec
CONSTANTS
  full = full
  plain = plain
  local = local
  NumPorts = 2
  Peer = {full, plain}
  Local = local
  None = None
  MaxTime = 1
  Offers <- MCOffers
  Oversized <- MCOversized
  Address <- MCAddress
INVARIANTS
  TypeOK
  RowAdvances
  DeviceRowExisted
  NearestCell
  NoCellMissed
  WalkComplete
