SPECIFICATION Spec
CONSTANTS
  Owner = owner
  Other = {other}
  Below = {owner}
  Us = {2, 5}
  UsPerMs = 2
  MsPerTick = 1
  QueueLength = 1
  MaxCalls = 3
  MaxLate = 1
  Modulus = 8
  Timeouts = {0, 3, 4, 7}
INVARIANTS
  TypeOK
  FreedIsQuiet
  StoppedIsQuiet
  RightPeriod
  StartIsKept
  ExpiredIsElapsed
PROPERTIES
  Fires
