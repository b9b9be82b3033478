SPECIFICATION Spec
CONSTANTS
  a1 = a1
  a2 = a2
  m1 = m1
  m2 = m2
  g1 = g1
  Addr = {a1, a2}
  Mask = {m1, m2}
  Gateway = {g1}
  NoAddr = NoAddr
  None = None
  Stored <- MCStored
  Configured <- MCConfigured
  MaxRetry = 3
  MaxEvents = 2
INVARIANTS
  TypeOK
  SettledDatabase
PROPERTIES
  DatabaseCatchesUp
CHECK_DEADLOCK FALSE
