SPECIFICATION Spec
CONSTANTS
  Netif = {en0, en1}
  Callback = {profinet, lldp}
  Arg = {a1, a2}
  Buf = {b1, b2, b3}
  MaxInterfaces = 1
  None = None
INVARIANTS
  TypeOK
  BuffersAccounted
  RightCallback
  DeliveredOnceReady
CHECK_DEADLOCK FALSE
