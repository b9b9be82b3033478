SPECIFICATION Spec
CONSTANTS
  Char = {a, b, c}
  Nul = a
  RbLen = 4
  Word = 16
  EmptyError = EmptyError
INVARIANTS
  TypeOK
  SlotIsSafe
  AvailNeverOverstates
PROPERTIES
  FifoSpec
