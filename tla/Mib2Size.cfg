SPECIFICATION Spec
CONSTANTS
  a = a
  b = b
  Nul = Nul
  Up = Up
  Down = Down
  Testing = Testing
  Garbage = Garbage
  None = None
  StringSize = 3
  ValueSizes = {1}
  Octets <- MCOctets
  Texts <- MCTexts
  Index = {1, 2}
  Requests <- MCRequests
INVARIANTS
  GetsVariable
