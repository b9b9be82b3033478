SPECIFICATION FairSpec
CONSTANTS
  Capacity = 1
  StdinSizes = {1, 2}
  CmdlineSize = 3
  Plain = {}
  Other = {bel}
  Bracket = br
  ArrowUp = up
  ArrowOther = dn
  Space = sp
  Esc = esc
  Erase = bs
  CR = cr
  LF = lf
  NUL = nul
  EOF = eof
  Typed <- AllTyped
INVARIANTS
  TypeOK
  NeverEof
  ScreenShowsLine
  HistoryIsLastLine
PROPERTIES
  InputIsHandled
CHECK_DEADLOCK FALSE
