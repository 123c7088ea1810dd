CONSTANTS
  W = 4
  H = 3
  Glyphs <- TwoGlyphs
  Blank = " "
  MaxMarks = 3
SPECIFICATION TerminalSpec
CONSTRAINT FewMarks
INVARIANTS TerminalTypeOK
PROPERTY RowsMoveWhole
