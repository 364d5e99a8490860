\* A read that finds the ring empty.
CONSTANTS
  Char = {a, nl}
  NoChar = NoChar
  Newline = nl
  Size = 4
  MaxWant = 3
SPECIFICATION FairSpec
PROPERTY ReadWakes
CHECK_DEADLOCK FALSE
