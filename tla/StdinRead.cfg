\* A newline and one other character, in a ring of four.
CONSTANTS
  Char = {a, nl}
  NoChar = NoChar
  Newline = nl
  Size = 4
  MaxWant = 3
SPECIFICATION FairSpec
INVARIANTS TypeOK
PROPERTIES FifoSpec LineRead BufferedReadReturns
\* A read of an empty ring stops the machine: see StdinRead_wakes.cfg.
CHECK_DEADLOCK FALSE
