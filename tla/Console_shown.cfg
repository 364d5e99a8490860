\* What is printed between two frames.
CONSTANTS
  Letter = {a, b}
  Columns = 2
  Rows = 2
  MaxPrinted = 5
SPECIFICATION ConsoleSpec
INVARIANT DrawingsAreShown
CHECK_DEADLOCK FALSE
