\* Requests from one unit to more than a page in a heap of four pages.
CONSTANTS
  Start = 8
  Header = 2
  Align = 2
  Page = 8
  Frames = 4
  Sizes = {2, 5, 9}
SPECIFICATION FairSpec
INVARIANTS TypeOK HeapSound HeldMemory
PROPERTIES CallsReturn
