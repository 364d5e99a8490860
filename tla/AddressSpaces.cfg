\* Seven frames for the processes: every kind of use, until memory runs out.
CONSTANTS
  FRAMES_COUNT = 9
  Low = 2
  PAGE_SIZE = 2
  PerTable = 2
  Pages = 12
  ShmPage = 6
  UserStack = 8
  BreakLimit = 16
  ElfStack = 10
  ShmSlots = 2
  Keys = {k1, k2, k3}
  Images <- ApartImages
  Increments <- SomeIncrements
  Garbage = {1}
  MaxProcs = 2
SPECIFICATION SpacesSpec
SYMMETRY KeySymmetry
INVARIANTS SpacesTypeOK OneUse
PROPERTIES MemoryStays
CHECK_DEADLOCK FALSE
