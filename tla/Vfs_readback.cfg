\* A name that is written twice.
CONSTANTS
  Names <- TwoNames
  Stored <- StoredForms
  Fold <- Folded
  Data = {d1}
  Greeting = greeting
  GreetingName = "SELAM.TXT"
  Sizes = {0, 3}
  SectorSize = 2
  Entries = 2
  Sectors = 10
  CountLimit = 16
  ClusterLimit = 32
  Fds = {0, 1}
  Node = {n1, n2}
  Implants = {"null", "garbage"}
  ReadSizes = {2}
SPECIFICATION VfsSpec
INVARIANT ReadBack
CHECK_DEADLOCK FALSE
