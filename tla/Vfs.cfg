\* Two descriptors, up to three files of no and two sectors.
CONSTANTS
  Names <- TwoNames
  Stored <- StoredForms
  Fold <- Folded
  Data = {d1}
  Greeting = greeting
  GreetingName = "SELAM.TXT"
  Sizes = {0, 3}
  SectorSize = 2
  Entries = 3
  Sectors = 9
  CountLimit = 16
  ClusterLimit = 32
  Fds = {0, 1}
  Node = {n1, n2}
  Implants = {"null", "garbage"}
  ReadSizes = {2}
SPECIFICATION MCVfsSpec
SYMMETRY NodeSymmetry
INVARIANTS VfsTypeOK DescriptorsSound FilesSound
PROPERTIES FilesAsStored
CHECK_DEADLOCK FALSE
