\* One driver of each kind, two AHCI and one USB host driver, a network card; two mixer channels and
\* a heap of two blocks; rings and pools small enough to wrap and to run out.
CONSTANTS
  Ata = ata
  Serial = serial
  NoInit = {null, hid}
  UsbClass = {hid}
  Sata = {s1, s2}
  Usb = {u1}
  Network = {rtl}
  Scans <- Scanned
  MaxNumber = 6
  MaxTag = 6
  MaxLun = 1
  PoolSize = 8
  Polls = 3
  RingSize = 3
  MaxCommands = 4
  HidDevice = {h1}
  AudioDevice = {a1}
  ByInterface = {i1}
  Key = {4, 5}
  Slots = 3
  Modifier = {ctrl}
  Button = {left}
  Melody <- Songs
  Channels = 2
  Samples = 1
  Size = {1}
  MaxEffects = 1
  Block = {b1, b2}
SPECIFICATION BoundedSpec
SYMMETRY BlockSymmetry
INVARIANTS DriversAccounted ReadGivesItsBlocks ControllersInStep HandlersKnow SoundOwned
\* A session ends at its bound.
CHECK_DEADLOCK FALSE
