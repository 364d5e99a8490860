\* Three slots and up to five windows, raised six times in a row or more often; a
\* history of two commands of two letters; a board of four by three; ints of eight
\* bits; names of two letters and an extension of one.
CONSTANTS
  Slots = {0, 1, 2}
  Block = {b1, b2, b3}
  ZLimit = 9
  MaxZ = 6
  MaxId = 5
  MaxPackets = 4
  Char = {1, 2}
  MAX_COMMAND_LEN = 3
  Columns = 4
  MaxShown = 5
  MAX_HISTORY = 2
  MaxCommands = 3
  GAME_WIDTH = 4
  GAME_HEIGHT = 3
  SNAKE_MAX_LEN = 4
  StartX = 2
  StartY = 1
  MaxScore = 20
  MaxInt = 127
  Size = 5
  Quad = {0, 7, 10, 127}
  StrChar = {1, 2}
  MaxStr = 5
  FileName <- Names
  NameSize = 2
  ExtSize = 1
  LowByte = {"0", "5"}
  Image <- Images
  RootEntries = 3
  MAX_FILES = 2
  Channels = {0, 1, 5, 6, 7}
  Bands = {0, 1, 2, 3, 4, 5, 6, 7, 8, 9}
  Place <- Places
  ClickX = {12, 79, 80, 381, 421, 490, 530, 559}
  ClickY = {5, 41, 47, 62, 65, 118, 119, 135, 166, 172, 188}
  MaxClicks = 3
SPECIFICATION MCSpec
SYMMETRY BlockSymmetry
INVARIANTS TypesOK FrontIsLatest WindowsKeepTheirOwn OneWrongPerLoss RunsWhatIsShown BodyIsAPath StringsAgree ListedFilesOpen
\* A session ends at its bound, the windows' one with a click on the start button.
CHECK_DEADLOCK FALSE
