\* Two near hosts and one far; a cache of two names; a ring of 32 bytes for frames of
\* 12 and 16 with their headers; a word of two base-3 digits.
SPECIFICATION Spec
CONSTANTS
  g = g
  h = h
  f = f
  all = all
  Near = {g, h}
  Far = {f, all}
  Gateway = g
  Mac = {m1, m2}
  Fresh = 1
  Name = {n1, n2, n3}
  Address = {a1, a2}
  Server = f
  CacheSize = 2
  Ttl = {1, 3}
  Minute = 2
  MaxId = 3
  MaxTime = 3
  FirstXid <- FirstXidOfBoot
  Everyone = all
  DhcpServer <- DottedQuad
  Offered <- DottedQuad
  Lease = {1, 4}
  OptionSpace = 40
  MaxSent = 5
  MaxSeconds = 3
  Ring = 32
  Length = {5, 9}
  Stray = {8, 12}
  UserSize = {6, 12}
  MaxFrames = 7
  Wait = 10
  Timeout = 30
  Lines = 2
  Base = 3
  MaxSize = 4
INVARIANTS LeaseInStep LoginStands OneByteIsCaught
PROPERTIES CachesAreCurrent
\* The session of the checksums ends once its packet is accepted or refused.
CHECK_DEADLOCK FALSE
