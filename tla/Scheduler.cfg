\* Three PCB slots, so that slots are reused and the heap can be full; no
\* symmetry, because of the liveness properties.
CONSTANTS
  Addr = {a1, a2, a3}
  MaxPid = 4
SPECIFICATION FairSpec
INVARIANTS TypeOK ListSound ContextMatches
PROPERTIES FinishedForGood RoundRobin ExitReaped
