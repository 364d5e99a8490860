---------------------------- MODULE Memory_proof ----------------------------
(***************************************************************************)
(* Proofs about core/memory/memory.c.  First KernelHeap, for every page,   *)
(* header and request size: the blocks tile the heap at every step of      *)
(* every call, memory in use is nobody else's, and kfree leaves no two     *)
(* free neighbours.  Then AddressSpaces, for every number of frames, pages *)
(* and processes and every image: a frame has one use, the break is mapped *)
(* and what lies below it stays, and regions keep their key and frame.     *)
(***************************************************************************)
EXTENDS KernelHeap, AddressSpaces, NatLemmas, TLAPS

(* Where the cursors of the loops may stand. *)
CursorsOnList ==
  /\ pc = "scan" =>
       /\ curr \in blocks
       /\ prev # Null => prev \in blocks
  /\ pc = "expand" =>
       /\ prev = Null => blocks = {}
       /\ prev # Null => prev \in blocks /\ nxt[prev] = Null
  /\ pc = "coalesce" => curr \in blocks

(* The search has passed over no block that fits. *)
NothingSkipped ==
  pc = "scan" => \A b \in blocks : b < curr => ~(is_free[b] /\ size[b] >= req)

(* The coalescing loop leaves no free neighbours behind it. *)
MergedBehind ==
  pc = "coalesce" =>
    \A b \in blocks : b < curr => ~(is_free[b] /\ nxt[b] # Null /\ is_free[nxt[b]])

HeapInv ==
  /\ TypeOK
  /\ Tiled
  /\ CursorsOnList

SearchInv == NothingSkipped /\ ExpandsOnlyWhenFull /\ MergedBehind

-----------------------------------------------------------------------------
LEMMA RoundUpBounds ==
  ASSUME NEW n \in Nat, NEW a \in Nat \ {0}
  PROVE  RoundUp(n, a) \in Nat /\ n <= RoundUp(n, a) /\ RoundUp(n, a) < n + a
<1>1. n % a \in 0 .. a - 1
  OBVIOUS
<1> QED BY <1>1 DEF RoundUp

LEMMA MappedBounds ==
  ASSUME NEW s \in Nat
  PROVE  Mapped(s) \in Nat /\ s + Header <= Mapped(s)
<1>1. s + Header \in Nat /\ Page \in Nat \ {0}
  BY HeapAssumption
<1>2. RoundUp(s + Header, Page) \in Nat /\ s + Header <= RoundUp(s + Header, Page)
  BY <1>1, RoundUpBounds
<1> QED BY <1>2 DEF Mapped, Needed

(* A position inside a block is not the header of another one. *)
LEMMA TilesApart ==
  ASSUME NEW B \in SUBSET Nat, NEW sz \in [B -> Nat], NEW nx \in [B -> Nat],
         NEW lo \in Nat, NEW hi \in Nat, Tiles(B, sz, nx, lo, hi),
         NEW c \in B, NEW p \in Nat, c < p, p < Payload(c) + sz[c]
  PROVE  p \notin B
BY HeapAssumption DEF Tiles, Payload

(* Splitting block c after r bytes of its payload. *)
LEMMA TilesSplit ==
  ASSUME NEW B \in SUBSET Nat, NEW sz \in [B -> Nat], NEW nx \in [B -> Nat],
         NEW lo \in Nat \ {0}, NEW hi \in Nat, Tiles(B, sz, nx, lo, hi),
         NEW c \in B, NEW r \in Nat, r + Header < sz[c],
         NEW b \in Nat, b = Payload(c) + r,
         NEW sz2, NEW nx2,
         sz2[c] = r, sz2[b] = sz[c] - r - Header,
         nx2[c] = b, nx2[b] = nx[c],
         \A x \in B \ {c} : sz2[x] = sz[x] /\ nx2[x] = nx[x]
  PROVE  b \notin B /\ Tiles(B \union {b}, sz2, nx2, lo, hi)
<1> USE HeapAssumption DEF Payload
<1>1. c < b /\ b < c + Header + sz[c] /\ c + Header + sz2[c] = b
  OBVIOUS
<1>2. b \notin B
  BY <1>1 DEF Tiles
<1>3. b + Header + sz2[b] = c + Header + sz[c]
  OBVIOUS
<1>4. \A x, y \in B \union {b} : x < y => x + Header + sz2[x] <= y
  <2>1. TAKE x, y \in B \union {b}
  <2>2. CASE x \in B \ {c} /\ y \in B
    BY <2>2 DEF Tiles
  <2>3. CASE x \in B \ {c} /\ y = b
    BY <1>1, <2>3 DEF Tiles
  <2>4. CASE x = c
    BY <1>1, <2>4 DEF Tiles
  <2>5. CASE x = b
    BY <1>1, <1>3, <2>5 DEF Tiles
  <2> QED BY <2>2, <2>3, <2>4, <2>5
<1>5. ASSUME NEW x \in B \union {b}
      PROVE  /\ lo <= x /\ x + Header + sz2[x] <= hi
             /\ nx2[x] = IF x + Header + sz2[x] = hi THEN Null ELSE x + Header + sz2[x]
             /\ nx2[x] # Null => nx2[x] \in B \union {b}
  <2>1. CASE x \in B \ {c}
    BY <2>1 DEF Tiles
  <2>2. CASE x = c
    BY <1>1, <2>2 DEF Tiles, Null
  <2>3. CASE x = b
    BY <1>1, <1>3, <2>3 DEF Tiles
  <2> QED BY <2>1, <2>2, <2>3
<1>6. lo \in B \union {b}
  BY DEF Tiles
<1> QED BY <1>2, <1>4, <1>5, <1>6 DEF Tiles

(* Appending block hi, of s bytes with its header, after the last one, p,  *)
(* or as the first one if there is none.                                   *)
LEMMA TilesAppend ==
  ASSUME NEW B \in SUBSET Nat, NEW sz \in [B -> Nat], NEW nx \in [B -> Nat],
         NEW lo \in Nat \ {0}, NEW hi \in Nat, lo <= hi, Tiles(B, sz, nx, lo, hi),
         NEW s \in Nat, Header <= s,
         NEW sz2, NEW nx2,
         sz2[hi] = s - Header, nx2[hi] = Null,
         \A x \in B : sz2[x] = sz[x],
         \A x \in B : nx2[x] = IF nx[x] = Null THEN hi ELSE nx[x]
  PROVE  hi \notin B /\ Tiles(B \union {hi}, sz2, nx2, lo, hi + s)
<1> USE HeapAssumption DEF Payload
<1>1. \A x \in B : x < hi
  BY DEF Tiles
<1>2. hi + Header + sz2[hi] = hi + s /\ hi \notin B
  BY <1>1
<1>3. \A x, y \in B \union {hi} : x < y => x + Header + sz2[x] <= y
  BY <1>1 DEF Tiles
<1>4. ASSUME NEW x \in B \union {hi}
      PROVE  /\ lo <= x /\ x + Header + sz2[x] <= hi + s
             /\ nx2[x] = IF x + Header + sz2[x] = hi + s THEN Null
                                                     ELSE x + Header + sz2[x]
             /\ nx2[x] # Null => nx2[x] \in B \union {hi}
  <2>1. CASE x \in B
    BY <2>1, <1>1 DEF Tiles, Null
  <2>2. CASE x = hi
    BY <2>2, <1>2
  <2> QED BY <2>1, <2>2
<1>5. lo \in B \union {hi}
  BY DEF Tiles
<1> QED BY <1>2, <1>3, <1>4, <1>5 DEF Tiles

(* Joining block c and the one after it, d. *)
LEMMA TilesMerge ==
  ASSUME NEW B \in SUBSET Nat, NEW sz \in [B -> Nat], NEW nx \in [B -> Nat],
         NEW lo \in Nat \ {0}, NEW hi \in Nat, Tiles(B, sz, nx, lo, hi),
         NEW c \in B, NEW d \in B, nx[c] = d, d # Null,
         NEW sz2, NEW nx2,
         sz2[c] = sz[c] + sz[d] + Header, nx2[c] = nx[d],
         \A x \in B \ {c, d} : sz2[x] = sz[x] /\ nx2[x] = nx[x]
  PROVE  c < d /\ Tiles(B \ {d}, sz2, nx2, lo, hi)
<1> USE HeapAssumption DEF Payload
<1>1. d = c + Header + sz[c] /\ c < d
  BY DEF Tiles
<1>2. c + Header + sz2[c] = d + Header + sz[d]
  BY <1>1
<1>3. \A x, y \in B \ {d} : x < y => x + Header + sz2[x] <= y
  <2>1. TAKE x, y \in B \ {d}
  <2>2. CASE x # c
    BY <2>2 DEF Tiles
  <2>3. CASE x = c
    BY <1>1, <1>2, <2>3 DEF Tiles
  <2> QED BY <2>2, <2>3
<1>4. ASSUME NEW x \in B \ {d}
      PROVE  /\ lo <= x /\ x + Header + sz2[x] <= hi
             /\ nx2[x] = IF x + Header + sz2[x] = hi THEN Null ELSE x + Header + sz2[x]
             /\ nx2[x] # Null => nx2[x] \in B \ {d}
  <2>1. CASE x = c
    BY <1>1, <1>2, <2>1 DEF Tiles
  <2>2. CASE x # c
    <3>1. nx[x] # d
      BY <1>1, <2>2 DEF Tiles
    <3> QED BY <2>2, <3>1 DEF Tiles
  <2> QED BY <2>1, <2>2
<1>5. lo \in B \ {d}
  BY <1>1 DEF Tiles
<1> QED BY <1>1, <1>3, <1>4, <1>5 DEF Tiles

-----------------------------------------------------------------------------
LEMMA BreakBehindStart ==
  ASSUME HeapInv
  PROVE  Start \in Nat \ {0} /\ Start <= brk /\ (brk = Start <=> blocks = {})
BY HeapAssumption DEF HeapInv, TypeOK, Tiled, Tiles, Payload, Null

LEMMA InitHeapInv == Init => HeapInv
<1> SUFFICES ASSUME Init PROVE HeapInv
  OBVIOUS
<1>1. TypeOK
  <2>1. size \in [blocks -> Nat] /\ nxt \in [blocks -> Nat]
    BY DEF Init
  <2>2. is_free \in [blocks -> BOOLEAN]
    BY DEF Init
  <2> QED BY <2>1, <2>2, HeapAssumption DEF Init, TypeOK, Null
<1>2. Tiled
  BY DEF Init, Tiled, Tiles
<1>3. CursorsOnList
  BY DEF Init, CursorsOnList
<1> QED BY <1>1, <1>2, <1>3 DEF HeapInv

LEMMA MallocHeapInv ==
  ASSUME HeapInv, NEW n \in Sizes, NEW al \in BOOLEAN, Malloc(n, al)
  PROVE  HeapInv'
<1> USE DEF HeapInv
<1>1. n \in Nat /\ n + Page \in Nat
  BY HeapAssumption
<1>2. req' \in Nat
  <2>1. RoundUp(n, Align) \in Nat /\ RoundUp(n + Page, Align) \in Nat
    BY <1>1, RoundUpBounds, HeapAssumption
  <2> QED BY <2>1 DEF Malloc, Padded
<1>3. TypeOK'
  BY <1>1, <1>2, HeapAssumption DEF TypeOK, Malloc, list, Null
<1>4. Tiled'
  BY DEF Malloc, Tiled, list
<1>5. CursorsOnList'
  BY BreakBehindStart, HeapAssumption
     DEF Malloc, Tiled, Tiles, CursorsOnList, list, Null
<1> QED BY <1>3, <1>4, <1>5

LEMMA ReturnTypes ==
  ASSUME HeapInv, curr \in blocks, ReturnBlock(curr)
  PROVE  held' \subseteq Nat \X Nat
<1>1. curr \in Nat /\ Payload(curr) \in Nat /\ want \in Nat
  BY HeapAssumption DEF HeapInv, TypeOK, Payload
<1>2. Pointer(curr) \in Nat
  BY <1>1, RoundUpBounds, HeapAssumption DEF Pointer
<1> QED BY <1>1, <1>2 DEF ReturnBlock, HeapInv, TypeOK

LEMMA TakePartHeapInv ==
  ASSUME HeapInv, TakePart
  PROVE  HeapInv'
<1> USE DEF HeapInv
<1> DEFINE b == Payload(curr) + req
<1>1. /\ curr \in blocks /\ req \in Nat /\ curr \in Nat
      /\ req + Header < size[curr]
  BY HeapAssumption DEF TakePart, CursorsOnList, TypeOK, Splittable
<1>2. b \in Nat /\ Rest(curr) \in Nat /\ curr # b
  BY <1>1, HeapAssumption DEF Payload, Rest, TypeOK
<1>3. /\ blocks' = blocks \union {b}
      /\ size' = With([size EXCEPT ![curr] = req], b, Rest(curr))
      /\ is_free' = With([is_free EXCEPT ![curr] = FALSE], b, TRUE)
      /\ nxt' = With([nxt EXCEPT ![curr] = b], b, nxt[curr])
      /\ ReturnBlock(curr)
  BY DEF TakePart, RestIsFree
<1> HIDE DEF b
<1>4. TypeOK'
  <2>1. held' \subseteq Nat \X Nat
    BY <1>1, <1>3, ReturnTypes
  <2> QED BY <1>1, <1>2, <1>3, <2>1 DEF ReturnBlock, Return, TypeOK, Null, With
<1>5. Tiled'
  <2>1. \A x \in blocks \ {curr} : size'[x] = size[x] \/ x = b
    BY <1>1, <1>2, <1>3 DEF With, TypeOK
  <2>2. b \notin blocks
    BY <1>1, <1>2, TilesApart, HeapAssumption DEF TypeOK, Tiled, Payload, b
  <2>3. /\ size'[curr] = req /\ size'[b] = size[curr] - req - Header
        /\ nxt'[curr] = b /\ nxt'[b] = nxt[curr]
        /\ \A x \in blocks \ {curr} : size'[x] = size[x] /\ nxt'[x] = nxt[x]
    BY <1>1, <1>2, <1>3, <2>2 DEF With, TypeOK, Rest
  <2>4. Tiles(blocks \union {b}, size', nxt', Start, brk)
    BY <1>1, <1>2, <2>3, TilesSplit, BreakBehindStart DEF Tiled, TypeOK, b
  <2> QED BY <1>3, <2>4 DEF Tiled, ReturnBlock
<1>6. CursorsOnList'
  BY <1>3 DEF CursorsOnList, ReturnBlock, Return
<1> QED BY <1>4, <1>5, <1>6

LEMMA TakeWholeHeapInv ==
  ASSUME HeapInv, TakeWhole
  PROVE  HeapInv'
<1> USE DEF HeapInv
<1>1. curr \in blocks
  BY DEF TakeWhole, CursorsOnList
<1>2. held' \subseteq Nat \X Nat
  BY <1>1, ReturnTypes DEF TakeWhole
<1>3. TypeOK'
  BY <1>1, <1>2 DEF TypeOK, TakeWhole, ReturnBlock, Return, Null
<1>4. Tiled' /\ CursorsOnList'
  BY DEF TakeWhole, ReturnBlock, Return, Tiled, CursorsOnList
<1> QED BY <1>3, <1>4

LEMMA ScanOnHeapInv ==
  ASSUME HeapInv, ScanOn
  PROVE  HeapInv'
<1> USE DEF HeapInv
<1>1. /\ curr \in blocks /\ curr # Null /\ nxt[curr] \in Nat
      /\ nxt[curr] # Null => nxt[curr] \in blocks
  BY DEF ScanOn, CursorsOnList, Tiled, Tiles, TypeOK
<1>2. TypeOK'
  BY <1>1 DEF TypeOK, ScanOn, list, call
<1>3. Tiled'
  BY DEF ScanOn, Tiled, list
<1>4. CursorsOnList'
  BY <1>1 DEF ScanOn, CursorsOnList, list
<1> QED BY <1>2, <1>3, <1>4

LEMMA ExpandHeapInv ==
  ASSUME HeapInv, Expand
  PROVE  HeapInv'
<1> USE DEF HeapInv
<1> DEFINE s == Mapped(req)
<1>1. s \in Nat /\ req + Header <= s /\ s - Header \in Nat
  BY MappedBounds, HeapAssumption DEF TypeOK
<1>2. s \div Page \in Nat
  BY <1>1, HeapAssumption
<1> HIDE DEF s
<1>3. /\ s \div Page <= frames
      /\ frames' = frames - s \div Page
      /\ blocks' = blocks \union {brk}
      /\ size' = With(size, brk, s - Header)
      /\ is_free' = With(is_free, brk, TRUE)
      /\ nxt' = With(IF prev # Null THEN [nxt EXCEPT ![prev] = brk] ELSE nxt, brk, Null)
      /\ brk' = brk + s
      /\ curr' = Start /\ prev' = Null /\ pc' = "scan"
      /\ UNCHANGED <<held, want, aligned, req>>
  BY DEF Expand, s, NoNext, call
<1>4. /\ prev = Null => blocks = {}
      /\ prev # Null => prev \in blocks /\ nxt[prev] = Null
  BY DEF Expand, CursorsOnList
<1>5. \A x \in blocks : x < brk
  BY HeapAssumption DEF Tiled, Tiles, TypeOK, Payload
<1>6. \A x \in blocks : nxt[x] = Null <=> x = prev
  BY <1>4, HeapAssumption DEF Tiled, Tiles, TypeOK, Payload, Null
<1>7. TypeOK'
  <2>1. frames' \in Nat /\ brk' \in Nat
    BY <1>1, <1>2, <1>3 DEF TypeOK
  <2>2. size' \in [blocks' -> Nat] /\ is_free' \in [blocks' -> BOOLEAN]
    BY <1>1, <1>3, <1>5 DEF TypeOK, With
  <2>3. nxt' \in [blocks' -> Nat]
    BY <1>3, <1>4 DEF TypeOK, With, Null
  <2>4. blocks' \subseteq Nat
    BY <1>3 DEF TypeOK
  <2> QED BY <1>3, <2>1, <2>2, <2>3, <2>4, HeapAssumption DEF TypeOK, Null
<1>8. Tiled'
  <2>1. size'[brk] = s - Header /\ nxt'[brk] = Null
    BY <1>3, <1>5 DEF With, TypeOK
  <2>2. \A x \in blocks : size'[x] = size[x]
    BY <1>3, <1>5 DEF With, TypeOK
  <2>3. \A x \in blocks : nxt'[x] = IF nxt[x] = Null THEN brk ELSE nxt[x]
    BY <1>3, <1>4, <1>5, <1>6 DEF With, TypeOK
  <2>4. Header <= s
    BY <1>1, HeapAssumption DEF TypeOK
  <2>5. Tiles(blocks \union {brk}, size', nxt', Start, brk + s)
    BY <1>1, <2>1, <2>2, <2>3, <2>4, TilesAppend, BreakBehindStart DEF Tiled, TypeOK
  <2> QED BY <1>3, <2>5 DEF Tiled
<1>9. CursorsOnList'
  BY <1>3, <1>8 DEF CursorsOnList, Tiled, Tiles
<1> QED BY <1>7, <1>8, <1>9

LEMMA FreeHeapInv ==
  ASSUME HeapInv, NEW b \in blocks, Free(b)
  PROVE  HeapInv'
<1> USE DEF HeapInv
<1>1. TypeOK'
  BY HeapAssumption DEF TypeOK, Free, call
<1>2. Tiled' /\ CursorsOnList'
  BY DEF Free, Tiled, Tiles, CursorsOnList
<1> QED BY <1>1, <1>2

LEMMA CoalesceHeapInv ==
  ASSUME HeapInv, Coalesce
  PROVE  HeapInv' /\ curr < nxt[curr]
<1> USE DEF HeapInv
<1> DEFINE d == nxt[curr]
<1>1. curr \in blocks /\ d \in blocks /\ d # Null
  BY DEF Coalesce, CursorsOnList, Tiled, Tiles
<1>2. /\ blocks' = blocks \ {d}
      /\ size' = Without([size EXCEPT ![curr] = size[curr] + size[d] + Header], d)
      /\ is_free' = Without(is_free, d)
      /\ nxt' = Without([nxt EXCEPT ![curr] = nxt[d]], d)
      /\ curr' = curr
      /\ UNCHANGED <<brk, frames, held, pc, want, aligned, req, prev>>
  BY DEF Coalesce, Merged, StayAfterMerge, call
<1> HIDE DEF d
<1>3. size[curr] + size[d] + Header \in Nat
  BY <1>1, HeapAssumption DEF TypeOK
<1>4. curr < d
  BY <1>1, HeapAssumption DEF Tiled, Tiles, TypeOK, Payload, d
<1>5. TypeOK'
  BY <1>1, <1>2, <1>3 DEF TypeOK, Without
<1>6. Tiled'
  <2>1. /\ size'[curr] = size[curr] + size[d] + Header /\ nxt'[curr] = nxt[d]
        /\ \A x \in blocks \ {curr, d} : size'[x] = size[x] /\ nxt'[x] = nxt[x]
    BY <1>1, <1>2, <1>4 DEF TypeOK, Without
  <2>2. Tiles(blocks \ {d}, size', nxt', Start, brk)
    BY <1>1, <2>1, TilesMerge, BreakBehindStart DEF Tiled, TypeOK, d
  <2> QED BY <1>2, <2>2 DEF Tiled
<1>7. CursorsOnList'
  BY <1>1, <1>2, <1>4 DEF CursorsOnList, Coalesce, TypeOK
<1> QED BY <1>4, <1>5, <1>6, <1>7 DEF d

LEMMA CoalesceOnHeapInv ==
  ASSUME HeapInv, CoalesceOn
  PROVE  HeapInv'
BY DEF HeapInv, TypeOK, Tiled, Tiles, CursorsOnList, CoalesceOn, Onward, list, call

LEMMA NextHeapInv == HeapInv /\ [Next]_vars => HeapInv'
<1> SUFFICES ASSUME HeapInv, [Next]_vars PROVE HeapInv'
  OBVIOUS
<1>1. ASSUME NEW n \in Sizes, NEW al \in BOOLEAN, Malloc(n, al) PROVE HeapInv'
  BY <1>1, MallocHeapInv
<1>2. ASSUME NEW b \in blocks, Free(b) PROVE HeapInv'
  BY <1>2, FreeHeapInv
<1>3. CASE TakePart
  BY <1>3, TakePartHeapInv
<1>4. CASE TakeWhole
  BY <1>4, TakeWholeHeapInv
<1>5. CASE ScanOn
  BY <1>5, ScanOnHeapInv
<1>6. CASE Expand
  BY <1>6, ExpandHeapInv
<1>7. CASE ExpandFails
  BY <1>7 DEF ExpandFails, Return, list, HeapInv, TypeOK, Tiled, CursorsOnList, Null
<1>8. CASE Coalesce
  BY <1>8, CoalesceHeapInv
<1>9. CASE CoalesceOn
  BY <1>9, CoalesceOnHeapInv
<1>10. CASE FreeReturns
  BY <1>10 DEF FreeReturns, Return, list, HeapInv, TypeOK, Tiled, CursorsOnList, Null
<1>11. CASE UNCHANGED vars
  BY <1>11 DEF vars, HeapInv, TypeOK, Tiled, CursorsOnList
<1> QED BY <1>1, <1>2, <1>3, <1>4, <1>5, <1>6, <1>7, <1>8, <1>9, <1>10, <1>11
        DEF Next, Step

LEMMA SpecHeapInv == Spec => []HeapInv
BY InitHeapInv, NextHeapInv, PTL DEF Spec

-----------------------------------------------------------------------------
(* Along the list the addresses grow, and no block lies in between. *)
LEMMA NextBlockFollows ==
  ASSUME HeapInv, NEW b \in blocks
  PROVE  /\ b \in Nat
         /\ nxt[b] # Null => b < nxt[b] /\ nxt[b] \in blocks
         /\ nxt[b] # Null => \A x \in blocks : x < nxt[b] => x <= b
         /\ nxt[b] = Null => \A x \in blocks : x <= b
BY HeapAssumption DEF HeapInv, TypeOK, Tiled, Tiles, Payload, Null

LEMMA NextSearchInv == HeapInv /\ SearchInv /\ [Next]_vars => SearchInv'
<1> SUFFICES ASSUME HeapInv, SearchInv, [Next]_vars PROVE SearchInv'
  OBVIOUS
<1> USE DEF SearchInv
<1>1. ASSUME NEW n \in Sizes, NEW al \in BOOLEAN, Malloc(n, al) PROVE SearchInv'
  <2>1. \A b \in blocks : ~(b < Start)
    BY HeapAssumption DEF HeapInv, TypeOK, Tiled, Tiles
  <2>2. brk = Start => blocks = {}
    BY BreakBehindStart
  <2> QED BY <1>1, <2>1, <2>2
          DEF Malloc, list, NothingSkipped, ExpandsOnlyWhenFull, MergedBehind
<1>2. ASSUME NEW b \in blocks, Free(b) PROVE SearchInv'
  <2>1. \A x \in blocks : ~(x < Start)
    BY HeapAssumption DEF HeapInv, TypeOK, Tiled, Tiles
  <2> QED BY <1>2, <2>1 DEF Free, NothingSkipped, ExpandsOnlyWhenFull, MergedBehind
<1>3. CASE ScanOn
  <2>1. curr \in blocks /\ ~Fits(curr)
    BY <1>3 DEF ScanOn, HeapInv, CursorsOnList
  <2>2. \A x \in blocks : (nxt[curr] = Null \/ x < nxt[curr]) => x <= curr
    BY <2>1, NextBlockFollows
  <2>3. \A x \in blocks : x <= curr => ~(is_free[x] /\ size[x] >= req)
    BY <1>3, <2>1 DEF ScanOn, NothingSkipped, Fits, HeapInv, TypeOK
  <2> QED BY <1>3, <2>2, <2>3
          DEF ScanOn, list, call, NothingSkipped, ExpandsOnlyWhenFull, MergedBehind
<1>4. CASE Expand
  <2>1. \A x \in blocks' : ~(x < Start)
    <3>1. Start <= brk
      BY BreakBehindStart
    <3> QED BY <1>4, <3>1, HeapAssumption DEF Expand, HeapInv, TypeOK, Tiled, Tiles
  <2> QED BY <1>4, <2>1
          DEF Expand, NothingSkipped, ExpandsOnlyWhenFull, MergedBehind
<1>5. CASE Coalesce
  <2>1. curr \in blocks /\ nxt[curr] \in blocks /\ curr < nxt[curr]
    BY <1>5, CoalesceHeapInv DEF Coalesce, HeapInv, CursorsOnList, Tiled, Tiles
  <2>2. ASSUME NEW x \in blocks', x < curr
        PROVE  ~(is_free'[x] /\ nxt'[x] # Null /\ is_free'[nxt'[x]])
    <3>1. x \in blocks \ {nxt[curr]} /\ is_free'[x] = is_free[x] /\ nxt'[x] = nxt[x]
      BY <1>5, <2>1, <2>2 DEF Coalesce, Without, HeapInv, TypeOK
    <3>2. nxt[x] # Null => nxt[x] \in blocks /\ nxt[x] <= curr
      BY <2>1, <2>2, <3>1, HeapAssumption
         DEF HeapInv, TypeOK, Tiled, Tiles, Payload
    <3>3. nxt[x] # Null => is_free'[nxt[x]] = is_free[nxt[x]]
      BY <1>5, <2>1, <3>2 DEF Coalesce, Without, HeapInv, TypeOK
    <3> QED BY <1>5, <2>2, <3>1, <3>3 DEF MergedBehind, Coalesce
  <2> QED BY <1>5, <2>2
          DEF Coalesce, StayAfterMerge, NothingSkipped, ExpandsOnlyWhenFull, MergedBehind
<1>6. CASE CoalesceOn
  <2>1. curr \in blocks /\ nxt[curr] # Null /\ ~Mergeable(curr)
    BY <1>6 DEF CoalesceOn, Onward, HeapInv, CursorsOnList
  <2>2. \A x \in blocks : x < nxt[curr] => x < curr \/ x = curr
    BY <2>1, NextBlockFollows DEF HeapInv, TypeOK
  <2> QED BY <1>6, <2>1, <2>2
          DEF CoalesceOn, Onward, list, Mergeable, NothingSkipped, ExpandsOnlyWhenFull, MergedBehind
<1>7. CASE TakePart \/ TakeWhole \/ ExpandFails \/ FreeReturns
  BY <1>7 DEF TakePart, TakeWhole, ExpandFails, FreeReturns, ReturnBlock, Return,
     NothingSkipped, ExpandsOnlyWhenFull, MergedBehind
<1>8. CASE UNCHANGED vars
  BY <1>8 DEF vars, NothingSkipped, ExpandsOnlyWhenFull, MergedBehind
<1> QED BY <1>1, <1>2, <1>3, <1>4, <1>5, <1>6, <1>7, <1>8 DEF Next, Step

LEMMA SpecSearchInv == Spec => [](HeapInv /\ SearchInv)
<1>1. Init => SearchInv
  BY DEF Init, SearchInv, NothingSkipped, ExpandsOnlyWhenFull, MergedBehind
<1> QED BY <1>1, SpecHeapInv, NextSearchInv, PTL DEF Spec

-----------------------------------------------------------------------------
(* Two free neighbours are there for a moment only, while the block that an *)
(* expansion has appended is looked for: it is the only one that fits.      *)
FreePair(b) == is_free[b] /\ nxt[b] # Null /\ is_free[nxt[b]]

OnlyFit(c) ==
  /\ nxt[c] = Null
  /\ \A x \in blocks : is_free[x] /\ size[x] >= req => x = c
  /\ is_free[c] /\ size[c] >= req

PairsBeforeTheNew ==
  pc = "scan" => \A b \in blocks : FreePair(b) => OnlyFit(nxt[b])

ApartInv == FreeBlocksApart /\ PairsBeforeTheNew

(* Taking the block the search has found ends the pair it was part of. *)
LEMMA TakePartApart ==
  ASSUME HeapInv, ApartInv, TakePart
  PROVE  NoFreeNeighbours'
<1>1. PICK b : b = Payload(curr) + req
  OBVIOUS
<1>2. /\ curr \in blocks /\ is_free[curr] /\ size[curr] >= req /\ pc = "scan"
      /\ blocks' = blocks \union {b}
      /\ is_free' = With([is_free EXCEPT ![curr] = FALSE], b, TRUE)
      /\ nxt' = With([nxt EXCEPT ![curr] = b], b, nxt[curr])
  BY <1>1 DEF TakePart, HeapInv, CursorsOnList, Fits, RestIsFree
<1>3. b \notin blocks
  <2>1. curr \in Nat /\ Header \in Nat \ {0} /\ req \in Nat /\ size[curr] \in Nat
        /\ req < size[curr]
    BY <1>2, HeapAssumption DEF TakePart, HeapInv, TypeOK, Splittable
  <2>2. b \in Nat /\ curr < b /\ b < Payload(curr) + size[curr]
    BY <1>1, <2>1 DEF Payload
  <2> QED BY <1>2, <2>2, TilesApart, HeapAssumption, BreakBehindStart DEF HeapInv, TypeOK, Tiled
<1>4. \A x \in blocks : FreePair(x) => nxt[x] = curr
  BY <1>2 DEF ApartInv, PairsBeforeTheNew, OnlyFit
<1>5. /\ ~is_free'[curr] /\ nxt'[b] = nxt[curr]
      /\ \A x \in blocks : x # curr => is_free'[x] = is_free[x] /\ nxt'[x] = nxt[x]
  BY <1>2, <1>3 DEF With, HeapInv, TypeOK
<1>6. \A x \in blocks : nxt[x] # Null => nxt[x] \in blocks /\ x < nxt[x] /\ x \in Nat
  BY NextBlockFollows
<1>7. ASSUME NEW x \in blocks, FreePair(x)' PROVE FALSE
  <2>1. x # curr
    BY <1>5, <1>7 DEF FreePair
  <2>2. nxt[x] \in blocks /\ nxt[x] # curr /\ nxt[x] # Null
    BY <1>5, <1>6, <1>7, <2>1 DEF FreePair
  <2>3. FreePair(x)
    BY <1>5, <1>7, <2>1, <2>2 DEF FreePair
  <2> QED BY <1>4, <2>2, <2>3
<1>8. ~FreePair(b)'
  <2>1. ASSUME nxt[curr] # Null, is_free'[nxt[curr]] PROVE FALSE
    <3>1. nxt[curr] \in blocks /\ nxt[curr] # curr
      BY <1>2, <1>6, <2>1
    <3>2. FreePair(curr)
      BY <1>2, <1>5, <2>1, <3>1 DEF FreePair
    <3> QED BY <1>2, <1>4, <3>1, <3>2
  <2> QED BY <1>5, <2>1 DEF FreePair
<1> QED BY <1>2, <1>7, <1>8 DEF NoFreeNeighbours, FreePair

LEMMA TakeWholeApart ==
  ASSUME HeapInv, ApartInv, TakeWhole
  PROVE  NoFreeNeighbours'
<1>1. /\ curr \in blocks /\ is_free[curr] /\ size[curr] >= req /\ pc = "scan"
      /\ is_free' = [is_free EXCEPT ![curr] = FALSE] /\ blocks' = blocks /\ nxt' = nxt
  BY DEF TakeWhole, HeapInv, CursorsOnList, Fits
<1>2. \A x \in blocks : FreePair(x) => nxt[x] = curr
  BY <1>1 DEF ApartInv, PairsBeforeTheNew, OnlyFit
<1>3. ~is_free'[curr] /\ \A x \in blocks : x # curr => is_free'[x] = is_free[x]
  BY <1>1 DEF HeapInv, TypeOK
<1>4. \A x \in blocks : nxt[x] # Null => nxt[x] \in blocks
  BY NextBlockFollows
<1>5. ASSUME NEW x \in blocks, FreePair(x)' PROVE FALSE
  <2>1. x # curr /\ nxt[x] # curr /\ nxt[x] \in blocks
    BY <1>1, <1>3, <1>4, <1>5 DEF FreePair
  <2>2. FreePair(x)
    BY <1>1, <1>3, <1>5, <2>1 DEF FreePair
  <2> QED BY <1>2, <2>1, <2>2
<1> QED BY <1>1, <1>5 DEF NoFreeNeighbours, FreePair

(* A free block appended behind a free one is the only one that fits.       *)
LEMMA ExpandApart ==
  ASSUME HeapInv, SearchInv, ApartInv, Expand
  PROVE  PairsBeforeTheNew'
<1>1. /\ pc = "expand" /\ req \in Nat /\ brk \in Nat
      /\ \A x \in blocks : ~(is_free[x] /\ size[x] >= req) /\ ~FreePair(x)
  BY DEF Expand, SearchInv, ExpandsOnlyWhenFull, ApartInv, FreeBlocksApart,
     NoFreeNeighbours, FreePair, HeapInv, TypeOK
<1>2. Mapped(req) \in Nat /\ req + Header <= Mapped(req) /\ Header \in Nat
  BY <1>1, MappedBounds, HeapAssumption
<1>3. PICK most \in Nat : most = Mapped(req) - Header /\ most >= req
  BY <1>1, <1>2
<1>4. brk \notin blocks /\ (prev # Null => prev \in blocks) /\ (prev = Null => blocks = {})
  <2>1. \A x \in blocks : x < brk
    BY HeapAssumption DEF HeapInv, Tiled, Tiles, TypeOK, Payload
  <2> QED BY <1>1, <2>1 DEF HeapInv, CursorsOnList
<1>5. /\ blocks' = blocks \union {brk} /\ req' = req
      /\ size'[brk] = most /\ is_free'[brk] = TRUE /\ nxt'[brk] = Null
      /\ \A x \in blocks : size'[x] = size[x] /\ is_free'[x] = is_free[x]
      /\ \A x \in blocks : nxt'[x] = IF x = prev THEN brk ELSE nxt[x]
  <2>1. /\ blocks' = blocks \union {brk} /\ req' = req
        /\ size' = With(size, brk, most) /\ is_free' = With(is_free, brk, TRUE)
        /\ nxt' = With(IF prev # Null THEN [nxt EXCEPT ![prev] = brk] ELSE nxt, brk, Null)
    BY <1>3 DEF Expand, call, NoNext
  <2>2. /\ size'[brk] = most /\ is_free'[brk] = TRUE
        /\ \A x \in blocks : size'[x] = size[x] /\ is_free'[x] = is_free[x]
    BY <1>4, <2>1 DEF With, HeapInv, TypeOK
  <2>3. nxt'[brk] = Null /\ \A x \in blocks : nxt'[x] = IF x = prev THEN brk ELSE nxt[x]
    <3>1. CASE prev = Null
      BY <1>4, <2>1, <3>1 DEF With, HeapInv, TypeOK
    <3>2. CASE prev # Null
      BY <1>4, <2>1, <3>2 DEF With, HeapInv, TypeOK
    <3> QED BY <3>1, <3>2
  <2> QED BY <2>1, <2>2, <2>3
<1>6. PICK new : new = brk
  OBVIOUS
<1>7. OnlyFit(new)' /\ ~FreePair(new)'
  BY <1>1, <1>3, <1>5, <1>6 DEF OnlyFit, FreePair
<1>8. ASSUME NEW x \in blocks, FreePair(x)' PROVE nxt'[x] = new
  <2>1. ASSUME x # prev PROVE FALSE
    <3>1. nxt'[x] = nxt[x] /\ (nxt[x] # Null => nxt[x] \in blocks)
      BY <1>5, <2>1, NextBlockFollows
    <3>2. FreePair(x)
      BY <1>5, <1>8, <3>1 DEF FreePair
    <3> QED BY <1>1, <3>2
  <2> QED BY <1>5, <1>6, <2>1
<1>9. ASSUME NEW x \in blocks', FreePair(x)' PROVE OnlyFit(nxt[x])'
  <2>1. x \in blocks
    BY <1>5, <1>6, <1>7, <1>9
  <2>2. nxt'[x] = new
    BY <1>8, <1>9, <2>1
  <2> QED BY <1>7, <2>2 DEF OnlyFit
<1> QED BY <1>9 DEF PairsBeforeTheNew

LEMMA ScanOnApart ==
  ASSUME HeapInv, ApartInv, ScanOn
  PROVE  ApartInv'
<1>1. /\ curr \in blocks /\ ~(is_free[curr] /\ size[curr] >= req) /\ pc = "scan"
      /\ UNCHANGED <<blocks, size, is_free, nxt, req>>
      /\ pc' = IF nxt[curr] = Null THEN "expand" ELSE "scan"
  BY DEF ScanOn, HeapInv, CursorsOnList, Fits, list, call
<1>2. ASSUME NEW b \in blocks, FreePair(b) PROVE nxt[curr] # Null
  <2>1. PICK c : c = nxt[b]
    OBVIOUS
  <2>2. c \in blocks /\ nxt[c] = Null /\ is_free[c] /\ size[c] >= req
    BY <1>1, <1>2, <2>1, NextBlockFollows DEF ApartInv, PairsBeforeTheNew, OnlyFit, FreePair
  <2>3. ASSUME nxt[curr] = Null PROVE FALSE
    <3>1. curr <= c /\ c <= curr /\ curr \in Nat /\ c \in Nat
      BY <1>1, <2>2, <2>3, NextBlockFollows
    <3>2. curr = c
      BY <3>1
    <3> QED BY <1>1, <2>2, <3>2
  <2> QED BY <2>3
<1>3. \A b \in blocks : FreePair(b)' <=> FreePair(b)
  BY <1>1 DEF FreePair
<1>4. FreeBlocksApart'
  BY <1>1, <1>2, <1>3 DEF FreeBlocksApart, NoFreeNeighbours, FreePair
<1>5. PairsBeforeTheNew'
  BY <1>1, <1>3 DEF ApartInv, PairsBeforeTheNew, OnlyFit
<1> QED BY <1>4, <1>5 DEF ApartInv

LEMMA NextApartInv == HeapInv /\ SearchInv /\ ApartInv /\ [Next]_vars => ApartInv'
<1> SUFFICES ASSUME HeapInv, SearchInv, ApartInv, [Next]_vars PROVE ApartInv'
  OBVIOUS
<1>1. ASSUME NEW n \in Sizes, NEW al \in BOOLEAN, Malloc(n, al) PROVE ApartInv'
  BY <1>1 DEF Malloc, list, ApartInv, FreeBlocksApart, PairsBeforeTheNew, NoFreeNeighbours, FreePair
<1>2. ASSUME NEW b \in blocks, Free(b) PROVE ApartInv'
  BY <1>2 DEF Free, ApartInv, FreeBlocksApart, PairsBeforeTheNew
<1>3. CASE TakePart
  BY <1>3, TakePartApart DEF TakePart, ReturnBlock, Return, ApartInv, FreeBlocksApart, PairsBeforeTheNew
<1>4. CASE TakeWhole
  BY <1>4, TakeWholeApart DEF TakeWhole, ReturnBlock, Return, ApartInv, FreeBlocksApart, PairsBeforeTheNew
<1>5. CASE ScanOn
  BY <1>5, ScanOnApart
<1>6. CASE Expand
  BY <1>6, ExpandApart DEF Expand, ApartInv, FreeBlocksApart
<1>7. CASE ExpandFails
  BY <1>7 DEF ExpandFails, Return, list, ApartInv, FreeBlocksApart, PairsBeforeTheNew, NoFreeNeighbours
<1>8. CASE Coalesce \/ CoalesceOn
  BY <1>8 DEF Coalesce, CoalesceOn, ApartInv, FreeBlocksApart, PairsBeforeTheNew
<1>9. CASE FreeReturns
  <2>1. curr \in blocks /\ nxt[curr] = Null /\ pc = "coalesce"
    BY <1>9 DEF FreeReturns, HeapInv, CursorsOnList
  <2>2. \A x \in blocks : x < curr \/ x = curr
    BY <2>1, NextBlockFollows DEF HeapInv, TypeOK
  <2>3. NoFreeNeighbours'
    BY <1>9, <2>1, <2>2 DEF FreeReturns, list, NoFreeNeighbours, SearchInv, MergedBehind
  <2> QED BY <1>9, <2>3 DEF FreeReturns, Return, ApartInv, FreeBlocksApart, PairsBeforeTheNew
<1>10. CASE UNCHANGED vars
  BY <1>10 DEF vars, ApartInv, FreeBlocksApart, PairsBeforeTheNew, NoFreeNeighbours, FreePair, OnlyFit
<1> QED BY <1>1, <1>2, <1>3, <1>4, <1>5, <1>6, <1>7, <1>8, <1>9, <1>10 DEF Next, Step

LEMMA SpecApartInv == Spec => [](HeapInv /\ SearchInv /\ ApartInv)
<1>1. Init => ApartInv
  BY DEF Init, ApartInv, FreeBlocksApart, PairsBeforeTheNew, NoFreeNeighbours
<1> QED BY <1>1, SpecSearchInv, NextApartInv, PTL DEF Spec

-----------------------------------------------------------------------------
(* The call in progress has a size to find, and the block it looks for has  *)
(* room for that size wherever in it a page begins.                         *)
RequestIsEnough ==
  pc \in {"scan", "expand"} =>
    /\ want > 0
    /\ req >= IF aligned THEN want + Page ELSE want

(* No piece is empty: one inside a block is inside no other.                *)
PiecesAreReal == \A h \in held : h[2] > 0

HeldInv == RequestIsEnough /\ PiecesAreReal /\ HeldMemory

LEMMA InsideOneBlock ==
  ASSUME NEW B \in SUBSET Nat, NEW sz \in [B -> Nat], NEW nx, NEW lo, NEW hi,
         Tiles(B, sz, nx, lo, hi),
         NEW h \in Nat \X Nat, h[2] > 0, NEW b \in B, NEW c \in B,
         Payload(b) <= h[1], h[1] + h[2] <= Payload(b) + sz[b],
         Payload(c) <= h[1], h[1] + h[2] <= Payload(c) + sz[c]
  PROVE  b = c
<1>1. h[1] \in Nat /\ h[2] \in Nat /\ b \in Nat /\ c \in Nat /\ Header \in Nat
  BY HeapAssumption
<1>2. sz[b] \in Nat /\ sz[c] \in Nat
  OBVIOUS
<1>3. (b < c => b + Header + sz[b] <= c) /\ (c < b => c + Header + sz[c] <= b)
  BY DEF Tiles, Payload
<1> QED BY <1>1, <1>2, <1>3 DEF Payload

(* What is held and in use stays so while a step touches free blocks only.  *)
LEMMA UseUnchanged ==
  ASSUME HeldMemory, held' = held,
         {b \in blocks' : ~is_free'[b]} = {b \in blocks : ~is_free[b]},
         \A b \in blocks : ~is_free[b] => size'[b] = size[b]
  PROVE  HeldMemory'
<1>1. \A h \in held, b \in blocks : Inside(h, b) => b \in blocks' /\ Inside(h, b)'
  BY DEF Inside, End
<1>2. \A h \in held, b \in blocks' : Inside(h, b)' => b \in blocks /\ Inside(h, b)
  BY DEF Inside, End
<1>3. HeldMemoryIsPrivate'
  BY <1>1, <1>2 DEF HeldMemory, HeldMemoryIsPrivate
<1>4. NothingLost'
  BY <1>1 DEF HeldMemory, NothingLost
<1> QED BY <1>3, <1>4 DEF HeldMemory

(* The piece a caller gets lies in the block the search has found.          *)
LEMMA PointerInside ==
  ASSUME HeapInv, RequestIsEnough, pc = "scan", NEW s \in Nat, req <= s
  PROVE  /\ Pointer(curr) \in Nat /\ want \in Nat /\ want > 0
         /\ Payload(curr) <= Pointer(curr)
         /\ Pointer(curr) + want <= Payload(curr) + s
<1>1. /\ Payload(curr) \in Nat /\ Page \in Nat \ {0} /\ want \in Nat
      /\ req \in Nat /\ want > 0 /\ aligned \in BOOLEAN
      /\ req >= IF aligned THEN want + Page ELSE want
  BY HeapAssumption DEF HeapInv, TypeOK, Payload, RequestIsEnough
<1>2. /\ RoundUp(Payload(curr), Page) \in Nat
      /\ Payload(curr) <= RoundUp(Payload(curr), Page)
      /\ RoundUp(Payload(curr), Page) < Payload(curr) + Page
  BY <1>1, RoundUpBounds
<1>3. CASE aligned
  BY <1>1, <1>2, <1>3 DEF Pointer
<1>4. CASE ~aligned
  BY <1>1, <1>4 DEF Pointer
<1> QED BY <1>3, <1>4

(* A call that ends with a block taken: it was free, so nobody held a part  *)
(* of it, and it alone is new among the blocks in use.                      *)
LEMMA TakenHeld ==
  ASSUME HeapInv, HeapInv', HeldInv, pc = "scan",
         NEW c \in blocks, c = curr, is_free[c],
         ReturnBlock(c), c \in blocks', ~is_free'[c], req <= size'[c],
         {b \in blocks' : ~is_free'[b]} = {b \in blocks : ~is_free[b]} \union {c},
         \A b \in blocks : ~is_free[b] => size'[b] = size[b]
  PROVE  HeldInv'
<1>1. PICK new : new = <<Pointer(c), want>> /\ held' = held \union {new}
  BY DEF ReturnBlock
<1>2. size'[c] \in Nat
  BY DEF HeapInv, TypeOK
<1>3. /\ Pointer(c) \in Nat /\ want \in Nat /\ want > 0
      /\ Payload(c) <= Pointer(c)
      /\ Pointer(c) + want <= Payload(c) + size'[c]
  BY <1>2, PointerInside DEF HeldInv
<1>4. Inside(new, c)' /\ new[2] > 0
  BY <1>1, <1>3 DEF Inside, End, Payload
<1>5. RequestIsEnough' /\ PiecesAreReal'
  BY <1>1, <1>4 DEF HeldInv, RequestIsEnough, PiecesAreReal, ReturnBlock, Return
<1>6. \A h \in held, b \in blocks : Inside(h, b) => b # c /\ b \in blocks' /\ Inside(h, b)'
  BY DEF Inside, End
<1>7. \A h \in held, b \in blocks' : b # c /\ Inside(h, b)' => b \in blocks /\ Inside(h, b)
  BY DEF Inside, End
<1>8. \A h \in held', b, d \in blocks' : Inside(h, b)' /\ Inside(h, d)' => b = d
  <2>1. blocks' \in SUBSET Nat /\ size' \in [blocks' -> Nat]
    BY DEF HeapInv, TypeOK
  <2>2. Tiles(blocks', size', nxt', Start, brk')
    BY DEF HeapInv, Tiled
  <2>3. \A h \in held' : h \in Nat \X Nat /\ h[2] > 0
    BY <1>5 DEF HeapInv, TypeOK, PiecesAreReal
  <2> QED BY <2>1, <2>2, <2>3, InsideOneBlock DEF Inside, End
<1>9. HeldMemoryIsPrivate'
  <2>1. ASSUME NEW h \in held
        PROVE  \E b \in blocks' : Inside(h, b)' /\ \A g \in held' \ {h} : ~Inside(g, b)'
    <3>1. PICK b \in blocks : Inside(h, b) /\ \A g \in held \ {h} : ~Inside(g, b)
      BY DEF HeldInv, HeldMemory, HeldMemoryIsPrivate
    <3>2. b # c /\ b \in blocks' /\ Inside(h, b)'
      BY <1>6, <3>1
    <3>3. \A g \in held \ {h} : ~Inside(g, b)'
      BY <1>7, <3>1, <3>2
    <3>4. ~Inside(new, b)'
      BY <1>1, <1>4, <1>8, <3>2
    <3> QED BY <1>1, <3>2, <3>3, <3>4
  <2>2. \A g \in held' \ {new} : ~Inside(g, c)'
    <3>1. SUFFICES ASSUME NEW g \in held, Inside(g, c)' PROVE FALSE
      BY <1>1
    <3>2. PICK b \in blocks : Inside(g, b)
      BY DEF HeldInv, HeldMemory, HeldMemoryIsPrivate
    <3> QED BY <1>1, <1>6, <1>8, <3>1, <3>2
  <2> QED BY <1>1, <1>4, <2>1, <2>2 DEF HeldMemoryIsPrivate
<1>10. NothingLost'
  BY <1>1, <1>4, <1>6 DEF HeldInv, HeldMemory, NothingLost
<1> QED BY <1>5, <1>9, <1>10 DEF HeldInv, HeldMemory

LEMMA FreeHeld ==
  ASSUME HeapInv, HeldInv, NEW b \in blocks, Free(b)
  PROVE  HeldInv'
<1>1. PICK h \in held : h[1] = Payload(b) /\ held' = held \ {h}
  BY DEF Free
<1>2. /\ blocks' = blocks /\ size' = size /\ pc' = "coalesce"
      /\ is_free' = [is_free EXCEPT ![b] = TRUE]
  BY DEF Free
<1>3. h \in Nat \X Nat /\ h[2] > 0
  BY DEF HeapInv, TypeOK, HeldInv, PiecesAreReal
<1>4. PICK x \in blocks : Inside(h, x) /\ \A g \in held \ {h} : ~Inside(g, x)
  BY DEF HeldInv, HeldMemory, HeldMemoryIsPrivate
<1>5. x = b
  <2>1. x \in Nat /\ b \in Nat /\ size[x] \in Nat /\ Header \in Nat
    BY HeapAssumption DEF HeapInv, TypeOK
  <2>2. (b < x => b + Header + size[b] <= x) /\ (x < b => x + Header + size[x] <= b)
    BY DEF HeapInv, Tiled, Tiles, Payload
  <2> QED BY <1>1, <1>3, <1>4, <2>1, <2>2 DEF Inside, Payload, End
<1>6. \A g \in held, y \in blocks : Inside(g, y)' <=> y # b /\ Inside(g, y)
  BY <1>2 DEF Inside, End, HeapInv, TypeOK
<1>7. \A y \in blocks : Inside(h, y) => y = b
  BY <1>1, <1>3, <1>4, <1>5, InsideOneBlock
     DEF HeapInv, TypeOK, Tiled, Inside, End
<1>8. HeldMemoryIsPrivate'
  <2>1. ASSUME NEW g \in held \ {h}
        PROVE  \E y \in blocks : Inside(g, y)' /\ \A k \in held' \ {g} : ~Inside(k, y)'
    <3>1. PICK y \in blocks : Inside(g, y) /\ \A k \in held \ {g} : ~Inside(k, y)
      BY DEF HeldInv, HeldMemory, HeldMemoryIsPrivate
    <3> QED BY <1>1, <1>4, <1>5, <1>6, <3>1
  <2> QED BY <1>1, <1>2, <2>1 DEF HeldMemoryIsPrivate
<1>9. NothingLost'
  <2>1. ASSUME NEW y \in blocks, ~is_free'[y]
        PROVE  \E g \in held' : Inside(g, y)'
    <3>1. y # b /\ ~is_free[y]
      BY <1>2, <2>1 DEF HeapInv, TypeOK
    <3>2. PICK g \in held : Inside(g, y)
      BY <3>1 DEF HeldInv, HeldMemory, NothingLost
    <3> QED BY <1>1, <1>6, <1>7, <3>1, <3>2
  <2> QED BY <1>2, <2>1 DEF NothingLost
<1>10. RequestIsEnough' /\ PiecesAreReal'
  BY <1>1, <1>2 DEF HeldInv, RequestIsEnough, PiecesAreReal
<1> QED BY <1>8, <1>9, <1>10 DEF HeldInv, HeldMemory

LEMMA TakePartHeld ==
  ASSUME HeapInv, HeldInv, TakePart
  PROVE  HeldInv'
<1> DEFINE b == Payload(curr) + req
<1>1. HeapInv' /\ curr \in blocks /\ is_free[curr] /\ pc = "scan" /\ ReturnBlock(curr)
  BY TakePartHeapInv DEF TakePart, Fits, HeapInv, CursorsOnList
<1>2. req \in Nat /\ curr \in Nat /\ req + Header < size[curr]
  BY <1>1, HeapAssumption DEF TakePart, Splittable, HeapInv, TypeOK
<1>3. b \notin blocks
  BY <1>1, <1>2, TilesApart, HeapAssumption DEF HeapInv, TypeOK, Tiled, Payload
<1>4. /\ blocks' = blocks \union {b}
      /\ size' = With([size EXCEPT ![curr] = req], b, Rest(curr))
      /\ is_free' = With([is_free EXCEPT ![curr] = FALSE], b, TRUE)
  BY DEF TakePart, RestIsFree
<1> HIDE DEF b
<1>5. /\ size'[curr] = req /\ ~is_free'[curr] /\ is_free'[b]
      /\ \A x \in blocks \ {curr} : size'[x] = size[x] /\ is_free'[x] = is_free[x]
  BY <1>1, <1>3, <1>4 DEF With, HeapInv, TypeOK
<1>6. {x \in blocks' : ~is_free'[x]} = {x \in blocks : ~is_free[x]} \union {curr}
  BY <1>1, <1>4, <1>5
<1>7. curr \in blocks' /\ req <= size'[curr]
  BY <1>1, <1>2, <1>4, <1>5
<1>8. \A x \in blocks : ~is_free[x] => size'[x] = size[x]
  BY <1>1, <1>5, Zenon
<1> QED BY <1>1, <1>5, <1>6, <1>7, <1>8, TakenHeld

LEMMA TakeWholeHeld ==
  ASSUME HeapInv, HeldInv, TakeWhole
  PROVE  HeldInv'
<1>1. HeapInv' /\ curr \in blocks /\ is_free[curr] /\ pc = "scan" /\ ReturnBlock(curr)
  BY TakeWholeHeapInv DEF TakeWhole, Fits, HeapInv, CursorsOnList
<1>2. /\ blocks' = blocks /\ size' = size /\ req <= size[curr]
      /\ is_free' = [is_free EXCEPT ![curr] = FALSE]
  BY DEF TakeWhole, Fits, HeapInv, TypeOK
<1>3. {x \in blocks' : ~is_free'[x]} = {x \in blocks : ~is_free[x]} \union {curr}
  BY <1>1, <1>2 DEF HeapInv, TypeOK
<1> QED BY <1>1, <1>2, <1>3, TakenHeld DEF HeapInv, TypeOK

LEMMA ExpandHeld ==
  ASSUME HeapInv, HeldInv, Expand
  PROVE  HeldInv'
<1>1. /\ blocks' = blocks \union {brk} /\ held' = held
      /\ size' = With(size, brk, Mapped(req) - Header)
      /\ is_free' = With(is_free, brk, TRUE)
      /\ UNCHANGED <<want, aligned, req>> /\ pc = "expand"
  BY DEF Expand, call
<1>2. brk \notin blocks
  BY HeapAssumption DEF HeapInv, Tiled, Tiles, TypeOK, Payload
<1>3. /\ is_free'[brk]
      /\ \A x \in blocks : size'[x] = size[x] /\ is_free'[x] = is_free[x]
  BY <1>1, <1>2 DEF With, HeapInv, TypeOK
<1>4. HeldMemory'
  BY <1>1, <1>3, UseUnchanged DEF HeldInv
<1>5. RequestIsEnough' /\ PiecesAreReal'
  BY <1>1 DEF HeldInv, RequestIsEnough, PiecesAreReal
<1> QED BY <1>4, <1>5 DEF HeldInv

LEMMA CoalesceHeld ==
  ASSUME HeapInv, HeldInv, Coalesce
  PROVE  HeldInv'
<1> DEFINE d == nxt[curr]
<1>1. /\ curr \in blocks /\ d \in blocks /\ is_free[curr] /\ is_free[d] /\ curr # d
  BY CoalesceHeapInv DEF Coalesce, Mergeable, HeapInv, TypeOK, CursorsOnList, Tiled, Tiles
<1>2. /\ blocks' = blocks \ {d} /\ held' = held /\ pc' = "coalesce"
      /\ size' = Without([size EXCEPT ![curr] = Merged(curr, d)], d)
      /\ is_free' = Without(is_free, d)
  BY DEF Coalesce
<1> HIDE DEF d
<1>3. \A x \in blocks \ {curr, d} : size'[x] = size[x]
  BY <1>1, <1>2 DEF Without, HeapInv, TypeOK
<1>4. \A x \in blocks \ {d} : is_free'[x] = is_free[x]
  BY <1>1, <1>2 DEF Without, HeapInv, TypeOK
<1>5. HeldMemory'
  BY <1>1, <1>2, <1>3, <1>4, UseUnchanged DEF HeldInv
<1>6. RequestIsEnough' /\ PiecesAreReal'
  BY <1>2 DEF HeldInv, RequestIsEnough, PiecesAreReal
<1> QED BY <1>5, <1>6 DEF HeldInv

LEMMA MallocHeld ==
  ASSUME HeapInv, HeldInv, NEW n \in Sizes, NEW al \in BOOLEAN, Malloc(n, al)
  PROVE  HeldInv'
<1>1. n \in Nat /\ n > 0 /\ n + Page \in Nat
  BY HeapAssumption
<1>2. RoundUp(n, Align) >= n /\ RoundUp(n + Page, Align) >= n + Page
  BY <1>1, RoundUpBounds, HeapAssumption
<1>3. RequestIsEnough'
  BY <1>1, <1>2 DEF RequestIsEnough, Malloc, Padded
<1>4. /\ HeldMemory' /\ PiecesAreReal'
  BY UseUnchanged DEF Malloc, list, HeldInv, PiecesAreReal
<1> QED BY <1>3, <1>4 DEF HeldInv

LEMMA NextHeldInv == HeapInv /\ HeldInv /\ [Next]_vars => HeldInv'
<1> SUFFICES ASSUME HeapInv, HeldInv, [Next]_vars PROVE HeldInv'
  OBVIOUS
<1>1. ASSUME NEW n \in Sizes, NEW al \in BOOLEAN, Malloc(n, al) PROVE HeldInv'
  BY <1>1, MallocHeld
<1>2. ASSUME NEW b \in blocks, Free(b) PROVE HeldInv'
  BY <1>2, FreeHeld
<1>3. CASE TakePart
  BY <1>3, TakePartHeld
<1>4. CASE TakeWhole
  BY <1>4, TakeWholeHeld
<1>5. CASE Expand
  BY <1>5, ExpandHeld
<1>6. CASE Coalesce
  BY <1>6, CoalesceHeld
<1>7. CASE ScanOn \/ ExpandFails \/ CoalesceOn \/ FreeReturns \/ UNCHANGED vars
  <2>1. /\ UNCHANGED <<blocks, size, is_free, held>>
        /\ pc' \in {"scan", "expand"} => pc \in {"scan", "expand"} /\ UNCHANGED call
    BY <1>7 DEF ScanOn, ExpandFails, CoalesceOn, FreeReturns, Return, list, call, vars
  <2>2. HeldMemory'
    BY <2>1, UseUnchanged DEF HeldInv
  <2> QED BY <2>1, <2>2 DEF HeldInv, RequestIsEnough, PiecesAreReal, call
<1> QED BY <1>1, <1>2, <1>3, <1>4, <1>5, <1>6, <1>7 DEF Next, Step

LEMMA SpecHeldInv == Spec => []HeldInv
<1>1. Init => HeldInv
  BY DEF Init, HeldInv, RequestIsEnough, PiecesAreReal, HeldMemory,
     HeldMemoryIsPrivate, NothingLost
<1> QED BY <1>1, SpecHeapInv, NextHeldInv, PTL DEF Spec

-----------------------------------------------------------------------------
(* Every variable keeps its type: no size goes below zero. *)
THEOREM TypeCorrect == Spec => []TypeOK
BY SpecHeapInv, PTL DEF HeapInv

(* The blocks tile the heap at every step of kmalloc and kfree, for every  *)
(* page, header and request size.                                          *)
THEOREM TilingCorrect == Spec => []Tiled
BY SpecHeapInv, PTL DEF HeapInv

(* kmalloc takes new pages, or returns 0, only if no free block fits. *)
THEOREM FirstFitComplete == Spec => []ExpandsOnlyWhenFull
BY SpecSearchInv, PTL DEF SearchInv

(* All together: a search that comes to the end of the list has passed over *)
(* the whole heap, over nothing that fits and over no two blocks that would *)
(* fit as one.                                                              *)
THEOREM HeapCorrect == Spec => []HeapSound
<1>1. HeapInv /\ SearchInv /\ ApartInv => HeapSound
  BY DEF HeapInv, SearchInv, ApartInv, HeapSound
<1> QED BY <1>1, SpecSearchInv, SpecApartInv, PTL

(* What a caller of kmalloc holds, moved to a page boundary or not, lies in  *)
(* a block in use that no other caller has a part of, and every block in    *)
(* use is held: at every step of every call.                                *)
THEOREM HeldCorrect == Spec => []HeldMemory
BY SpecHeldInv, PTL DEF HeldInv

(* No two neighbours are free between calls or when the heap must grow: the *)
(* one pass of kfree is enough, and what an expansion appends behind a free *)
(* block is taken by the call that asked for it.                            *)
THEOREM CoalescingComplete == Spec => []FreeBlocksApart
BY SpecApartInv, PTL DEF ApartInv

-----------------------------------------------------------------------------
(***************************************************************************)
(* Frames: what pmm_alloc_frame gives was not given before.                *)
(***************************************************************************)
AllFrames == 0 .. FRAMES_COUNT - 1

LEMMA FreshFrame ==
  ASSUME NEW U \in SUBSET AllFrames, 0 .. Low - 1 \subseteq U
  PROVE  /\ FirstFree(U) \in AllFrames /\ Marked(U) = U \union {FirstFree(U)}
         /\ Given(FirstFree(U)) => FirstFree(U) \notin U
<1>1. 0 \in U /\ FRAMES_COUNT \in Nat \ {0} /\ Low \in Nat \ {0}
  BY AddressSpacesAssumption
<1>2. CASE U = AllFrames
  <2>1. FirstFree(U) = 0 /\ Marked(U) = U
    BY <1>2 DEF FirstFree, Marked, AllFrames
  <2> QED BY <1>1, <2>1 DEF Given, AllFrames
<1>3. CASE U # AllFrames
  <2>1. PICK x : x \in AllFrames /\ x \notin U
    BY <1>3, Zenon
  <2>2. AllFrames \ U # {} /\ AllFrames \ U \in SUBSET Nat
    BY <1>1, <2>1 DEF AllFrames
  <2>3. FirstFree(U) = Min(AllFrames \ U) /\ Marked(U) = U \union {FirstFree(U)}
    BY <1>3 DEF FirstFree, Marked, AllFrames
  <2> QED BY <2>2, <2>3, MinOfNats
<1> QED BY <1>2, <1>3

-----------------------------------------------------------------------------
(***************************************************************************)
(* One use per frame.  U is the set of frames marked, D the directories, H *)
(* the heap's frames, S the table of shared regions.                       *)
(***************************************************************************)
InUse(S) == {s \in Slot : S[s] # << >>}

AreMarked(U, D, H, S) ==
  /\ 0 .. Low - 1 \subseteq U /\ U \subseteq AllFrames
  /\ \A p \in DOMAIN D :
       /\ \A v \in PageNo : Given(D[p].map[v]) => D[p].map[v] \in U
       /\ \A t \in Tables : Given(D[p].table[t]) => D[p].table[t] \in U
  /\ H \subseteq U \intersect (Low .. FRAMES_COUNT - 1)
  /\ \A s \in InUse(S) : Given(S[s][2]) => S[s][2] \in U

IsRegion(S, f) == \E s \in InUse(S) : S[s][2] = f

PagesApart(D, S) ==
  \A p, q \in DOMAIN D : \A v, w \in PageNo :
    Given(D[p].map[v]) /\ D[p].map[v] = D[q].map[w] =>
      (p = q /\ v = w) \/ (v = w /\ IsRegion(S, D[p].map[v]))

RegionsInPlace(D, S) ==
  \A p \in DOMAIN D : \A v \in PageNo : \A s \in InUse(S) :
    Given(S[s][2]) /\ D[p].map[v] = S[s][2] => v = ShmPage + s

TablesApart(D, H, S) ==
  \A p \in DOMAIN D : \A t \in Tables : Given(D[p].table[t]) =>
    /\ \A q \in DOMAIN D : \A u \in Tables : D[p].table[t] = D[q].table[u] => p = q /\ t = u
    /\ \A q \in DOMAIN D : \A v \in PageNo : D[q].map[v] # D[p].table[t]
    /\ D[p].table[t] \notin H
    /\ \A s \in InUse(S) : S[s][2] # D[p].table[t]

HeapApart(D, H, S) ==
  /\ \A p \in DOMAIN D : \A v \in PageNo : D[p].map[v] \notin H
  /\ \A s \in InUse(S) : S[s][2] \notin H

RegionsApart(S) ==
  \A s, r \in InUse(S) : s # r =>
    /\ S[s][1] # S[r][1]
    /\ Given(S[s][2]) => S[s][2] # S[r][2]

Apart(U, D, H, S) ==
  /\ AreMarked(U, D, H, S) /\ PagesApart(D, S) /\ RegionsInPlace(D, S)
  /\ TablesApart(D, H, S) /\ HeapApart(D, H, S) /\ RegionsApart(S)

(* A frame that the PMM gives out next has no use yet. *)
LEMMA FreshUnused ==
  ASSUME NEW U, NEW D, NEW H, NEW S, Apart(U, D, H, S),
         NEW f \in AllFrames, Given(f) => f \notin U
  PROVE  /\ f \notin H
         /\ Given(f) =>
              /\ \A p \in DOMAIN D : \A v \in PageNo : D[p].map[v] # f
              /\ \A p \in DOMAIN D : \A t \in Tables : D[p].table[t] # f
              /\ \A s \in InUse(S) : S[s][2] # f
<1>1. H \subseteq U /\ \A h \in H : Given(h)
  BY DEF Apart, AreMarked, Given
<1> QED BY <1>1 DEF Apart, AreMarked

(* It becomes a page of a process, *)
LEMMA PageGiven ==
  ASSUME NEW U, NEW D, NEW H, NEW S, Apart(U, D, H, S),
         NEW f \in AllFrames, Given(f) => f \notin U,
         NEW E, DOMAIN E = DOMAIN D, NEW p \in DOMAIN D, NEW v \in PageNo,
         \A q \in DOMAIN D : E[q].table = D[q].table,
         \A q \in DOMAIN D : \A w \in PageNo :
           E[q].map[w] = IF q = p /\ w = v THEN f ELSE D[q].map[w]
  PROVE  Apart(U \union {f}, E, H, S)
<1>1. /\ f \notin H
      /\ Given(f) =>
           /\ \A q \in DOMAIN D : \A w \in PageNo : D[q].map[w] # f
           /\ \A q \in DOMAIN D : \A t \in Tables : D[q].table[t] # f
           /\ \A s \in InUse(S) : S[s][2] # f
  BY FreshUnused
<1>2. AreMarked(U \union {f}, E, H, S)
  BY <1>1 DEF Apart, AreMarked
<1>3. PagesApart(E, S) /\ RegionsInPlace(E, S)
  BY <1>1 DEF Apart, PagesApart, RegionsInPlace
<1>4. TablesApart(E, H, S)
  BY <1>1 DEF Apart, TablesApart
<1>5. HeapApart(E, H, S) /\ RegionsApart(S)
  BY <1>1 DEF Apart, HeapApart
<1> QED BY <1>2, <1>3, <1>4, <1>5 DEF Apart

(* or a page table of it, *)
LEMMA TableGiven ==
  ASSUME NEW U, NEW D, NEW H, NEW S, Apart(U, D, H, S),
         NEW f \in AllFrames, Given(f) => f \notin U,
         NEW E, DOMAIN E = DOMAIN D, NEW p \in DOMAIN D, NEW t \in Tables,
         \A q \in DOMAIN D : E[q].map = D[q].map,
         \A q \in DOMAIN D : \A u \in Tables :
           E[q].table[u] = IF q = p /\ u = t THEN f ELSE D[q].table[u]
  PROVE  Apart(U \union {f}, E, H, S)
<1>1. /\ f \notin H
      /\ Given(f) =>
           /\ \A q \in DOMAIN D : \A w \in PageNo : D[q].map[w] # f
           /\ \A q \in DOMAIN D : \A u \in Tables : D[q].table[u] # f
           /\ \A s \in InUse(S) : S[s][2] # f
  BY FreshUnused
<1>2. AreMarked(U \union {f}, E, H, S)
  BY <1>1 DEF Apart, AreMarked
<1>3. PagesApart(E, S) /\ RegionsInPlace(E, S)
  BY <1>1 DEF Apart, PagesApart, RegionsInPlace
<1>4. TablesApart(E, H, S)
  BY <1>1 DEF Apart, TablesApart
<1>5. HeapApart(E, H, S) /\ RegionsApart(S)
  BY <1>1 DEF Apart, HeapApart
<1> QED BY <1>2, <1>3, <1>4, <1>5 DEF Apart

(* or a page of the heap, *)
LEMMA HeapGiven ==
  ASSUME NEW U, NEW D, NEW H, NEW S, Apart(U, D, H, S),
         NEW f \in AllFrames, f \notin U
  PROVE  Apart(U \union {f}, D, H \union {f}, S)
<1>1. Given(f)
  BY AddressSpacesAssumption DEF Apart, AreMarked, AllFrames, Given
<1>2. /\ \A p \in DOMAIN D : \A v \in PageNo : D[p].map[v] # f
      /\ \A p \in DOMAIN D : \A t \in Tables : D[p].table[t] # f
      /\ \A s \in InUse(S) : S[s][2] # f
  BY <1>1, FreshUnused
<1>3. AreMarked(U \union {f}, D, H \union {f}, S)
  BY <1>1 DEF Apart, AreMarked, Given
<1>4. TablesApart(D, H \union {f}, S) /\ HeapApart(D, H \union {f}, S)
  BY <1>2 DEF Apart, TablesApart, HeapApart
<1> QED BY <1>3, <1>4 DEF Apart

LEMMA MoreRegions ==
  ASSUME NEW D, NEW S, NEW R, PagesApart(D, S), \A g : IsRegion(S, g) => IsRegion(R, g)
  PROVE  PagesApart(D, R)
BY DEF PagesApart

(* or a shared region. *)
LEMMA RegionGiven ==
  ASSUME NEW U, NEW D, NEW H, NEW S, Apart(U, D, H, S), DOMAIN S = Slot,
         NEW f \in AllFrames, Given(f) => f \notin U,
         NEW s \in Slot, S[s] = << >>, NEW k, \A r \in InUse(S) : S[r][1] # k,
         NEW R, R = [S EXCEPT ![s] = <<k, f>>]
  PROVE  Apart(U \union {f}, D, H, R)
<1>1. /\ f \notin H
      /\ Given(f) =>
           /\ \A p \in DOMAIN D : \A v \in PageNo : D[p].map[v] # f
           /\ \A p \in DOMAIN D : \A t \in Tables : D[p].table[t] # f
           /\ \A r \in InUse(S) : S[r][2] # f
  BY FreshUnused
<1>2. /\ InUse(R) = InUse(S) \union {s} /\ s \notin InUse(S)
      /\ R[s][1] = k /\ R[s][2] = f /\ \A r \in InUse(S) : R[r] = S[r]
  BY DEF InUse
<1>3. AreMarked(U \union {f}, D, H, R)
  BY <1>2 DEF Apart, AreMarked
<1>4. PagesApart(D, R)
  <2>1. PagesApart(D, S)
    BY DEF Apart
  <2>2. \A g : IsRegion(S, g) => IsRegion(R, g)
    BY <1>2 DEF IsRegion
  <2> QED BY <2>1, <2>2, MoreRegions
<1>5. RegionsInPlace(D, R)
  BY <1>1, <1>2 DEF Apart, RegionsInPlace
<1>6. TablesApart(D, H, R)
  <2>1. TablesApart(D, H, S)
    BY DEF Apart
  <2>2. \A p \in DOMAIN D : \A t \in Tables : Given(D[p].table[t]) =>
          \A r \in InUse(R) : R[r][2] # D[p].table[t]
    BY <1>1, <1>2, <2>1 DEF TablesApart
  <2>3. ASSUME NEW p \in DOMAIN D, NEW t \in Tables, Given(D[p].table[t])
        PROVE  /\ \A q \in DOMAIN D : \A u \in Tables :
                    D[p].table[t] = D[q].table[u] => p = q /\ t = u
               /\ \A q \in DOMAIN D : \A v \in PageNo : D[q].map[v] # D[p].table[t]
               /\ D[p].table[t] \notin H
    BY <2>1, <2>3 DEF TablesApart
  <2> QED BY <2>2, <2>3 DEF TablesApart
<1>7. HeapApart(D, H, R)
  BY <1>1, <1>2 DEF Apart, HeapApart
<1>8. RegionsApart(R)
  BY <1>1, <1>2 DEF Apart, RegionsApart
<1> QED BY <1>3, <1>4, <1>5, <1>6, <1>7, <1>8 DEF Apart

(* A region is attached at the page of its slot. *)
LEMMA RegionAttached ==
  ASSUME NEW U, NEW D, NEW H, NEW S, Apart(U, D, H, S), NEW s \in InUse(S),
         NEW E, DOMAIN E = DOMAIN D, NEW p \in DOMAIN D, NEW v, v = ShmPage + s,
         \A q \in DOMAIN D : E[q].table = D[q].table,
         \A q \in DOMAIN D : \A w \in PageNo :
           E[q].map[w] = IF q = p /\ w = v THEN S[s][2] ELSE D[q].map[w]
  PROVE  Apart(U, E, H, S)
<1>1. AreMarked(U, E, H, S)
  BY DEF Apart, AreMarked
<1>2. RegionsInPlace(E, S)
  BY DEF Apart, RegionsInPlace, RegionsApart
<1>3. PagesApart(E, S)
  <2>1. IsRegion(S, S[s][2])
    BY DEF IsRegion
  <2> QED BY <1>2, <2>1 DEF Apart, PagesApart, RegionsInPlace
<1>4. TablesApart(E, H, S)
  BY DEF Apart, TablesApart
<1>5. HeapApart(E, H, S)
  BY DEF Apart, HeapApart
<1> QED BY <1>1, <1>2, <1>3, <1>4, <1>5 DEF Apart

(* A process begins with nothing. *)
LEMMA ProcessAdded ==
  ASSUME NEW U, NEW D, NEW H, NEW S, Apart(U, D, H, S),
         NEW n, NEW E, DOMAIN E = DOMAIN D \union {n},
         \A q \in DOMAIN D : q # n /\ E[q] = D[q],
         \A v \in PageNo : E[n].map[v] = None, \A t \in Tables : E[n].table[t] = None
  PROVE  Apart(U, E, H, S)
<1>1. ~ Given(None) /\ None \notin H
  BY AddressSpacesAssumption DEF Given, None, Apart, AreMarked, AllFrames
<1>2. AreMarked(U, E, H, S)
  BY <1>1 DEF Apart, AreMarked
<1>3. PagesApart(E, S) /\ RegionsInPlace(E, S)
  BY <1>1 DEF Apart, PagesApart, RegionsInPlace
<1>4. TablesApart(E, H, S)
  BY <1>1 DEF Apart, TablesApart
<1>5. HeapApart(E, H, S)
  BY <1>1 DEF Apart, HeapApart
<1> QED BY <1>2, <1>3, <1>4, <1>5 DEF Apart

(* What counts of the directories is their tables and entries. *)
LEMMA SameMaps ==
  ASSUME NEW U, NEW D, NEW H, NEW S, Apart(U, D, H, S),
         NEW E, DOMAIN E = DOMAIN D,
         \A q \in DOMAIN D : E[q].map = D[q].map /\ E[q].table = D[q].table
  PROVE  Apart(U, E, H, S)
<1>1. AreMarked(U, E, H, S)
  BY DEF Apart, AreMarked
<1>2. PagesApart(E, S) /\ RegionsInPlace(E, S)
  BY DEF Apart, PagesApart, RegionsInPlace
<1>3. TablesApart(E, H, S) /\ HeapApart(E, H, S)
  BY DEF Apart, TablesApart, HeapApart
<1> QED BY <1>1, <1>2, <1>3 DEF Apart

(* Marked, it may also be put only where the kernel's tables say. *)
LEMMA OnlyMarked ==
  ASSUME NEW U, NEW D, NEW H, NEW S, Apart(U, D, H, S), NEW f \in AllFrames,
         NEW E, DOMAIN E = DOMAIN D,
         \A q \in DOMAIN D : E[q].map = D[q].map /\ E[q].table = D[q].table
  PROVE  Apart(U \union {f}, E, H, S)
<1>1. AreMarked(U \union {f}, E, H, S)
  BY DEF Apart, AreMarked
<1>2. PagesApart(E, S) /\ RegionsInPlace(E, S)
  BY DEF Apart, PagesApart, RegionsInPlace
<1>3. TablesApart(E, H, S) /\ HeapApart(E, H, S)
  BY DEF Apart, TablesApart, HeapApart
<1> QED BY <1>1, <1>2, <1>3 DEF Apart

-----------------------------------------------------------------------------
(***************************************************************************)
(* What map_page_in_dir does to the memory of one process.                 *)
(***************************************************************************)
IsMemory(m) ==
  /\ m = [used |-> m.used, kmap |-> m.kmap, d |-> m.d]
  /\ m.used \subseteq AllFrames /\ 0 .. Low - 1 \subseteq m.used
  /\ m.kmap \in [PageNo -> 0 .. None] /\ m.d \in Directory

LEMMA DirectoryParts ==
  ASSUME NEW d
  PROVE  d \in Directory <=>
           /\ d = [table |-> d.table, map |-> d.map, brk |-> d.brk,
                   start |-> d.start, elf |-> d.elf]
           /\ d.table \in [Tables -> 0 .. None] /\ d.map \in [PageNo -> 0 .. None]
           /\ d.brk \in Address /\ d.start \in Address /\ d.elf \in BOOLEAN
BY DEF Directory

SameBut(d, e) == e.brk = d.brk /\ e.start = d.start /\ e.elf = d.elf

InKernel(m, r, v, f) ==
  /\ Shared(v) /\ r.used = m.used /\ r.d = m.d /\ r.kmap = [m.kmap EXCEPT ![v] = f]

InTable(m, r, v, f) ==
  /\ ~ Shared(v) /\ r.kmap = m.kmap /\ SameBut(m.d, r.d)
  /\ r.d.map = [m.d.map EXCEPT ![v] = f]
  /\ \/ r.used = m.used /\ r.d.table = m.d.table
     \/ /\ r.used = Marked(m.used)
        /\ r.d.table = [m.d.table EXCEPT ![TableOf(v)] = FirstFree(m.used)]

LEMMA MapPageIs ==
  ASSUME NEW m, IsMemory(m), NEW v \in PageNo, NEW f \in AllFrames,
         NEW r, r = MapPage(m, v, f)
  PROVE  IsMemory(r) /\ (InKernel(m, r, v, f) \/ InTable(m, r, v, f))
<1>1. TableOf(v) \in Tables /\ f \in 0 .. None /\ FirstFree(m.used) \in 0 .. None
  <2>1. TableOf(v) \in Tables
    BY DEF Tables
  <2>2. FRAMES_COUNT \in Nat /\ FirstFree(m.used) \in AllFrames
    BY FreshFrame, AddressSpacesAssumption DEF IsMemory
  <2> QED BY <2>1, <2>2 DEF AllFrames, None
<1>2. PICK u, k, d, t, g, n : /\ u = m.used /\ k = m.kmap /\ d = m.d /\ t = TableOf(v)
                              /\ g = FirstFree(m.used) /\ n = Marked(m.used)
  OBVIOUS
<1>3. /\ m = [used |-> u, kmap |-> k, d |-> d] /\ k \in [PageNo -> 0 .. None]
      /\ d = [table |-> d.table, map |-> d.map, brk |-> d.brk,
              start |-> d.start, elf |-> d.elf]
      /\ d.table \in [Tables -> 0 .. None] /\ d.map \in [PageNo -> 0 .. None]
  BY <1>2, DirectoryParts DEF IsMemory
<1>4. n \subseteq AllFrames /\ 0 .. Low - 1 \subseteq n
  BY <1>2, FreshFrame DEF IsMemory
<1>5. CASE Shared(v)
  <2>1. r = [m EXCEPT !.kmap[v] = f]
    BY <1>5 DEF MapPage
  <2>2. r = [used |-> u, kmap |-> [k EXCEPT ![v] = f], d |-> d]
    BY <1>3, <2>1
  <2>3. [k EXCEPT ![v] = f] \in [PageNo -> 0 .. None]
    BY <1>1, <1>3
  <2> QED BY <1>2, <1>5, <2>2, <2>3 DEF IsMemory, InKernel
<1>6. CASE ~ Shared(v) /\ d.table[t] # None
  <2>1. r = [m EXCEPT !.d.map[v] = f]
    BY <1>2, <1>6 DEF MapPage
  <2>2. PICK a : a = [d.map EXCEPT ![v] = f]
    OBVIOUS
  <2>3. PICK e : e = [table |-> d.table, map |-> a, brk |-> d.brk,
                      start |-> d.start, elf |-> d.elf]
    OBVIOUS
  <2>4. r = [used |-> u, kmap |-> k, d |-> [d EXCEPT !.map = a]]
    BY <1>3, <2>1, <2>2
  <2>5. [d EXCEPT !.map = a] = e
    BY <1>3, <2>3
  <2>6. r = [used |-> u, kmap |-> k, d |-> e]
    BY <2>4, <2>5
  <2>7. a \in [PageNo -> 0 .. None]
    BY <1>1, <1>3, <2>2
  <2>8. e \in Directory
    <3>1. d \in Directory
      BY <1>2 DEF IsMemory
    <3> QED BY <2>3, <2>7, <3>1, DirectoryParts
  <2>9. IsMemory(r)
    BY <1>2, <2>6, <2>8 DEF IsMemory
  <2> QED BY <1>2, <1>6, <2>2, <2>3, <2>6, <2>9 DEF InTable, SameBut
<1>7. CASE ~ Shared(v) /\ d.table[t] = None
  <2>1. r = [m EXCEPT !.used = n, !.d.table[t] = g, !.d.map[v] = f]
    BY <1>2, <1>7 DEF MapPage
  <2>2. PICK a, b : a = [d.map EXCEPT ![v] = f] /\ b = [d.table EXCEPT ![t] = g]
    OBVIOUS
  <2>3. PICK e : e = [table |-> b, map |-> a, brk |-> d.brk,
                      start |-> d.start, elf |-> d.elf]
    OBVIOUS
  <2>4. r = [used |-> n, kmap |-> k, d |-> [d EXCEPT !.table = b, !.map = a]]
    BY <1>3, <2>1, <2>2
  <2>5. [d EXCEPT !.table = b, !.map = a] = e
    <3>1. [d EXCEPT !.table = b] = [table |-> b, map |-> d.map, brk |-> d.brk,
                                    start |-> d.start, elf |-> d.elf]
      BY <1>3
    <3>2. PICK c : c = [d EXCEPT !.table = b]
      OBVIOUS
    <3>3. [d EXCEPT !.table = b, !.map = a] = [c EXCEPT !.map = a]
      BY <3>2, Zenon
    <3>4. c = [table |-> b, map |-> d.map, brk |-> d.brk, start |-> d.start, elf |-> d.elf]
      BY <3>1, <3>2
    <3>5. [c EXCEPT !.map = a] = e
      BY <2>3, <3>4
    <3> QED BY <3>3, <3>5, Zenon
  <2>6. r = [used |-> n, kmap |-> k, d |-> e]
    BY <2>4, <2>5
  <2>7. a \in [PageNo -> 0 .. None] /\ b \in [Tables -> 0 .. None]
    BY <1>1, <1>2, <1>3, <2>2
  <2>8. e \in Directory
    <3>1. d \in Directory
      BY <1>2 DEF IsMemory
    <3> QED BY <2>3, <2>7, <3>1, DirectoryParts
  <2>9. IsMemory(r)
    BY <1>2, <1>4, <2>6, <2>8 DEF IsMemory
  <2> QED BY <1>2, <1>7, <2>2, <2>3, <2>6, <2>9 DEF InTable, SameBut
<1> QED BY <1>5, <1>6, <1>7

(* Where the page is found then, and all others where they were. *)
Seen(k, map, w) == IF Shared(w) THEN k[w] ELSE map[w]

LEMMA SeenAfter ==
  ASSUME NEW m, IsMemory(m), NEW v \in PageNo, NEW f, NEW r,
         InKernel(m, r, v, f) \/ InTable(m, r, v, f)
  PROVE  /\ SameBut(m.d, r.d)
         /\ \A w \in PageNo : /\ w # v => r.kmap[w] = m.kmap[w] /\ r.d.map[w] = m.d.map[w]
                              /\ r.kmap[w] \in {m.kmap[w], f}
                              /\ Seen(r.kmap, r.d.map, v) = f
<1>1. m.kmap \in [PageNo -> 0 .. None] /\ m.d.map \in [PageNo -> 0 .. None]
  BY DirectoryParts DEF IsMemory
<1> QED BY <1>1 DEF InKernel, InTable, Seen, SameBut

(* The frame comes first, and the page table's own frame after it. *)
LEMMA AllocAndMapIs ==
  ASSUME NEW m, IsMemory(m), NEW v \in PageNo, NEW r, r = AllocAndMap(m, v)
  PROVE  \E n, f :
           /\ f = FirstFree(m.used) /\ f \in AllFrames
           /\ n.used = Marked(m.used) /\ n.kmap = m.kmap /\ n.d = m.d
           /\ IsMemory(n) /\ IsMemory(r)
           /\ InKernel(n, r, v, f) \/ InTable(n, r, v, f)
<1>1. PICK n, f, u : u = Marked(m.used) /\ n = [m EXCEPT !.used = u] /\ f = FirstFree(m.used)
  OBVIOUS
<1>2. m = [used |-> m.used, kmap |-> m.kmap, d |-> m.d] /\ m.used \in SUBSET AllFrames
      /\ 0 .. Low - 1 \subseteq m.used
  BY DEF IsMemory
<1>3. n = [used |-> u, kmap |-> m.kmap, d |-> m.d]
  BY <1>1, <1>2
<1>4. f \in AllFrames /\ u \subseteq AllFrames /\ 0 .. Low - 1 \subseteq u
  BY <1>1, <1>2, FreshFrame
<1>5. IsMemory(n)
  BY <1>3, <1>4 DEF IsMemory
<1>6. r = MapPage(n, v, f)
  BY <1>1 DEF AllocAndMap
<1>7. IsMemory(r) /\ (InKernel(n, r, v, f) \/ InTable(n, r, v, f))
  BY <1>4, <1>5, <1>6, MapPageIs
<1> QED BY <1>1, <1>3, <1>4, <1>5, <1>7

LEMMA AllocApart ==
  ASSUME NEW m, IsMemory(m), NEW v \in PageNo, NEW r, r = AllocAndMap(m, v),
         NEW D, NEW H, NEW S, Apart(m.used, D, H, S),
         NEW p \in DOMAIN D, D[p].map = m.d.map, D[p].table = m.d.table,
         NEW E, DOMAIN E = DOMAIN D, E[p].map = r.d.map, E[p].table = r.d.table,
         \A q \in DOMAIN D \ {p} : E[q].map = D[q].map /\ E[q].table = D[q].table
  PROVE  Apart(r.used, E, H, S)
<1>1. PICK n, f :
        /\ f = FirstFree(m.used) /\ f \in AllFrames
        /\ n.used = Marked(m.used) /\ n.kmap = m.kmap /\ n.d = m.d
        /\ IsMemory(n) /\ IsMemory(r)
        /\ InKernel(n, r, v, f) \/ InTable(n, r, v, f)
  BY AllocAndMapIs
<1>2. /\ m.used \in SUBSET AllFrames /\ 0 .. Low - 1 \subseteq m.used
      /\ n.used \in SUBSET AllFrames /\ 0 .. Low - 1 \subseteq n.used
  BY <1>1 DEF IsMemory
<1>3. n.used = m.used \union {f} /\ (Given(f) => f \notin m.used)
  BY <1>1, <1>2, FreshFrame
<1>4. m.d.map \in [PageNo -> 0 .. None] /\ m.d.table \in [Tables -> 0 .. None]
  BY DirectoryParts DEF IsMemory
<1>5. CASE InKernel(n, r, v, f)
  <2>1. r.used = m.used \union {f} /\ r.d = m.d
    BY <1>1, <1>3, <1>5 DEF InKernel
  <2>2. \A q \in DOMAIN D : E[q].map = D[q].map /\ E[q].table = D[q].table
    BY <2>1
  <2> QED BY <1>1, <2>1, <2>2, OnlyMarked
<1>6. CASE InTable(n, r, v, f)
  <2>1. PICK G : G = [q \in DOMAIN D |->
                       [map |-> IF q = p THEN r.d.map ELSE D[q].map, table |-> D[q].table]]
    OBVIOUS
  <2>2. DOMAIN G = DOMAIN D /\ \A q \in DOMAIN D :
          /\ G[q].table = D[q].table
          /\ G[q].map = IF q = p THEN r.d.map ELSE D[q].map
    BY <2>1
  <2>3. r.d.map = [m.d.map EXCEPT ![v] = f]
    BY <1>1, <1>6 DEF InTable
  <2>4. \A q \in DOMAIN D : \A w \in PageNo :
          G[q].map[w] = IF q = p /\ w = v THEN f ELSE D[q].map[w]
    BY <1>4, <2>2, <2>3
  <2>5. Apart(m.used \union {f}, G, H, S)
    <3>1. PICK U : U = m.used
      OBVIOUS
    <3>2. f \in AllFrames /\ (Given(f) => f \notin U) /\ Apart(U, D, H, S)
      BY <1>1, <1>3, <3>1
    <3>3. Apart(U \union {f}, G, H, S)
      BY <2>2, <2>4, <3>2, PageGiven
    <3> QED BY <3>1, <3>3
  <2>6. \A q \in DOMAIN G : E[q].map = G[q].map
    BY <2>2
  <2>7. CASE r.used = n.used /\ r.d.table = n.d.table
    <3>1. \A q \in DOMAIN G : E[q].table = G[q].table
      BY <1>1, <2>2, <2>7
    <3>2. r.used = (m.used \union {f}) \union {f}
      BY <1>3, <2>7
    <3> QED BY <1>1, <2>2, <2>5, <2>6, <3>1, <3>2, OnlyMarked
  <2>8. CASE r.used = Marked(n.used)
             /\ r.d.table = [n.d.table EXCEPT ![TableOf(v)] = FirstFree(n.used)]
    <3>1. PICK g, t : g = FirstFree(n.used) /\ t = TableOf(v)
      OBVIOUS
    <3>2. g \in AllFrames /\ r.used = n.used \union {g} /\ (Given(g) => g \notin n.used)
      BY <1>2, <2>8, <3>1, FreshFrame
    <3>3. t \in Tables
      BY <3>1 DEF Tables
    <3>4. \A q \in DOMAIN G : \A u \in Tables :
            E[q].table[u] = IF q = p /\ u = t THEN g ELSE G[q].table[u]
      BY <1>1, <1>4, <2>2, <2>8, <3>1
    <3>5. p \in DOMAIN G /\ DOMAIN E = DOMAIN G
      BY <2>2
    <3>6. Apart(n.used, G, H, S)
      BY <1>3, <2>5
    <3>7. Apart(n.used \union {g}, E, H, S)
      BY <2>6, <3>2, <3>3, <3>4, <3>5, <3>6, TableGiven
    <3> QED BY <3>2, <3>7
  <2> QED BY <1>6, <2>7, <2>8 DEF InTable
<1> QED BY <1>1, <1>5, <1>6

-----------------------------------------------------------------------------
(***************************************************************************)
(* Pages and addresses.                                                    *)
(***************************************************************************)
Aligned(a) == a = PageOf(a) * PAGE_SIZE

LEMMA PageBounds ==
  ASSUME NEW a \in Nat
  PROVE  /\ PageOf(a) \in Nat /\ PageOf(a) * PAGE_SIZE \in Nat
         /\ PageOf(a) * PAGE_SIZE <= a /\ a < PageOf(a) * PAGE_SIZE + PAGE_SIZE
<1>1. PAGE_SIZE \in Nat \ {0}
  BY AddressSpacesAssumption
<1>2. ASSUME NEW s \in Nat \ {0}
      PROVE  /\ a \div s \in Nat /\ (a \div s) * s \in Nat
             /\ (a \div s) * s <= a /\ a < (a \div s) * s + s
  BY SMTT(30)
<1> QED BY <1>1, <1>2 DEF PageOf

LEMMA PageIs ==
  ASSUME NEW a \in Nat, NEW q \in Nat, q * PAGE_SIZE <= a, a < q * PAGE_SIZE + PAGE_SIZE
  PROVE  PageOf(a) = q
<1> DEFINE P == PAGE_SIZE
<1>1. P \in Nat \ {0}
  BY AddressSpacesAssumption
<1>2. PICK p \in Nat : p = PageOf(a) /\ p * P <= a /\ a < p * P + P
  BY PageBounds
<1>3. ~ (p + 1 <= q)
  <2>1. SUFFICES ASSUME p + 1 <= q PROVE FALSE
    OBVIOUS
  <2>2. q - (p + 1) \in Nat
    BY <2>1
  <2>3. (q - (p + 1)) * P >= 0
    BY <1>1, <2>2
  <2>4. (p + 1) * P <= q * P
    BY <1>1, <2>2, <2>3
  <2> QED BY <1>1, <1>2, <2>4
<1>4. ~ (q + 1 <= p)
  <2>1. SUFFICES ASSUME q + 1 <= p PROVE FALSE
    OBVIOUS
  <2>2. p - (q + 1) \in Nat
    BY <2>1
  <2>3. (p - (q + 1)) * P >= 0
    BY <1>1, <2>2
  <2>4. (q + 1) * P <= p * P
    BY <1>1, <2>2, <2>3
  <2> QED BY <1>1, <1>2, <2>4
<1> QED BY <1>2, <1>3, <1>4

LEMMA SamePage ==
  ASSUME NEW v \in Nat, Aligned(v), NEW a \in Nat, v <= a, a < v + PAGE_SIZE
  PROVE  PageOf(a) = PageOf(v)
<1>1. PICK q \in Nat : q = PageOf(v) /\ v = q * PAGE_SIZE
  BY PageBounds DEF Aligned
<1> QED BY <1>1, PageIs

LEMMA NextPage ==
  ASSUME NEW v \in Nat, Aligned(v)
  PROVE  PageOf(v + PAGE_SIZE) = PageOf(v) + 1 /\ Aligned(v + PAGE_SIZE)
<1>1. PAGE_SIZE \in Nat \ {0} /\ PageOf(v) \in Nat
  BY AddressSpacesAssumption, PageBounds
<1>2. PageOf(v + PAGE_SIZE) = PageOf(v) + 1
  BY <1>1, DivPlusOne DEF PageOf
<1>3. (PageOf(v) + 1) * PAGE_SIZE = PageOf(v) * PAGE_SIZE + PAGE_SIZE
  BY <1>1
<1> QED BY <1>2, <1>3 DEF Aligned

LEMMA PagesInOrder ==
  ASSUME NEW a \in Nat, NEW b \in Nat, a <= b
  PROVE  PageOf(a) <= PageOf(b)
BY DivMonotonic, AddressSpacesAssumption DEF PageOf

(* An address is on a page, and a page that ends later is its own or a later one. *)
LEMMA PageInSpace ==
  ASSUME NEW a \in Address
  PROVE  a \in Nat /\ PageOf(a) \in PageNo
<1>1. PAGE_SIZE \in Nat \ {0} /\ Pages \in Nat \ {0}
  BY AddressSpacesAssumption
<1>2. a \in Nat /\ a < Pages * PAGE_SIZE
  BY <1>1 DEF Address, Top
<1>3. PICK q \in Nat : q = PageOf(a) /\ q * PAGE_SIZE <= a
  BY <1>2, PageBounds
<1>4. ~ (Pages <= q)
  <2>1. SUFFICES ASSUME Pages <= q PROVE FALSE
    OBVIOUS
  <2>2. q - Pages \in Nat
    BY <1>1, <2>1
  <2>3. (q - Pages) * PAGE_SIZE >= 0
    BY <1>1, <2>2
  <2>4. Pages * PAGE_SIZE <= q * PAGE_SIZE
    BY <1>1, <2>2, <2>3
  <2> QED BY <1>1, <1>2, <1>3, <2>4
<1> QED BY <1>1, <1>2, <1>3, <1>4 DEF PageNo

LEMMA AlignedPage ==
  ASSUME NEW q \in Nat
  PROVE  q * PAGE_SIZE \in Nat /\ PageOf(q * PAGE_SIZE) = q /\ Aligned(q * PAGE_SIZE)
<1>1. PAGE_SIZE \in Nat \ {0}
  BY AddressSpacesAssumption
<1>2. q * PAGE_SIZE \in Nat /\ q * PAGE_SIZE < q * PAGE_SIZE + PAGE_SIZE
  BY <1>1
<1>3. PageOf(q * PAGE_SIZE) = q
  BY <1>2, PageIs
<1> QED BY <1>2, <1>3 DEF Aligned

LEMMA RoundedDownIs ==
  ASSUME NEW a \in Nat
  PROVE  /\ RoundedDown(a) \in Nat /\ Aligned(RoundedDown(a))
         /\ RoundedDown(a) <= a /\ a < RoundedDown(a) + PAGE_SIZE
<1>1. RoundedDown(a) = PageOf(a) * PAGE_SIZE
  BY DEF RoundedDown, PageOf
<1> QED BY <1>1, PageBounds, AlignedPage

LEMMA TopIs == Top \in Nat /\ PAGE_SIZE \in Nat \ {0} /\ PAGE_SIZE <= Top
<1>1. PAGE_SIZE \in Nat \ {0} /\ Pages \in Nat /\ Pages >= 1
  BY AddressSpacesAssumption
<1>2. Pages - 1 \in Nat
  BY <1>1
<1>3. (Pages - 1) * PAGE_SIZE \in Nat /\ Top = (Pages - 1) * PAGE_SIZE + PAGE_SIZE
  BY <1>1, <1>2 DEF Top
<1> QED BY <1>1, <1>3

(* Between an address and the page after it there is only the page before. *)
LEMMA FirstNewPageIs ==
  ASSUME NEW b \in Nat, b <= Top - PAGE_SIZE
  PROVE  /\ FirstNewPage(b) \in Nat /\ Aligned(FirstNewPage(b))
         /\ b <= FirstNewPage(b) /\ FirstNewPage(b) < b + PAGE_SIZE
         /\ \A a \in b .. FirstNewPage(b) - 1 : b > 0 /\ PageOf(a) = PageOf(b - 1)
<1>1. PAGE_SIZE \in Nat \ {0}
  BY AddressSpacesAssumption
<1>2. PICK c \in Nat : c = b + PAGE_SIZE - 1
  BY <1>1
<1>3. FirstNewPage(b) = RoundedDown(c)
  <2>1. Top \in Nat /\ c < Top
    BY <1>1, <1>2, TopIs
  <2>2. c % Top = c
    BY <1>2, <2>1
  <2> QED BY <1>2, <2>2 DEF FirstNewPage, RoundedUp, RoundedDown
<1>4. PICK w \in Nat : w = FirstNewPage(b)
  BY <1>3, RoundedDownIs
<1>5. Aligned(w) /\ w <= c /\ c < w + PAGE_SIZE
  BY <1>3, <1>4, RoundedDownIs
<1>6. b <= w /\ w < b + PAGE_SIZE
  BY <1>1, <1>2, <1>5
<1>7. ASSUME NEW a \in b .. w - 1 PROVE b > 0 /\ PageOf(a) = PageOf(b - 1)
  <2>1. PICK q \in Nat : q = PageOf(w) /\ w = q * PAGE_SIZE
    BY <1>5, PageBounds DEF Aligned
  <2>2. w >= 1 /\ q >= 1
    BY <1>1, <1>7, <2>1
  <2>3. PICK o \in Nat : o = q - 1
    BY <2>2
  <2>4. o * PAGE_SIZE + PAGE_SIZE = w
    <3>1. (o + 1) * PAGE_SIZE = o * PAGE_SIZE + PAGE_SIZE
      BY <1>1
    <3>2. q = o + 1
      BY <2>2, <2>3
    <3> QED BY <2>1, <3>1, <3>2
  <2>5. o * PAGE_SIZE \in Nat
    BY <1>1
  <2>6. o * PAGE_SIZE < b /\ a < w
    BY <1>1, <1>2, <1>5, <1>7, <2>4, <2>5
  <2>7. b > 0 /\ b - 1 \in Nat /\ a \in Nat /\ b - 1 <= a
    BY <2>5, <2>6, <1>7
  <2>8. PageOf(a) = o /\ PageOf(b - 1) = o
    BY <2>4, <2>5, <2>6, <2>7, <1>1, PageIs
  <2> QED BY <2>7, <2>8
<1> QED BY <1>4, <1>5, <1>6, <1>7

-----------------------------------------------------------------------------
(***************************************************************************)
(* What is mapped: K are the entries of the kernel's tables.               *)
(***************************************************************************)
Found(K, D, p, a) == Seen(K, D[p].map, PageOf(a)) # None

MemoryShape(K, D, S) ==
  /\ K \in [PageNo -> 0 .. None] /\ D \in Seq(Directory)
  /\ S \in [Slot -> {<< >>} \union (Keys \X AllFrames)]

(* Of a loaded program the page before the first break is mapped, and all   *)
(* from there to the break.                                                *)
BreakOK(K, D, p) ==
  D[p].elf =>
    /\ D[p].start > 0 => Found(K, D, p, D[p].start - 1)
    /\ \A a \in D[p].start .. D[p].brk - 1 : Found(K, D, p, a)

BreaksOK(K, D) ==
  \A p \in DOMAIN D : D[p].brk <= Top - PAGE_SIZE /\ BreakOK(K, D, p)

(* While a program is loaded its break is 0, and the page before its        *)
(* highest end is mapped or will be; while sbrk runs all is mapped from the *)
(* first new page to v.                                                    *)
JobShape(j, D) ==
  /\ j = [op |-> j.op, p |-> j.p, v |-> j.v, end |-> j.end, left |-> j.left, brk |-> j.brk]
  /\ j.p \in DOMAIN D
  /\ j.v \in 0 .. Top /\ Aligned(j.v)
  /\ j.end \in 0 .. Top - PAGE_SIZE /\ j.brk \in 0 .. Top - PAGE_SIZE

SegmentsOK(left) ==
  /\ left \in Seq(Address \X Address)
  /\ \A i \in 1 .. Len(left) : left[i][1] < left[i][2] /\ left[i][2] <= Top - PAGE_SIZE

Loading(j, K, D) ==
  /\ j.op = "elf" /\ JobShape(j, D) /\ SegmentsOK(j.left)
  /\ D[j.p].elf /\ D[j.p].brk = 0 /\ D[j.p].start = 0
  /\ j.brk > 0 => Found(K, D, j.p, j.brk - 1) \/ (j.v < j.end /\ j.end = j.brk)

Moving(j, K, D) ==
  /\ j.op = "sbrk" /\ JobShape(j, D) /\ j.left = << >> /\ j.end = j.brk
  /\ D[j.p].brk <= j.v /\ FirstNewPage(D[j.p].brk) <= j.v
  /\ \A a \in FirstNewPage(D[j.p].brk) .. j.v - 1 : a \in Address => Found(K, D, j.p, a)

JobOK(j, K, D) == j = Idle \/ Loading(j, K, D) \/ Moving(j, K, D)

(* Nothing that is mapped is unmapped. *)
Grows(K, D, L, E) ==
  /\ DOMAIN D \subseteq DOMAIN E
  /\ \A w \in PageNo : K[w] # None => L[w] # None
  /\ \A q \in DOMAIN D : \A w \in PageNo : D[q].map[w] # None => E[q].map[w] # None

LEMMA FoundStays ==
  ASSUME NEW K, NEW D, NEW L, NEW E, Grows(K, D, L, E), NEW q \in DOMAIN D,
         NEW a \in Address, Found(K, D, q, a)
  PROVE  Found(L, E, q, a)
<1>1. PageOf(a) \in PageNo
  BY PageInSpace
<1> QED BY <1>1 DEF Grows, Found, Seen

LEMMA BreaksStay ==
  ASSUME NEW K, NEW D, NEW L, NEW E, BreaksOK(K, D), Grows(K, D, L, E),
         D \in Seq(Directory), NEW p \in DOMAIN D, SameBut(D[p], E[p])
  PROVE  E[p].brk <= Top - PAGE_SIZE /\ BreakOK(L, E, p)
<1>1. D[p].brk \in Address /\ D[p].start \in Address /\ D[p].brk <= Top - PAGE_SIZE
  BY DirectoryParts DEF BreaksOK
<1>2. SUFFICES ASSUME D[p].elf PROVE BreakOK(L, E, p)
  BY <1>1 DEF BreakOK, SameBut
<1>3. Top \in Nat
  BY TopIs
<1>4. D[p].start > 0 => Found(L, E, p, D[p].start - 1)
  <2>1. D[p].start > 0 => D[p].start - 1 \in Address
    BY <1>1, <1>3 DEF Address
  <2> QED BY <1>2, <2>1, FoundStays DEF BreaksOK, BreakOK
<1>5. \A a \in D[p].start .. D[p].brk - 1 : Found(L, E, p, a)
  <2>1. \A a \in D[p].start .. D[p].brk - 1 : a \in Address
    BY <1>1, <1>3 DEF Address
  <2> QED BY <1>2, <2>1, FoundStays DEF BreaksOK, BreakOK
<1> QED BY <1>4, <1>5 DEF BreakOK, SameBut

(* A page is mapped in a process: by the loader, by sbrk, for a stack. *)
LEMMA PageMapped ==
  ASSUME NEW U, NEW K, NEW D, NEW H, NEW S, MemoryShape(K, D, S), Apart(U, D, H, S),
         NEW p \in DOMAIN D, NEW v \in PageNo,
         NEW m, m = [used |-> U, kmap |-> K, d |-> D[p]],
         NEW r, r = AllocAndMap(m, v),
         NEW E, DOMAIN E = DOMAIN D, E[p].map = r.d.map, E[p].table = r.d.table,
         \A q \in DOMAIN D \ {p} : E[q] = D[q]
  PROVE  /\ IsMemory(r) /\ SameBut(D[p], r.d)
         /\ Apart(r.used, E, H, S) /\ Grows(K, D, r.kmap, E)
         /\ Seen(r.kmap, E[p].map, v) # None
         /\ \A w \in PageNo \ {v} : r.kmap[w] = K[w] /\ E[p].map[w] = D[p].map[w]
<1>1. m.used = U /\ m.kmap = K /\ m.d = D[p]
  OBVIOUS
<1>2. D[p] \in Directory
  BY DEF MemoryShape
<1>3. IsMemory(m)
  BY <1>1, <1>2 DEF IsMemory, MemoryShape, Apart, AreMarked
<1>4. PICK n, f :
        /\ f = FirstFree(m.used) /\ f \in AllFrames
        /\ n.used = Marked(m.used) /\ n.kmap = m.kmap /\ n.d = m.d
        /\ IsMemory(n) /\ IsMemory(r)
        /\ InKernel(n, r, v, f) \/ InTable(n, r, v, f)
  BY <1>3, AllocAndMapIs
<1>5. f # None
  BY <1>4, AddressSpacesAssumption DEF AllFrames, None
<1>6. /\ SameBut(n.d, r.d) /\ Seen(r.kmap, r.d.map, v) = f
      /\ \A w \in PageNo : /\ w # v => r.kmap[w] = n.kmap[w] /\ r.d.map[w] = n.d.map[w]
                           /\ r.kmap[w] \in {n.kmap[w], f}
  BY <1>4, SeenAfter
<1>7. \A w \in PageNo : r.d.map[w] \in {n.d.map[w], f}
  BY <1>4, DirectoryParts DEF InKernel, InTable, IsMemory
<1>8. Apart(r.used, E, H, S)
  BY <1>1, <1>3, AllocApart
<1>9. Grows(K, D, r.kmap, E)
  BY <1>1, <1>4, <1>5, <1>6, <1>7 DEF Grows
<1> QED BY <1>1, <1>4, <1>5, <1>6, <1>8, <1>9

(* A region is attached. *)
LEMMA RegionMapped ==
  ASSUME NEW U, NEW K, NEW D, NEW H, NEW S, MemoryShape(K, D, S), Apart(U, D, H, S),
         NEW p \in DOMAIN D, NEW s \in InUse(S), NEW v, v = ShmPage + s, NEW f, f = S[s][2],
         NEW m, m = [used |-> U, kmap |-> K, d |-> D[p]],
         NEW r, r = MapPage(m, v, f),
         NEW E, DOMAIN E = DOMAIN D, E[p] = r.d, \A q \in DOMAIN D \ {p} : E[q] = D[q]
  PROVE  /\ IsMemory(r) /\ SameBut(D[p], r.d)
         /\ Apart(r.used, E, H, S) /\ Grows(K, D, r.kmap, E)
<1>1. m.used = U /\ m.kmap = K /\ m.d = D[p] /\ r = MapPage(m, v, f)
  OBVIOUS
<1>2. D[p] \in Directory
  BY DEF MemoryShape
<1>3. IsMemory(m)
  BY <1>1, <1>2 DEF IsMemory, MemoryShape, Apart, AreMarked
<1>4. v \in PageNo /\ f \in AllFrames
  <2>1. s \in Slot /\ S[s] # << >> /\ S[s] \in {<< >>} \union (Keys \X AllFrames)
    BY DEF InUse, MemoryShape
  <2>2. S[s] \in Keys \X AllFrames
    BY <2>1
  <2>3. v \in PageNo
    BY <2>1, AddressSpacesAssumption DEF Slot, PageNo
  <2> QED BY <2>2, <2>3
<1>5. IsMemory(r) /\ (InKernel(m, r, v, f) \/ InTable(m, r, v, f))
  BY <1>1, <1>3, <1>4, MapPageIs
<1>6. f # None
  BY <1>4, AddressSpacesAssumption DEF AllFrames, None
<1>7. /\ SameBut(m.d, r.d)
      /\ \A w \in PageNo : r.kmap[w] \in {m.kmap[w], f}
  BY <1>3, <1>4, <1>5, SeenAfter
<1>8. /\ m.d.map \in [PageNo -> 0 .. None] /\ m.d.table \in [Tables -> 0 .. None]
      /\ \A w \in PageNo : r.d.map[w] \in {m.d.map[w], f}
  <2>1. m.d \in Directory
    BY <1>3 DEF IsMemory
  <2>2. m.d.map \in [PageNo -> 0 .. None] /\ m.d.table \in [Tables -> 0 .. None]
    BY <2>1, DirectoryParts
  <2>3. r.d.map = m.d.map \/ r.d.map = [m.d.map EXCEPT ![v] = f]
    BY <1>5 DEF InKernel, InTable
  <2> QED BY <1>4, <2>2, <2>3
<1>9. Grows(K, D, r.kmap, E)
  <2>1. \A w \in PageNo : K[w] # None => r.kmap[w] # None
    BY <1>1, <1>6, <1>7
  <2>2. \A w \in PageNo : D[p].map[w] # None => E[p].map[w] # None
    BY <1>1, <1>6, <1>8
  <2> QED BY <2>1, <2>2 DEF Grows
<1>10. CASE InKernel(m, r, v, f)
  <2>1. r.used = U /\ r.d = D[p]
    BY <1>1, <1>10 DEF InKernel
  <2>2. \A q \in DOMAIN D : E[q].map = D[q].map /\ E[q].table = D[q].table
    BY <2>1
  <2>3. Apart(U, E, H, S)
    BY <2>2, SameMaps
  <2> QED BY <1>1, <1>5, <1>7, <1>9, <2>1, <2>3
<1>11. CASE InTable(m, r, v, f)
  <2>1. PICK G : G = [q \in DOMAIN D |->
                       [map |-> IF q = p THEN r.d.map ELSE D[q].map, table |-> D[q].table]]
    OBVIOUS
  <2>2. DOMAIN G = DOMAIN D /\ \A q \in DOMAIN D :
          /\ G[q].table = D[q].table
          /\ G[q].map = IF q = p THEN r.d.map ELSE D[q].map
    BY <2>1
  <2>3. r.d.map = [m.d.map EXCEPT ![v] = f]
    BY <1>11 DEF InTable
  <2>4. \A q \in DOMAIN D : \A w \in PageNo :
          G[q].map[w] = IF q = p /\ w = v THEN S[s][2] ELSE D[q].map[w]
    BY <1>1, <1>8, <2>2, <2>3
  <2>5. Apart(U, G, H, S)
    BY <2>2, <2>4, RegionAttached
  <2>6. \A q \in DOMAIN G : E[q].map = G[q].map
    BY <2>2
  <2>7. ASSUME r.used = m.used /\ r.d.table = m.d.table
        PROVE  Apart(r.used, E, H, S)
    <3>1. \A q \in DOMAIN G : E[q].table = G[q].table
      BY <1>1, <2>2, <2>7
    <3>2. Apart(U, E, H, S)
      BY <2>2, <2>5, <2>6, <3>1, SameMaps
    <3> QED BY <1>1, <2>7, <3>2
  <2>8. ASSUME r.used = Marked(m.used)
               /\ r.d.table = [m.d.table EXCEPT ![TableOf(v)] = FirstFree(m.used)]
        PROVE  Apart(r.used, E, H, S)
    <3>1. PICK g, t : g = FirstFree(U) /\ t = TableOf(v)
      OBVIOUS
    <3>2. g \in AllFrames /\ r.used = U \union {g} /\ (Given(g) => g \notin U)
      BY <1>1, <2>8, <3>1, FreshFrame DEF Apart, AreMarked
    <3>3. t \in Tables
      BY <1>4, <3>1 DEF Tables
    <3>4. \A q \in DOMAIN G : \A u \in Tables :
            E[q].table[u] = IF q = p /\ u = t THEN g ELSE G[q].table[u]
      BY <1>1, <1>8, <2>2, <2>8, <3>1
    <3>5. p \in DOMAIN G /\ DOMAIN E = DOMAIN G
      BY <2>2
    <3>6. Apart(U \union {g}, E, H, S)
      <4>1. g \in AllFrames /\ (Given(g) => g \notin U)
        BY <3>2
      <4> QED BY <2>5, <2>6, <3>3, <3>4, <3>5, <4>1, TableGiven, SMTT(30)
    <3> QED BY <3>2, <3>6
  <2>9. Apart(r.used, E, H, S)
    BY <1>11, <2>7, <2>8 DEF InTable
  <2> QED BY <1>1, <1>5, <1>7, <1>9, <2>9
<1> QED BY <1>5, <1>10, <1>11

-----------------------------------------------------------------------------
(***************************************************************************)
(* The inductive invariant, and what each call does to it.                 *)
(***************************************************************************)
SpacesOK(U, K, D, H, S, j) ==
  /\ MemoryShape(K, D, S) /\ Apart(U, D, H, S) /\ BreaksOK(K, D) /\ JobOK(j, K, D)

SpacesInv == SpacesOK(used, kmap, dirs, heap, shm, job)

LEMMA SpacesStart == SpacesInit => SpacesInv
<1> SUFFICES ASSUME SpacesInit PROVE SpacesInv
  OBVIOUS
<1>1. /\ used = 0 .. Low - 1 /\ heap = {} /\ dirs = << >> /\ job = Idle
      /\ shm = [s \in Slot |-> << >>] /\ InUse(shm) = {}
  BY DEF SpacesInit, InUse
<1>2. kmap \in [PageNo -> 0 .. None]
  <2>1. PageNo \subseteq Nat /\ FRAMES_COUNT \in Nat /\ Low \in 0 .. FRAMES_COUNT
    BY AddressSpacesAssumption DEF PageNo
  <2>2. \A x \in PageNo : (IF x < Low THEN x ELSE None) \in 0 .. None
    BY <2>1 DEF None
  <2> QED BY <2>2 DEF SpacesInit
<1>3. MemoryShape(kmap, dirs, shm)
  <2>1. dirs \in Seq(Directory)
    BY <1>1
  <2>2. shm \in [Slot -> {<< >>} \union (Keys \X AllFrames)]
    BY <1>1
  <2> QED BY <1>2, <2>1, <2>2 DEF MemoryShape
<1>4. AreMarked(used, dirs, heap, shm)
  BY <1>1, AddressSpacesAssumption DEF AreMarked, AllFrames
<1>5. /\ PagesApart(dirs, shm) /\ RegionsInPlace(dirs, shm) /\ TablesApart(dirs, heap, shm)
      /\ HeapApart(dirs, heap, shm) /\ RegionsApart(shm)
  BY <1>1 DEF PagesApart, RegionsInPlace, TablesApart, HeapApart, RegionsApart
<1>6. BreaksOK(kmap, dirs) /\ JobOK(job, kmap, dirs)
  BY <1>1 DEF BreaksOK, JobOK
<1> QED BY <1>3, <1>4, <1>5, <1>6 DEF SpacesInv, SpacesOK, Apart

(* What lies in bounds. *)
LEMMA JobBounds ==
  ASSUME NEW j, NEW D, JobShape(j, D)
  PROVE  /\ j.v \in Nat /\ j.end \in Address /\ j.brk \in Address
         /\ j.brk > 0 => j.brk - 1 \in Address
         /\ j.v < j.end => j.v \in Address /\ j.v + PAGE_SIZE \in 0 .. Top
BY TopIs DEF JobShape, Address

(* One round of the loops. *)
LEMMA MapOnKeeps ==
  ASSUME NEW U, NEW K, NEW D, NEW H, NEW S, NEW j, SpacesOK(U, K, D, H, S, j),
         j # Idle, j.v < j.end, NEW r, NEW E, NEW i
  PROVE  /\ r = AllocAndMap([used |-> U, kmap |-> K, d |-> D[j.p]], PageOf(j.v))
         /\ E = [D EXCEPT ![j.p] = r.d] /\ i = [j EXCEPT !.v = j.v + PAGE_SIZE]
         => SpacesOK(r.used, r.kmap, E, H, S, i)
<1>1. SUFFICES ASSUME r = AllocAndMap([used |-> U, kmap |-> K, d |-> D[j.p]], PageOf(j.v)),
                      E = [D EXCEPT ![j.p] = r.d], i = [j EXCEPT !.v = j.v + PAGE_SIZE]
               PROVE  SpacesOK(r.used, r.kmap, E, H, S, i)
  OBVIOUS
<1>2. MemoryShape(K, D, S) /\ Apart(U, D, H, S) /\ BreaksOK(K, D)
  BY DEF SpacesOK
<1>3. JobShape(j, D) /\ (Loading(j, K, D) \/ Moving(j, K, D))
  BY DEF SpacesOK, JobOK, Loading, Moving
<1>4. PICK p, v, L : p = j.p /\ v = PageOf(j.v) /\ L = r.kmap
  OBVIOUS
<1>5. /\ j.v \in Nat /\ Aligned(j.v) /\ j.end \in Address /\ j.brk \in Address
      /\ j.v \in Address /\ j.v + PAGE_SIZE \in 0 .. Top
      /\ j.brk > 0 => j.brk - 1 \in Address
  BY <1>3, JobBounds DEF JobShape
<1>6. p \in DOMAIN D /\ v \in PageNo /\ D \in Seq(Directory)
  BY <1>2, <1>3, <1>4, <1>5, PageInSpace DEF JobShape, MemoryShape
<1>7. /\ DOMAIN E = DOMAIN D /\ E[p] = r.d /\ \A q \in DOMAIN D \ {p} : E[q] = D[q]
  BY <1>1, <1>4, <1>6
<1>8. /\ IsMemory(r) /\ SameBut(D[p], r.d)
      /\ Apart(r.used, E, H, S) /\ Grows(K, D, L, E)
      /\ Seen(L, E[p].map, v) # None
  <2>1. PICK m : m = [used |-> U, kmap |-> K, d |-> D[p]] /\ r = AllocAndMap(m, v)
    BY <1>1, <1>4
  <2>2. E[p].map = r.d.map /\ E[p].table = r.d.table /\ DOMAIN E = DOMAIN D
        /\ \A q \in DOMAIN D \ {p} : E[q] = D[q]
    BY <1>7
  <2>3. p \in DOMAIN D /\ v \in PageNo
    BY <1>6
  <2>4. /\ IsMemory(r) /\ SameBut(D[p], r.d)
        /\ Apart(r.used, E, H, S) /\ Grows(K, D, r.kmap, E)
        /\ Seen(r.kmap, E[p].map, v) # None
    BY <1>2, <2>1, <2>2, <2>3, PageMapped, SMTT(30)
  <2> QED BY <1>4, <2>4
<1>9. MemoryShape(L, E, S)
  <2>1. r.d \in Directory /\ L \in [PageNo -> 0 .. None]
    BY <1>4, <1>8 DEF IsMemory
  <2>2. E \in Seq(Directory)
    BY <1>1, <1>4, <1>6, <2>1
  <2> QED BY <1>2, <2>1, <2>2 DEF MemoryShape
<1>10. \A q \in DOMAIN D : SameBut(D[q], E[q])
  BY <1>7, <1>8 DEF SameBut
<1>11. BreaksOK(L, E)
  <2>1. \A q \in DOMAIN D : E[q].brk <= Top - PAGE_SIZE /\ BreakOK(L, E, q)
    BY <1>2, <1>6, <1>8, <1>10, BreaksStay
  <2> QED BY <1>7, <2>1 DEF BreaksOK
<1>12. /\ i = [op |-> j.op, p |-> p, v |-> j.v + PAGE_SIZE, end |-> j.end,
               left |-> j.left, brk |-> j.brk]
  BY <1>1, <1>3, <1>4 DEF JobShape
<1>13. JobShape(i, E)
  <2>1. Aligned(j.v + PAGE_SIZE)
    BY <1>5, NextPage
  <2> QED BY <1>3, <1>5, <1>6, <1>7, <1>12, <2>1 DEF JobShape
<1>14. \A a \in Address : j.v <= a /\ a < j.v + PAGE_SIZE => Found(L, E, p, a)
  <2>1. SUFFICES ASSUME NEW a \in Address, j.v <= a, a < j.v + PAGE_SIZE
                 PROVE  Found(L, E, p, a)
    OBVIOUS
  <2>2. PageOf(a) = v
    BY <1>4, <1>5, <2>1, SamePage, PageInSpace
  <2> QED BY <1>8, <2>2 DEF Found
<1>15. E[p].brk = D[p].brk /\ E[p].start = D[p].start /\ E[p].elf = D[p].elf
  BY <1>6, <1>10 DEF SameBut
<1>16. CASE Loading(j, K, D)
  <2>1. ASSUME j.brk > 0
        PROVE  Found(L, E, p, j.brk - 1) \/ (j.v + PAGE_SIZE < j.end /\ j.end = j.brk)
    <3>1. CASE Found(K, D, p, j.brk - 1)
      BY <1>5, <1>6, <1>8, <2>1, <3>1, FoundStays
    <3>2. CASE j.end = j.brk
      <4>1. CASE j.v + PAGE_SIZE < j.end
        BY <3>2, <4>1
      <4>2. CASE ~ (j.v + PAGE_SIZE < j.end)
        <5>1. j.brk - 1 \in Address /\ j.v <= j.brk - 1 /\ j.brk - 1 < j.v + PAGE_SIZE
          BY <1>5, <2>1, <3>2, <4>2, TopIs DEF Address
        <5> QED BY <1>14, <5>1
      <4> QED BY <4>1, <4>2
    <3> QED BY <1>4, <1>16, <2>1, <3>1, <3>2 DEF Loading
  <2>2. i.op = "elf" /\ SegmentsOK(i.left) /\ E[i.p].elf /\ E[i.p].brk = 0 /\ E[i.p].start = 0
    BY <1>4, <1>12, <1>15, <1>16 DEF Loading
  <2>3. i.brk > 0 => Found(L, E, i.p, i.brk - 1) \/ (i.v < i.end /\ i.end = i.brk)
    BY <1>12, <2>1
  <2>4. Loading(i, L, E)
    BY <1>13, <2>2, <2>3 DEF Loading
  <2> QED BY <1>4, <1>8, <1>9, <1>11, <2>4 DEF SpacesOK, JobOK
<1>17. CASE Moving(j, K, D)
  <2>1. PICK b : b = FirstNewPage(D[p].brk)
    OBVIOUS
  <2>2. /\ D[p].brk \in Nat /\ D[p].brk <= j.v /\ b <= j.v /\ b \in Nat
        /\ \A a \in b .. j.v - 1 : a \in Address => Found(K, D, p, a)
    <3>1. D[p].brk \in Nat /\ D[p].brk <= Top - PAGE_SIZE
      BY <1>2, <1>6, DirectoryParts, TopIs DEF Address, BreaksOK
    <3> QED BY <1>4, <1>17, <2>1, <3>1, FirstNewPageIs DEF Moving
  <2>3. \A a \in b .. (j.v + PAGE_SIZE) - 1 : a \in Address => Found(L, E, p, a)
    <3>1. SUFFICES ASSUME NEW a \in b .. (j.v + PAGE_SIZE) - 1, a \in Address
                   PROVE  Found(L, E, p, a)
      OBVIOUS
    <3>2. CASE a < j.v
      <4>1. a \in b .. j.v - 1
        BY <1>5, <2>2, <3>1, <3>2, TopIs DEF Address
      <4> QED BY <1>6, <1>8, <2>2, <3>1, <4>1, FoundStays
    <3>3. CASE ~ (a < j.v)
      <4>1. a \in Nat /\ PAGE_SIZE \in Nat
        BY <3>1, TopIs DEF Address
      <4>2. j.v <= a /\ a < j.v + PAGE_SIZE
        BY <1>5, <2>2, <3>1, <3>3, <4>1
      <4> QED BY <1>14, <3>1, <4>2
    <3> QED BY <3>2, <3>3
  <2>4. E[p].brk <= j.v + PAGE_SIZE /\ b <= j.v + PAGE_SIZE
    BY <1>5, <1>15, <2>2, TopIs
  <2>5. i.op = "sbrk" /\ i.left = << >> /\ i.end = i.brk
    BY <1>12, <1>17 DEF Moving
  <2>6. Moving(i, L, E)
    <3>1. i.v = j.v + PAGE_SIZE /\ i.p = p /\ FirstNewPage(E[p].brk) = b
      BY <1>12, <1>15, <2>1
    <3> QED BY <1>13, <2>3, <2>4, <2>5, <3>1 DEF Moving
  <2> QED BY <1>4, <1>8, <1>9, <1>11, <2>6 DEF SpacesOK, JobOK
<1> QED BY <1>3, <1>16, <1>17

(* A page of the process a call works for. *)
LEMMA BreakSet ==
  ASSUME NEW d \in Directory, NEW b \in Address
  PROVE  LET e == [d EXCEPT !.brk = b, !.start = b] IN
           /\ e \in Directory /\ e.map = d.map /\ e.table = d.table /\ e.elf = d.elf
           /\ e.brk = b /\ e.start = b
<1>1. /\ d = [table |-> d.table, map |-> d.map, brk |-> d.brk,
              start |-> d.start, elf |-> d.elf]
      /\ d.table \in [Tables -> 0 .. None] /\ d.map \in [PageNo -> 0 .. None]
      /\ d.elf \in BOOLEAN
  BY DirectoryParts
<1>2. PICK c, e : c = [d EXCEPT !.brk = b] /\ e = [d EXCEPT !.brk = b, !.start = b]
  OBVIOUS
<1>3. c = [table |-> d.table, map |-> d.map, brk |-> b, start |-> d.start, elf |-> d.elf]
  BY <1>1, <1>2
<1>4. e = [c EXCEPT !.start = b]
  BY <1>2, Zenon
<1>5. e = [table |-> d.table, map |-> d.map, brk |-> b, start |-> b, elf |-> d.elf]
  BY <1>3, <1>4
<1>6. e \in Directory
  BY <1>1, <1>5, DirectoryParts
<1> QED BY <1>2, <1>5, <1>6

(* The end of a loading: a stack, and the break. *)
LEMMA LoadedKeeps ==
  ASSUME NEW U, NEW K, NEW D, NEW H, NEW S, NEW j, SpacesOK(U, K, D, H, S, j),
         j.op = "elf", j.v >= j.end, NEW r, NEW E
  PROVE  /\ r = AllocAndMap([used |-> U, kmap |-> K, d |-> D[j.p]], ElfStack)
         /\ E = [D EXCEPT ![j.p] = [r.d EXCEPT !.brk = j.brk, !.start = j.brk]]
         => SpacesOK(r.used, r.kmap, E, H, S, Idle)
<1>1. SUFFICES ASSUME r = AllocAndMap([used |-> U, kmap |-> K, d |-> D[j.p]], ElfStack),
                      E = [D EXCEPT ![j.p] = [r.d EXCEPT !.brk = j.brk, !.start = j.brk]]
               PROVE  SpacesOK(r.used, r.kmap, E, H, S, Idle)
  OBVIOUS
<1>2. MemoryShape(K, D, S) /\ Apart(U, D, H, S) /\ BreaksOK(K, D)
  BY DEF SpacesOK
<1>3. JobShape(j, D) /\ Loading(j, K, D)
  BY DEF SpacesOK, JobOK, Loading, Moving, Idle
<1>4. PICK p, v, L, b : p = j.p /\ v = ElfStack /\ L = r.kmap /\ b = j.brk
  OBVIOUS
<1>5. /\ j.v \in Nat /\ j.end \in Address /\ b \in Address /\ b <= Top - PAGE_SIZE
      /\ b > 0 => b - 1 \in Address
  BY <1>3, <1>4, JobBounds DEF JobShape
<1>6. p \in DOMAIN D /\ v \in PageNo /\ D \in Seq(Directory)
  BY <1>2, <1>3, <1>4, AddressSpacesAssumption DEF JobShape, MemoryShape
<1>7. PICK m : m = [used |-> U, kmap |-> K, d |-> D[p]] /\ r = AllocAndMap(m, v)
  BY <1>1, <1>4
<1>8. r.d \in Directory
  <2>1. m.used = U /\ m.kmap = K /\ m.d = D[p] /\ D[p] \in Directory
    BY <1>6, <1>7
  <2>2. IsMemory(m)
    BY <1>2, <1>7, <2>1 DEF IsMemory, MemoryShape, Apart, AreMarked
  <2>3. IsMemory(r)
    BY <1>6, <1>7, <2>2, AllocAndMapIs
  <2> QED BY <2>3 DEF IsMemory
<1>9. PICK e : e = [r.d EXCEPT !.brk = b, !.start = b]
  OBVIOUS
<1>10. /\ e \in Directory /\ e.map = r.d.map /\ e.table = r.d.table /\ e.elf = r.d.elf
      /\ e.brk = b /\ e.start = b
  BY <1>5, <1>8, <1>9, BreakSet
<1>11. E = [D EXCEPT ![p] = e]
  BY <1>1, <1>4, <1>9
<1>12. /\ DOMAIN E = DOMAIN D /\ E[p] = e /\ E \in Seq(Directory)
       /\ \A q \in DOMAIN D \ {p} : E[q] = D[q]
  BY <1>6, <1>10, <1>11
<1>13. E[p].map = r.d.map /\ E[p].table = r.d.table
  BY <1>10, <1>12
<1>14. /\ IsMemory(r) /\ Apart(r.used, E, H, S) /\ Grows(K, D, L, E)
  <2>1. DOMAIN E = DOMAIN D /\ \A q \in DOMAIN D \ {p} : E[q] = D[q]
    BY <1>12
  <2>2. IsMemory(r) /\ Apart(r.used, E, H, S) /\ Grows(K, D, r.kmap, E)
    BY <1>2, <1>6, <1>7, <1>13, <2>1, PageMapped, SMTT(30)
  <2> QED BY <1>4, <2>2
<1>15. MemoryShape(L, E, S)
  BY <1>2, <1>4, <1>12, <1>14 DEF MemoryShape, IsMemory
<1>16. BreaksOK(L, E)
  <2>1. \A q \in DOMAIN D \ {p} : E[q].brk <= Top - PAGE_SIZE /\ BreakOK(L, E, q)
    <3>1. \A q \in DOMAIN D \ {p} : SameBut(D[q], E[q])
      BY <1>12 DEF SameBut
    <3> QED BY <1>2, <1>6, <1>14, <3>1, BreaksStay
  <2>2. E[p].brk = b /\ E[p].start = b
    BY <1>10, <1>12
  <2>3. b > 0 => Found(L, E, p, b - 1)
    <3>1. b > 0 => Found(K, D, p, b - 1)
      BY <1>3, <1>4, <1>5, TopIs DEF Loading, Address
    <3> QED BY <1>5, <1>6, <1>14, <3>1, FoundStays
  <2>4. b .. b - 1 = {}
    BY <1>5, TopIs DEF Address
  <2>5. BreakOK(L, E, p)
    BY <2>2, <2>3, <2>4 DEF BreakOK
  <2> QED BY <1>5, <1>12, <2>1, <2>2, <2>5 DEF BreaksOK
<1> QED BY <1>4, <1>14, <1>15, <1>16 DEF SpacesOK, JobOK

(* The next segment, once the last is mapped. *)
LEMMA SegmentKeeps ==
  ASSUME NEW U, NEW K, NEW D, NEW H, NEW S, NEW j, SpacesOK(U, K, D, H, S, j),
         j # Idle, j.v >= j.end, j.left # << >>,
         NEW seg, seg = Head(j.left), NEW i,
         i = [op |-> "elf", p |-> j.p, v |-> RoundedDown(seg[1]), end |-> seg[2],
              left |-> Tail(j.left), brk |-> IF seg[2] > j.brk THEN seg[2] ELSE j.brk]
  PROVE  SpacesOK(U, K, D, H, S, i)
<1>1. JobShape(j, D) /\ Loading(j, K, D)
  BY DEF SpacesOK, JobOK, Loading, Moving
<1>2. PICK l : l = j.left
  OBVIOUS
<1>3. l \in Seq(Address \X Address) /\ l # << >>
      /\ \A n \in 1 .. Len(l) : l[n][1] < l[n][2] /\ l[n][2] <= Top - PAGE_SIZE
  BY <1>1, <1>2 DEF Loading, SegmentsOK
<1>4. PICK a, b : a = seg[1] /\ b = seg[2]
  OBVIOUS
<1>5. a \in Address /\ b \in Address /\ a < b /\ b <= Top - PAGE_SIZE
  <2>1. seg = l[1] /\ 1 \in 1 .. Len(l)
    BY <1>2, <1>3
  <2> QED BY <1>3, <1>4, <2>1
<1>6. SegmentsOK(Tail(l))
  <2>1. Tail(l) \in Seq(Address \X Address) /\ Len(Tail(l)) = Len(l) - 1
    BY <1>3
  <2>2. ASSUME NEW n \in 1 .. Len(Tail(l))
        PROVE  Tail(l)[n] = l[n + 1] /\ n + 1 \in 1 .. Len(l)
    BY <1>3, <2>1
  <2> QED BY <1>3, <2>1, <2>2 DEF SegmentsOK
<1>7. /\ a \in Nat /\ b \in Nat /\ RoundedDown(a) \in Nat /\ Aligned(RoundedDown(a))
      /\ RoundedDown(a) <= a
  <2>1. a \in Nat /\ b \in Nat
    BY <1>5, TopIs DEF Address
  <2> QED BY <2>1, RoundedDownIs
<1>8. /\ j.brk \in 0 .. Top - PAGE_SIZE /\ j.v \in Nat /\ j.p \in DOMAIN D
      /\ j.brk > 0 => Found(K, D, j.p, j.brk - 1)
  <2>1. j.v \in Nat /\ j.end \in Address /\ j.brk \in 0 .. Top - PAGE_SIZE /\ j.p \in DOMAIN D
    BY <1>1, JobBounds DEF JobShape
  <2> QED BY <1>1, <2>1, TopIs DEF Loading, Address
<1>9. /\ i = [op |-> i.op, p |-> i.p, v |-> i.v, end |-> i.end, left |-> i.left, brk |-> i.brk]
      /\ i.op = "elf" /\ i.p = j.p /\ i.v = RoundedDown(a) /\ i.end = b /\ i.left = Tail(l)
      /\ i.brk = IF b > j.brk THEN b ELSE j.brk
  BY <1>2, <1>4
<1>10. JobShape(i, D)
  <2>1. i.v \in 0 .. Top /\ i.end \in 0 .. Top - PAGE_SIZE /\ i.brk \in 0 .. Top - PAGE_SIZE
    <3>1. Top \in Nat /\ PAGE_SIZE \in Nat /\ PAGE_SIZE <= Top
      BY TopIs
    <3>2. a \in 0 .. Top /\ b \in 0 .. Top - PAGE_SIZE
      BY <1>5, <1>7, <3>1
    <3>3. i.v \in 0 .. Top
      BY <1>7, <1>9, <3>1, <3>2
    <3> QED BY <1>8, <1>9, <3>2, <3>3
  <2> QED BY <1>7, <1>8, <1>9, <2>1 DEF JobShape
<1>11. i.brk > 0 => Found(K, D, i.p, i.brk - 1) \/ (i.v < i.end /\ i.end = i.brk)
  <2>1. CASE b > j.brk
    BY <1>5, <1>7, <1>9, <2>1
  <2>2. CASE ~ (b > j.brk)
    BY <1>8, <1>9, <2>2
  <2> QED BY <2>1, <2>2
<1>12. Loading(i, K, D)
  BY <1>1, <1>6, <1>9, <1>10, <1>11 DEF Loading
<1> QED BY <1>12 DEF SpacesOK, JobOK
(* sbrk begins, *)
LEMMA SbrkKeeps ==
  ASSUME NEW U, NEW K, NEW D, NEW H, NEW S, NEW j, SpacesOK(U, K, D, H, S, j),
         NEW p \in DOMAIN D, NEW inc \in Increments, NEW old, old = D[p].brk,
         NEW new, new = (old + inc) % Top, new < BreakLimit, NEW i,
         i = [op |-> "sbrk", p |-> p, v |-> FirstNewPage(old), end |-> new,
              left |-> << >>, brk |-> new]
  PROVE  SpacesOK(U, K, D, H, S, i)
<1>1. D \in Seq(Directory) /\ BreaksOK(K, D)
  BY DEF SpacesOK, MemoryShape
<1>2. Top \in Nat \ {0} /\ PAGE_SIZE \in Nat \ {0} /\ PAGE_SIZE <= Top
  BY TopIs
<1>3. old \in Nat /\ old <= Top - PAGE_SIZE
  <2>1. D[p] \in Directory
    BY <1>1
  <2> QED BY <1>1, <1>2, <2>1, DirectoryParts DEF BreaksOK, Address
<1>4. new \in 0 .. Top - PAGE_SIZE
  <2>1. inc \in Nat /\ BreakLimit \in 0 .. Top - PAGE_SIZE
    BY AddressSpacesAssumption
  <2>2. old + inc \in Nat
    BY <1>3, <2>1
  <2>3. new \in Nat
    BY <1>2, <2>2
  <2> QED BY <1>2, <2>1, <2>3
<1>5. PICK b : b = FirstNewPage(old)
  OBVIOUS
<1>6. b \in Nat /\ Aligned(b) /\ old <= b /\ b < old + PAGE_SIZE
  BY <1>3, <1>5, FirstNewPageIs
<1>7. /\ i = [op |-> i.op, p |-> i.p, v |-> i.v, end |-> i.end, left |-> i.left, brk |-> i.brk]
      /\ i.op = "sbrk" /\ i.p = p /\ i.v = b /\ i.end = new /\ i.left = << >> /\ i.brk = new
  BY <1>5
<1>8. JobShape(i, D)
  <2>1. b \in 0 .. Top
    BY <1>2, <1>3, <1>6
  <2> QED BY <1>4, <1>6, <1>7, <2>1 DEF JobShape
<1>9. b .. b - 1 = {}
  BY <1>6
<1>10. Moving(i, K, D)
  <2>1. D[i.p].brk <= i.v /\ FirstNewPage(D[i.p].brk) = b
    BY <1>5, <1>6, <1>7
  <2>2. \A a \in b .. i.v - 1 : FALSE
    BY <1>7, <1>9
  <2> QED BY <1>6, <1>7, <1>8, <2>1, <2>2 DEF Moving
<1> QED BY <1>10 DEF SpacesOK, JobOK

(* and moves the break: what it mapped goes on from the page of the old     *)
(* break.                                                                  *)
LEMMA BreakMovedKeeps ==
  ASSUME NEW U, NEW K, NEW D, NEW H, NEW S, NEW j, SpacesOK(U, K, D, H, S, j),
         j.op = "sbrk", j.v >= j.end, NEW E
  PROVE  E = [D EXCEPT ![j.p].brk = j.brk] => SpacesOK(U, K, E, H, S, Idle)
<1>1. SUFFICES ASSUME E = [D EXCEPT ![j.p].brk = j.brk]
               PROVE  SpacesOK(U, K, E, H, S, Idle)
  OBVIOUS
<1>2. MemoryShape(K, D, S) /\ Apart(U, D, H, S) /\ BreaksOK(K, D)
  BY DEF SpacesOK
<1>3. JobShape(j, D) /\ Moving(j, K, D)
  BY DEF SpacesOK, JobOK, Loading, Moving, Idle
<1>4. PICK p, b, d : p = j.p /\ b = j.brk /\ d = D[p]
  OBVIOUS
<1>5. /\ j.v \in Nat /\ b \in Address /\ b <= Top - PAGE_SIZE /\ b \in Nat /\ b <= j.v
      /\ p \in DOMAIN D /\ D \in Seq(Directory)
  <2>1. j.v \in Nat /\ j.brk \in Address /\ j.brk \in 0 .. Top - PAGE_SIZE
    BY <1>3, JobBounds DEF JobShape
  <2>2. b <= j.v
    BY <1>3, <1>4, <2>1, TopIs DEF Moving
  <2> QED BY <1>2, <1>3, <1>4, <2>1, <2>2, TopIs DEF JobShape, MemoryShape
<1>6. /\ d = [table |-> d.table, map |-> d.map, brk |-> d.brk,
              start |-> d.start, elf |-> d.elf]
      /\ d \in Directory /\ d.brk \in Address /\ d.start \in Address
  <2>1. d \in Directory
    BY <1>4, <1>5
  <2> QED BY <2>1, DirectoryParts
<1>7. PICK e : e = [table |-> d.table, map |-> d.map, brk |-> b,
                    start |-> d.start, elf |-> d.elf]
  OBVIOUS
<1>8. /\ e \in Directory /\ e.map = d.map /\ e.table = d.table /\ e.elf = d.elf
      /\ e.brk = b /\ e.start = d.start
  BY <1>5, <1>6, <1>7, DirectoryParts
<1>9. E = [D EXCEPT ![p] = e]
  <2>1. E = [D EXCEPT ![p] = [d EXCEPT !.brk = b]]
    BY <1>1, <1>4
  <2>2. [d EXCEPT !.brk = b] = e
    BY <1>6, <1>7
  <2> QED BY <2>1, <2>2
<1>10. /\ DOMAIN E = DOMAIN D /\ E[p] = e /\ E \in Seq(Directory)
      /\ \A q \in DOMAIN D \ {p} : E[q] = D[q]
  BY <1>5, <1>8, <1>9
<1>11. \A q \in DOMAIN D : E[q].map = D[q].map /\ E[q].table = D[q].table
  BY <1>4, <1>8, <1>10
<1>12. Apart(U, E, H, S)
  BY <1>2, <1>10, <1>11, SameMaps
<1>13. MemoryShape(K, E, S)
  BY <1>2, <1>10 DEF MemoryShape
<1>14. \A q \in DOMAIN D : \A a : Found(K, E, q, a) <=> Found(K, D, q, a)
  BY <1>11 DEF Found
<1>15. \A q \in DOMAIN D \ {p} : E[q].brk <= Top - PAGE_SIZE /\ BreakOK(K, E, q)
  BY <1>2, <1>10, <1>14 DEF BreaksOK, BreakOK
<1>16. PICK o, s, w : o = d.brk /\ s = d.start /\ w = FirstNewPage(o)
  OBVIOUS
<1>17. /\ o \in Nat /\ s \in Nat /\ w \in Nat /\ o <= Top - PAGE_SIZE
       /\ \A a \in o .. w - 1 : o > 0 /\ PageOf(a) = PageOf(o - 1)
       /\ \A a \in w .. j.v - 1 : a \in Address => Found(K, D, p, a)
       /\ d.elf => /\ s > 0 => Found(K, D, p, s - 1)
                   /\ \A a \in s .. o - 1 : Found(K, D, p, a)
  <2>1. o \in Nat /\ s \in Nat
    BY <1>6, <1>16, TopIs DEF Address
  <2>2. o <= Top - PAGE_SIZE
    BY <1>2, <1>4, <1>5, <1>16 DEF BreaksOK
  <2>3. w \in Nat /\ \A a \in o .. w - 1 : o > 0 /\ PageOf(a) = PageOf(o - 1)
    BY <1>16, <2>1, <2>2, FirstNewPageIs
  <2>4. \A a \in w .. j.v - 1 : a \in Address => Found(K, D, p, a)
    BY <1>3, <1>4, <1>16 DEF Moving
  <2>5. d.elf => /\ s > 0 => Found(K, D, p, s - 1)
                 /\ \A a \in s .. o - 1 : Found(K, D, p, a)
    BY <1>2, <1>4, <1>5, <1>16 DEF BreaksOK, BreakOK
  <2> QED BY <2>1, <2>3, <2>4, <2>2, <2>5
<1>18. ASSUME d.elf, NEW a \in s .. b - 1 PROVE Found(K, D, p, a)
  <2>1. a \in Nat /\ a \in Address /\ s <= a /\ a < b
    BY <1>5, <1>17, <1>18, TopIs DEF Address
  <2>2. CASE a < o
    <3>1. a \in s .. o - 1
      BY <1>17, <2>1, <2>2
    <3> QED BY <1>17, <1>18, <3>1
  <2>3. CASE a >= w
    <3>1. a \in w .. j.v - 1
      BY <1>5, <1>17, <2>1, <2>3
    <3> QED BY <1>17, <2>1, <3>1
  <2>4. CASE ~ (a < o) /\ ~ (a >= w)
    <3>1. a \in o .. w - 1
      BY <1>17, <2>1, <2>4
    <3>2. o > 0 /\ o - 1 \in Nat /\ PageOf(a) = PageOf(o - 1)
      BY <1>17, <3>1
    <3>3. CASE s < o
      <4>1. o - 1 \in s .. o - 1
        BY <1>17, <3>2, <3>3
      <4>2. Found(K, D, p, o - 1)
        BY <1>17, <1>18, <4>1
      <4> QED BY <3>2, <4>2 DEF Found
    <3>4. CASE ~ (s < o)
      <4>1. s > 0 /\ s - 1 \in Nat /\ o - 1 <= s - 1 /\ s - 1 <= a
        BY <1>17, <2>1, <3>2, <3>4
      <4>2. PageOf(o - 1) <= PageOf(s - 1) /\ PageOf(s - 1) <= PageOf(a)
        BY <2>1, <3>2, <4>1, PagesInOrder
      <4>3. PageOf(s - 1) \in Nat /\ PageOf(a) \in Nat
        BY <2>1, <4>1, PageBounds
      <4>4. PageOf(s - 1) = PageOf(a)
        BY <3>2, <4>2, <4>3
      <4>5. Found(K, D, p, s - 1)
        BY <1>17, <1>18, <4>1
      <4> QED BY <4>4, <4>5 DEF Found
    <3> QED BY <3>3, <3>4
  <2> QED BY <2>2, <2>3, <2>4
<1>19. BreakOK(K, E, p)
  <2>1. E[p].elf = d.elf /\ E[p].start = s /\ E[p].brk = b
    BY <1>8, <1>10, <1>16
  <2>2. d.elf => (s > 0 => Found(K, E, p, s - 1))
    BY <1>5, <1>14, <1>17
  <2>3. d.elf => \A a \in s .. b - 1 : Found(K, E, p, a)
    BY <1>5, <1>14, <1>18
  <2> QED BY <2>1, <2>2, <2>3 DEF BreakOK
<1>20. BreaksOK(K, E)
  BY <1>5, <1>8, <1>10, <1>15, <1>19 DEF BreaksOK
<1> QED BY <1>12, <1>13, <1>20 DEF SpacesOK, JobOK
(* A process is added, with no memory, and a frame may be mapped in it. *)
LEMMA EmptyIs ==
  /\ EmptyDirectory \in Directory /\ EmptyDirectory.brk = 0 /\ EmptyDirectory.start = 0
  /\ EmptyDirectory = [table |-> [t \in Tables |-> None], map |-> [v \in PageNo |-> None],
                       brk |-> 0, start |-> 0, elf |-> FALSE]
<1>1. None \in 0 .. None /\ 0 \in Address
  <2>1. FRAMES_COUNT \in Nat /\ Top >= 1 /\ Top \in Nat
    BY TopIs, AddressSpacesAssumption
  <2> QED BY <2>1 DEF None, Address
<1>2. PICK e : e = EmptyDirectory
  OBVIOUS
<1>3. e = [table |-> [t \in Tables |-> None], map |-> [v \in PageNo |-> None],
           brk |-> 0, start |-> 0, elf |-> FALSE]
  BY <1>2 DEF EmptyDirectory
<1>4. e \in Directory
  BY <1>1, <1>3 DEF Directory
<1> QED BY <1>2, <1>3, <1>4

HasNothing(d) ==
  /\ d \in Directory /\ d.start = 0 /\ d.brk <= Top - PAGE_SIZE /\ (d.elf => d.brk = 0)
  /\ \A v \in PageNo : d.map[v] = None
  /\ \A t \in Tables : d.table[t] = None

Added(D, d, n, E) ==
  /\ E \in Seq(Directory) /\ DOMAIN E = DOMAIN D \union {n} /\ E[n] = d
  /\ \A q \in DOMAIN D : q # n /\ E[q] = D[q]

LEMMA AppendIs ==
  ASSUME NEW D \in Seq(Directory), NEW d \in Directory
  PROVE  Added(D, d, Len(D) + 1, Append(D, d))
BY DEF Added

LEMMA EmptyAdded ==
  ASSUME NEW U, NEW K, NEW D, NEW H, NEW S, MemoryShape(K, D, S),
         Apart(U, D, H, S), BreaksOK(K, D),
         NEW d, HasNothing(d), NEW n, NEW E, Added(D, d, n, E)
  PROVE  /\ MemoryShape(K, E, S) /\ Apart(U, E, H, S) /\ BreaksOK(K, E)
         /\ n \in DOMAIN E /\ E[n] = d
<1>1. D \in Seq(Directory)
  BY DEF MemoryShape
<1>2. /\ E \in Seq(Directory) /\ E[n] = d /\ DOMAIN E = DOMAIN D \union {n}
      /\ \A q \in DOMAIN D : q # n /\ E[q] = D[q]
  BY DEF Added
<1>3. MemoryShape(K, E, S)
  BY <1>2 DEF MemoryShape
<1>4. Apart(U, E, H, S)
  <2>1. \A v \in PageNo : E[n].map[v] = None
    BY <1>2 DEF HasNothing
  <2>2. \A t \in Tables : E[n].table[t] = None
    BY <1>2 DEF HasNothing
  <2>3. DOMAIN E = DOMAIN D \union {n} /\ \A q \in DOMAIN D : q # n /\ E[q] = D[q]
    BY <1>2
  <2> QED BY <2>1, <2>2, <2>3, ProcessAdded
<1>5. Grows(K, D, K, E)
  BY <1>2 DEF Grows
<1>6. \A q \in DOMAIN D : E[q].brk <= Top - PAGE_SIZE /\ BreakOK(K, E, q)
  <2>1. \A q \in DOMAIN D : SameBut(D[q], E[q])
    BY <1>2 DEF SameBut
  <2> QED BY <1>1, <1>5, <2>1, BreaksStay
<1>7. BreakOK(K, E, n)
  <2>1. \A a \in 0 .. 0 - 1 : FALSE
    OBVIOUS
  <2>2. ~ (0 > 0)
    OBVIOUS
  <2> QED BY <1>2, <2>1, <2>2 DEF BreakOK, HasNothing
<1>8. BreaksOK(K, E)
  BY <1>2, <1>6, <1>7 DEF BreaksOK, HasNothing
<1> QED BY <1>2, <1>3, <1>4, <1>8

LEMMA LoadElfKeeps ==
  ASSUME NEW U, NEW K, NEW D, NEW H, NEW S, NEW j, SpacesOK(U, K, D, H, S, j),
         NEW image \in Images, NEW E, NEW i,
         i = [op |-> "elf", p |-> Len(D) + 1, v |-> 0, end |-> 0,
              left |-> image, brk |-> 0]
  PROVE  E = Append(D, [EmptyDirectory EXCEPT !.elf = TRUE]) => SpacesOK(U, K, E, H, S, i)
<1>1. SUFFICES ASSUME E = Append(D, [EmptyDirectory EXCEPT !.elf = TRUE])
               PROVE  SpacesOK(U, K, E, H, S, i)
  OBVIOUS
<1>2. MemoryShape(K, D, S) /\ Apart(U, D, H, S) /\ BreaksOK(K, D)
  BY DEF SpacesOK
<1>3. PICK d, n : d = [EmptyDirectory EXCEPT !.elf = TRUE] /\ n = Len(D) + 1
  OBVIOUS
<1>4. d = [table |-> [t \in Tables |-> None], map |-> [v \in PageNo |-> None],
           brk |-> 0, start |-> 0, elf |-> TRUE]
  BY <1>3, EmptyIs
<1>5. None \in 0 .. None /\ 0 \in Address
  <2>1. FRAMES_COUNT \in Nat /\ Top >= 1 /\ Top \in Nat
    BY TopIs, AddressSpacesAssumption
  <2> QED BY <2>1 DEF None, Address
<1>6. d \in Directory
  BY <1>4, <1>5 DEF Directory
<1>7. E = Append(D, d)
  BY <1>1, <1>3
<1>8. 0 <= Top - PAGE_SIZE
  BY TopIs
<1>9. /\ MemoryShape(K, E, S) /\ Apart(U, E, H, S) /\ BreaksOK(K, E)
      /\ n \in DOMAIN E /\ E[n] = d
  <2>1. /\ d.start = 0 /\ d.brk = 0 /\ \A v \in PageNo : d.map[v] = None
        /\ \A t \in Tables : d.table[t] = None
    BY <1>4
  <2>2. d.brk <= Top - PAGE_SIZE /\ (d.elf => d.brk = 0)
    BY <1>8, <2>1
  <2>3. HasNothing(d)
    BY <1>6, <2>1, <2>2 DEF HasNothing
  <2>4. Added(D, d, n, E)
    BY <1>2, <1>3, <1>6, <1>7, AppendIs DEF MemoryShape
  <2> QED BY <1>2, <2>3, <2>4, EmptyAdded
<1>10. /\ i = [op |-> i.op, p |-> i.p, v |-> i.v, end |-> i.end, left |-> i.left, brk |-> i.brk]
      /\ i.op = "elf" /\ i.p = n /\ i.v = 0 /\ i.end = 0 /\ i.left = image /\ i.brk = 0
  BY <1>3
<1>11. JobShape(i, E)
  <2>1. Aligned(0)
    <3>1. Aligned(0 * PAGE_SIZE) /\ 0 * PAGE_SIZE = 0
      BY AlignedPage, AddressSpacesAssumption
    <3> QED BY <3>1
  <2>2. 0 \in 0 .. Top /\ 0 \in 0 .. Top - PAGE_SIZE
    BY TopIs
  <2> QED BY <1>9, <1>10, <2>1, <2>2 DEF JobShape
<1>12. SegmentsOK(image)
  <2>1. /\ image \in Seq(Address \X Address)
        /\ \A x \in DOMAIN image : image[x][1] < image[x][2] /\ image[x][2] <= Top - PAGE_SIZE
    BY AddressSpacesAssumption
  <2> QED BY <2>1 DEF SegmentsOK
<1>13. Loading(i, K, E)
  <2>1. d.elf /\ d.brk = 0 /\ d.start = 0
    BY <1>4
  <2>2. ~ (0 > 0)
    OBVIOUS
  <2> QED BY <1>9, <1>10, <1>11, <1>12, <2>1, <2>2 DEF Loading
<1> QED BY <1>9, <1>13 DEF SpacesOK, JobOK

LEMMA CreateKeeps ==
  ASSUME NEW U, NEW K, NEW D, NEW H, NEW S, SpacesOK(U, K, D, H, S, Idle),
         NEW g \in Garbage, NEW r, NEW E
  PROVE  /\ r = AllocAndMap([used |-> U, kmap |-> K,
                             d |-> [EmptyDirectory EXCEPT !.brk = g]], UserStack)
         /\ E = Append(D, r.d)
         => SpacesOK(r.used, r.kmap, E, H, S, Idle)
<1>1. SUFFICES ASSUME r = AllocAndMap([used |-> U, kmap |-> K,
                                       d |-> [EmptyDirectory EXCEPT !.brk = g]], UserStack),
                      E = Append(D, r.d)
               PROVE  SpacesOK(r.used, r.kmap, E, H, S, Idle)
  OBVIOUS
<1>2. MemoryShape(K, D, S) /\ Apart(U, D, H, S) /\ BreaksOK(K, D)
  BY DEF SpacesOK
<1>3. PICK d, n, F : d = [EmptyDirectory EXCEPT !.brk = g] /\ n = Len(D) + 1 /\ F = Append(D, d)
  OBVIOUS
<1>4. d = [table |-> [t \in Tables |-> None], map |-> [v \in PageNo |-> None],
           brk |-> g, start |-> 0, elf |-> FALSE]
  BY <1>3, EmptyIs
<1>5. None \in 0 .. None /\ 0 \in Address /\ g \in Address /\ g <= Top - PAGE_SIZE
  <2>1. FRAMES_COUNT \in Nat /\ g \in 0 .. Top - PAGE_SIZE
    BY AddressSpacesAssumption
  <2>2. Top \in Nat /\ PAGE_SIZE \in Nat \ {0} /\ PAGE_SIZE <= Top
    BY TopIs
  <2> QED BY <2>1, <2>2 DEF None, Address
<1>6. d \in Directory
  BY <1>4, <1>5 DEF Directory
<1>7. /\ MemoryShape(K, F, S) /\ Apart(U, F, H, S) /\ BreaksOK(K, F)
      /\ n \in DOMAIN F /\ F[n] = d
  <2>1. /\ d.start = 0 /\ d.brk = g /\ ~ d.elf /\ \A v \in PageNo : d.map[v] = None
        /\ \A t \in Tables : d.table[t] = None
    BY <1>4
  <2>2. d.brk <= Top - PAGE_SIZE /\ (d.elf => d.brk = 0)
    BY <1>5, <2>1
  <2>3. HasNothing(d)
    BY <1>6, <2>1, <2>2 DEF HasNothing
  <2>4. Added(D, d, n, F)
    BY <1>2, <1>3, <1>6, AppendIs DEF MemoryShape
  <2> QED BY <1>2, <2>3, <2>4, EmptyAdded
<1>8. PICK m : m = [used |-> U, kmap |-> K, d |-> d] /\ r = AllocAndMap(m, UserStack)
  BY <1>1, <1>3
<1>9. r.d \in Directory
  <2>1. m.used = U /\ m.kmap = K /\ m.d = d
    BY <1>8
  <2>2. IsMemory(m)
    BY <1>2, <1>6, <1>8, <2>1 DEF IsMemory, MemoryShape, Apart, AreMarked
  <2>3. IsMemory(r)
    BY <1>8, <2>2, AllocAndMapIs, AddressSpacesAssumption
  <2> QED BY <2>3 DEF IsMemory
<1>10. /\ DOMAIN E = DOMAIN F /\ E[n] = r.d /\ E \in Seq(Directory)
      /\ \A q \in DOMAIN F \ {n} : E[q] = F[q]
  <2>1. D \in Seq(Directory)
    BY <1>2 DEF MemoryShape
  <2> QED BY <1>1, <1>3, <1>6, <1>9, <2>1
<1>11. /\ IsMemory(r) /\ SameBut(F[n], r.d)
       /\ Apart(r.used, E, H, S) /\ Grows(K, F, r.kmap, E)
  <2>1. m = [used |-> U, kmap |-> K, d |-> F[n]]
    BY <1>7, <1>8
  <2>2. E[n].map = r.d.map /\ E[n].table = r.d.table /\ UserStack \in PageNo
    BY <1>10, AddressSpacesAssumption
  <2> QED BY <1>7, <1>8, <1>10, <2>1, <2>2, PageMapped, SMTT(30)
<1>12. MemoryShape(r.kmap, E, S)
  BY <1>2, <1>10, <1>11 DEF MemoryShape, IsMemory
<1>13. BreaksOK(r.kmap, E)
  <2>1. \A q \in DOMAIN F : SameBut(F[q], E[q])
    BY <1>10, <1>11 DEF SameBut
  <2>2. \A q \in DOMAIN F : E[q].brk <= Top - PAGE_SIZE /\ BreakOK(r.kmap, E, q)
    <3>1. F \in Seq(Directory)
      BY <1>7 DEF MemoryShape
    <3> QED BY <1>7, <1>11, <2>1, <3>1, BreaksStay
  <2> QED BY <1>10, <2>2 DEF BreaksOK
<1> QED BY <1>11, <1>12, <1>13 DEF SpacesOK, JobOK
(* The heap grows. *)
LEMMA ExpandHeapKeeps ==
  ASSUME NEW U, NEW K, NEW D, NEW H, NEW S, NEW j, SpacesOK(U, K, D, H, S, j),
         U # AllFrames
  PROVE  SpacesOK(Marked(U), K, D, H \union {FirstFree(U)}, S, j)
<1>1. Apart(U, D, H, S) /\ U \in SUBSET AllFrames /\ 0 .. Low - 1 \subseteq U
  BY DEF SpacesOK, Apart, AreMarked
<1>2. PICK f : f = FirstFree(U)
  OBVIOUS
<1>3. f \in AllFrames /\ Marked(U) = U \union {f}
  BY <1>1, <1>2, FreshFrame
<1>4. f \notin U
  <2>1. AllFrames \ U # {} /\ AllFrames \ U \in SUBSET Nat
    <3>1. PICK x : x \in AllFrames /\ x \notin U
      BY <1>1, Zenon
    <3>2. AllFrames \in SUBSET Nat
      BY AddressSpacesAssumption DEF AllFrames
    <3> QED BY <3>1, <3>2
  <2>2. f = Min(AllFrames \ U)
    BY <1>2 DEF FirstFree, AllFrames
  <2> QED BY <2>1, <2>2, MinOfNats
<1>5. Apart(U \union {f}, D, H \union {f}, S)
  BY <1>1, <1>3, <1>4, HeapGiven
<1> QED BY <1>2, <1>3, <1>5 DEF SpacesOK

(* A region is made, in a slot that was free. *)
LEMMA FirstFreeSlotIs ==
  ASSUME FreeSlots # {}
  PROVE  FirstFreeSlot \in Slot /\ shm[FirstFreeSlot] = << >>
<1>1. FreeSlots \in SUBSET Nat
  BY AddressSpacesAssumption DEF FreeSlots, Slot
<1>2. FirstFreeSlot \in FreeSlots
  BY <1>1, MinOfNats DEF FirstFreeSlot
<1> QED BY <1>2 DEF FreeSlots

LEMMA ShmGetKeeps ==
  ASSUME NEW U, NEW K, NEW D, NEW H, NEW S, NEW j, SpacesOK(U, K, D, H, S, j),
         NEW s \in Slot, S[s] = << >>, NEW k \in Keys, \A r \in InUse(S) : S[r][1] # k,
         NEW R
  PROVE  R = [S EXCEPT ![s] = <<k, FirstFree(U)>>] => SpacesOK(Marked(U), K, D, H, R, j)
<1>1. SUFFICES ASSUME R = [S EXCEPT ![s] = <<k, FirstFree(U)>>]
               PROVE  SpacesOK(Marked(U), K, D, H, R, j)
  OBVIOUS
<1>2. /\ Apart(U, D, H, S) /\ U \in SUBSET AllFrames /\ 0 .. Low - 1 \subseteq U
      /\ MemoryShape(K, D, S)
  BY DEF SpacesOK, Apart, AreMarked
<1>3. PICK f : f = FirstFree(U)
  OBVIOUS
<1>4. f \in AllFrames /\ Marked(U) = U \union {f} /\ (Given(f) => f \notin U)
  BY <1>2, <1>3, FreshFrame
<1>5. S \in [Slot -> {<< >>} \union (Keys \X AllFrames)] /\ R = [S EXCEPT ![s] = <<k, f>>]
  BY <1>1, <1>2, <1>3 DEF MemoryShape
<1>6. Apart(U \union {f}, D, H, R)
  BY <1>2, <1>4, <1>5, RegionGiven
<1>7. <<k, f>> \in Keys \X AllFrames
  BY <1>4
<1>8. R \in [Slot -> {<< >>} \union (Keys \X AllFrames)]
  BY <1>5, <1>7
<1>9. MemoryShape(K, D, R)
  BY <1>2, <1>8 DEF MemoryShape
<1> QED BY <1>4, <1>6, <1>9 DEF SpacesOK

(* A region is attached. *)
LEMMA ShmAtKeeps ==
  ASSUME NEW U, NEW K, NEW D, NEW H, NEW S, SpacesOK(U, K, D, H, S, Idle),
         NEW p \in DOMAIN D, NEW s \in InUse(S), NEW r, NEW E
  PROVE  /\ r = MapPage([used |-> U, kmap |-> K, d |-> D[p]], ShmPage + s, S[s][2])
         /\ E = [D EXCEPT ![p] = r.d]
         => SpacesOK(r.used, r.kmap, E, H, S, Idle)
<1>1. SUFFICES ASSUME r = MapPage([used |-> U, kmap |-> K, d |-> D[p]], ShmPage + s, S[s][2]),
                      E = [D EXCEPT ![p] = r.d]
               PROVE  SpacesOK(r.used, r.kmap, E, H, S, Idle)
  OBVIOUS
<1>2. MemoryShape(K, D, S) /\ Apart(U, D, H, S) /\ BreaksOK(K, D)
  BY DEF SpacesOK
<1>3. PICK v, f : v = ShmPage + s /\ f = S[s][2]
  OBVIOUS
<1>4. PICK m : m = [used |-> U, kmap |-> K, d |-> D[p]] /\ r = MapPage(m, v, f)
  BY <1>1, <1>3
<1>5. DOMAIN E = DOMAIN D /\ E[p] = r.d /\ \A q \in DOMAIN D \ {p} : E[q] = D[q]
  BY <1>1
<1>6. /\ IsMemory(r) /\ SameBut(D[p], r.d)
      /\ Apart(r.used, E, H, S) /\ Grows(K, D, r.kmap, E)
  BY <1>2, <1>3, <1>4, <1>5, RegionMapped
<1>7. MemoryShape(r.kmap, E, S)
  <2>1. D \in Seq(Directory) /\ r.d \in Directory
    BY <1>2, <1>6 DEF MemoryShape, IsMemory
  <2>2. E \in Seq(Directory)
    BY <1>1, <2>1
  <2> QED BY <1>2, <1>6, <2>2 DEF MemoryShape, IsMemory
<1>8. BreaksOK(r.kmap, E)
  <2>1. \A q \in DOMAIN D : SameBut(D[q], E[q])
    BY <1>5, <1>6 DEF SameBut
  <2>2. \A q \in DOMAIN D : E[q].brk <= Top - PAGE_SIZE /\ BreakOK(r.kmap, E, q)
    <3>1. D \in Seq(Directory)
      BY <1>2 DEF MemoryShape
    <3> QED BY <1>2, <1>6, <2>1, <3>1, BreaksStay
  <2> QED BY <1>5, <2>2 DEF BreaksOK
<1> QED BY <1>6, <1>7, <1>8 DEF SpacesOK, JobOK
-----------------------------------------------------------------------------
(***************************************************************************)
(* The steps.                                                              *)
(***************************************************************************)
LEMMA CallKeeps ==
  ASSUME SpacesInv, job = Idle, Call
  PROVE  SpacesInv'
<1>1. SpacesOK(used, kmap, dirs, heap, shm, Idle) /\ SpacesOK(used, kmap, dirs, heap, shm, job)
  BY DEF SpacesInv
<1>2. CASE CreateUserProcess
  <2>1. PICK g \in Garbage :
          LET m == AllocAndMap(Memory([EmptyDirectory EXCEPT !.brk = g]), UserStack) IN
            used' = m.used /\ kmap' = m.kmap /\ dirs' = Append(dirs, m.d)
    BY <1>2 DEF CreateUserProcess
  <2>2. PICK r, E : /\ r = AllocAndMap([used |-> used, kmap |-> kmap,
                                        d |-> [EmptyDirectory EXCEPT !.brk = g]], UserStack)
                    /\ E = Append(dirs, r.d)
    OBVIOUS
  <2>3. used' = r.used /\ kmap' = r.kmap /\ dirs' = E
    BY <2>1, <2>2 DEF Memory
  <2>4. heap' = heap /\ shm' = shm /\ job' = Idle
    BY <1>2 DEF CreateUserProcess
  <2>5. SpacesOK(r.used, r.kmap, E, heap, shm, Idle)
    BY <1>1, <2>2, CreateKeeps
  <2> QED BY <2>3, <2>4, <2>5 DEF SpacesInv
<1>3. CASE LoadElf
  <2>1. PICK image \in Images :
          job' = [op |-> "elf", p |-> Len(dirs) + 1, v |-> 0, end |-> 0,
                  left |-> image, brk |-> 0]
    BY <1>3 DEF LoadElf
  <2>2. PICK E, i : E = dirs' /\ i = job'
    OBVIOUS
  <2>3. E = Append(dirs, [EmptyDirectory EXCEPT !.elf = TRUE])
    BY <1>3, <2>2 DEF LoadElf
  <2>4. SpacesOK(used, kmap, E, heap, shm, i)
    BY <1>1, <2>1, <2>2, <2>3, LoadElfKeeps
  <2>5. used' = used /\ kmap' = kmap /\ heap' = heap /\ shm' = shm
    BY <1>3 DEF LoadElf
  <2> QED BY <2>2, <2>4, <2>5 DEF SpacesInv
<1>4. ASSUME NEW p \in DOMAIN dirs, Sbrk(p) PROVE SpacesInv'
  <2>1. PICK inc \in Increments :
          LET new == (dirs[p].brk + inc) % Top IN
            /\ new < BreakLimit
            /\ job' = [op |-> "sbrk", p |-> p, v |-> FirstNewPage(dirs[p].brk), end |-> new,
                       left |-> << >>, brk |-> new]
    BY <1>4 DEF Sbrk
  <2>2. PICK old, new :
          /\ old = dirs[p].brk /\ new = (old + inc) % Top /\ new < BreakLimit
          /\ job' = [op |-> "sbrk", p |-> p, v |-> FirstNewPage(old), end |-> new,
                     left |-> << >>, brk |-> new]
    BY <2>1
  <2>3. PICK i : i = job'
    OBVIOUS
  <2>4. SpacesOK(used, kmap, dirs, heap, shm, i)
    BY <1>1, <2>2, <2>3, SbrkKeeps
  <2>5. used' = used /\ kmap' = kmap /\ dirs' = dirs /\ heap' = heap /\ shm' = shm
    BY <1>4 DEF Sbrk
  <2> QED BY <2>3, <2>4, <2>5 DEF SpacesInv
<1>5. CASE ExpandHeap
  <2>1. used # AllFrames /\ used' = Marked(used) /\ heap' = heap \union {FirstFree(used)}
        /\ kmap' = kmap /\ dirs' = dirs /\ shm' = shm /\ job' = job
    BY <1>5 DEF ExpandHeap, AllFrames
  <2>2. SpacesOK(Marked(used), kmap, dirs, heap \union {FirstFree(used)}, shm, job)
    BY <1>1, <2>1, ExpandHeapKeeps
  <2> QED BY <2>1, <2>2 DEF SpacesInv
<1>6. ASSUME NEW k \in Keys, ShmGet(k) PROVE SpacesInv'
  <2>1. PICK s, R : s = FirstFreeSlot /\ R = shm'
    OBVIOUS
  <2>2. s \in Slot /\ shm[s] = << >>
    BY <1>6, <2>1, FirstFreeSlotIs DEF ShmGet
  <2>3. \A r \in InUse(shm) : shm[r][1] # k
    BY <1>6 DEF ShmGet, IsNew, Attached, InUse
  <2>4. R = [shm EXCEPT ![s] = <<k, FirstFree(used)>>]
    BY <1>6, <2>1 DEF ShmGet
  <2>5. SpacesOK(Marked(used), kmap, dirs, heap, R, job)
    BY <1>1, <2>2, <2>3, <2>4, ShmGetKeeps
  <2>6. used' = Marked(used) /\ kmap' = kmap /\ heap' = heap /\ dirs' = dirs /\ job' = job
    BY <1>6 DEF ShmGet
  <2> QED BY <2>1, <2>5, <2>6 DEF SpacesInv
<1>7. ASSUME NEW p \in DOMAIN dirs, NEW s \in Slot, ShmAt(p, s) PROVE SpacesInv'
  <2>1. PICK r, E : /\ r = MapPage([used |-> used, kmap |-> kmap, d |-> dirs[p]],
                                   ShmPage + s, shm[s][2])
                    /\ E = [dirs EXCEPT ![p] = r.d]
    OBVIOUS
  <2>2. used' = r.used /\ kmap' = r.kmap /\ dirs' = E
    BY <1>7, <2>1 DEF ShmAt, Memory
  <2>3. heap' = heap /\ shm' = shm /\ job' = Idle /\ s \in InUse(shm)
    BY <1>7 DEF ShmAt, InUse
  <2>4. SpacesOK(r.used, r.kmap, E, heap, shm, Idle)
    BY <1>1, <2>1, <2>3, ShmAtKeeps
  <2> QED BY <2>2, <2>3, <2>4 DEF SpacesInv
<1> QED BY <1>2, <1>3, <1>4, <1>5, <1>6, <1>7 DEF Call

LEMMA LoopKeeps ==
  ASSUME SpacesInv, job # Idle, Segment \/ MapOn \/ Loaded \/ BreakMoved
  PROVE  SpacesInv'
<1>1. SpacesOK(used, kmap, dirs, heap, shm, job)
  BY DEF SpacesInv
<1>2. CASE Segment
  <2>1. PICK seg, i : seg = Head(job.left) /\ i = job'
    OBVIOUS
  <2>2. job.v >= job.end /\ job.left # << >>
        /\ i = [op |-> "elf", p |-> job.p, v |-> RoundedDown(seg[1]), end |-> seg[2],
                left |-> Tail(job.left), brk |-> IF seg[2] > job.brk THEN seg[2] ELSE job.brk]
    BY <1>2, <2>1 DEF Segment
  <2>3. SpacesOK(used, kmap, dirs, heap, shm, i)
    BY <1>1, <2>1, <2>2, SegmentKeeps
  <2>4. used' = used /\ kmap' = kmap /\ heap' = heap /\ dirs' = dirs /\ shm' = shm
    BY <1>2 DEF Segment
  <2> QED BY <2>1, <2>3, <2>4 DEF SpacesInv
<1>3. CASE MapOn
  <2>1. PICK r, E, i :
          /\ r = AllocAndMap([used |-> used, kmap |-> kmap, d |-> dirs[job.p]], PageOf(job.v))
          /\ E = [dirs EXCEPT ![job.p] = r.d] /\ i = [job EXCEPT !.v = job.v + PAGE_SIZE]
    OBVIOUS
  <2>2. used' = r.used /\ kmap' = r.kmap /\ dirs' = E /\ job' = i
        /\ job.v < job.end /\ heap' = heap /\ shm' = shm
    BY <1>3, <2>1 DEF MapOn, Memory
  <2>3. SpacesOK(r.used, r.kmap, E, heap, shm, i)
    BY <1>1, <2>1, <2>2, MapOnKeeps
  <2> QED BY <2>2, <2>3 DEF SpacesInv
<1>4. CASE Loaded
  <2>1. PICK r, E :
          /\ r = AllocAndMap([used |-> used, kmap |-> kmap, d |-> dirs[job.p]], ElfStack)
          /\ E = [dirs EXCEPT ![job.p] = [r.d EXCEPT !.brk = job.brk, !.start = job.brk]]
    OBVIOUS
  <2>2. used' = r.used /\ kmap' = r.kmap /\ dirs' = E /\ job' = Idle
        /\ job.op = "elf" /\ job.v >= job.end /\ heap' = heap /\ shm' = shm
    BY <1>4, <2>1 DEF Loaded, Memory
  <2>3. SpacesOK(r.used, r.kmap, E, heap, shm, Idle)
    BY <1>1, <2>1, <2>2, LoadedKeeps
  <2> QED BY <2>2, <2>3 DEF SpacesInv
<1>5. CASE BreakMoved
  <2>1. PICK E : E = [dirs EXCEPT ![job.p].brk = job.brk]
    OBVIOUS
  <2>2. used' = used /\ kmap' = kmap /\ dirs' = E /\ job' = Idle
        /\ job.op = "sbrk" /\ job.v >= job.end /\ heap' = heap /\ shm' = shm
    BY <1>5, <2>1 DEF BreakMoved
  <2>3. SpacesOK(used, kmap, E, heap, shm, Idle)
    BY <1>1, <2>1, <2>2, BreakMovedKeeps
  <2> QED BY <2>2, <2>3 DEF SpacesInv
<1> QED BY <1>2, <1>3, <1>4, <1>5

LEMMA SpacesStep == SpacesInv /\ [SpacesNext]_spaces => SpacesInv'
<1> SUFFICES ASSUME SpacesInv, [SpacesNext]_spaces PROVE SpacesInv'
  OBVIOUS
<1>1. CASE UNCHANGED spaces
  BY <1>1 DEF SpacesInv, spaces
<1>2. CASE SpacesNext
  BY <1>2, CallKeeps, LoopKeeps DEF SpacesNext
<1> QED BY <1>1, <1>2
-----------------------------------------------------------------------------
(***************************************************************************)
(* What the invariant says of the properties.                              *)
(***************************************************************************)
LEMMA SpacesTyped == SpacesInv => SpacesTypeOK
<1> SUFFICES ASSUME SpacesInv PROVE SpacesTypeOK
  OBVIOUS
<1>1. /\ MemoryShape(kmap, dirs, shm) /\ AreMarked(used, dirs, heap, shm)
      /\ JobOK(job, kmap, dirs)
  BY DEF SpacesInv, SpacesOK, Apart
<1>2. used \subseteq 0 .. FRAMES_COUNT - 1 /\ heap \subseteq used
  BY <1>1 DEF AreMarked, AllFrames
<1>3. kmap \in [PageNo -> 0 .. None] /\ dirs \in Seq(Directory)
  BY <1>1 DEF MemoryShape
<1>4. shm \in [Slot -> {<<>>} \union (Keys \X (0 .. None))]
  <2>1. AllFrames \subseteq 0 .. None
    BY AddressSpacesAssumption DEF AllFrames, None
  <2>2. \A s \in Slot : shm[s] \in {<<>>} \union (Keys \X (0 .. None))
    BY <1>1, <2>1 DEF MemoryShape
  <2> QED BY <1>1, <2>2 DEF MemoryShape
<1>5. \/ job = Idle
      \/ /\ job.op \in {"elf", "sbrk"} /\ job.p \in DOMAIN dirs
         /\ job.v \in 0 .. Top /\ job.end \in Address /\ job.brk \in Address
  BY <1>1, JobBounds DEF JobOK, Loading, Moving, JobShape
<1> QED BY <1>2, <1>3, <1>4, <1>5 DEF SpacesTypeOK

LEMMA OnceUsed == SpacesInv => OneUse
<1> SUFFICES ASSUME SpacesInv PROVE OneUse
  OBVIOUS
<1>1. /\ AreMarked(used, dirs, heap, shm) /\ PagesApart(dirs, shm)
      /\ TablesApart(dirs, heap, shm) /\ HeapApart(dirs, heap, shm)
  BY DEF SpacesInv, SpacesOK, Apart
<1>2. InUse(shm) = Slot \ FreeSlots
  BY DEF InUse, FreeSlots
<1>3. \A f : IsRegion(shm, f) <=> f \in ShmFrames
  BY <1>2 DEF IsRegion, ShmFrames
<1>4. \A p, q \in DOMAIN dirs : \A v, w \in PageNo :
        Given(dirs[p].map[v]) /\ dirs[p].map[v] = dirs[q].map[w] =>
          <<p, v>> = <<q, w>> \/ (dirs[p].map[v] \in ShmFrames /\ v = w)
  BY <1>1, <1>3 DEF PagesApart
<1>5. \A x \in TableFrames : x[1] \in DOMAIN dirs /\ x[2] \in Tables /\ x = <<x[1], x[2]>>
  BY DEF TableFrames
<1>6. ASSUME NEW x \in TableFrames, NEW f, f = dirs[x[1]].table[x[2]], Given(f)
      PROVE  /\ \A y \in TableFrames : f = dirs[y[1]].table[y[2]] => x = y
             /\ f \notin heap \union ShmFrames
             /\ \A p \in DOMAIN dirs, v \in PageNo : dirs[p].map[v] # f
  <2>1. PICK q, t : q = x[1] /\ t = x[2]
    OBVIOUS
  <2>2. q \in DOMAIN dirs /\ t \in Tables /\ f = dirs[q].table[t] /\ x = <<q, t>>
    BY <1>5, <1>6, <2>1
  <2>3. /\ \A o \in DOMAIN dirs : \A u \in Tables : f = dirs[o].table[u] => q = o /\ t = u
        /\ \A o \in DOMAIN dirs : \A v \in PageNo : dirs[o].map[v] # f
        /\ f \notin heap /\ \A s \in InUse(shm) : shm[s][2] # f
    BY <1>1, <1>6, <2>2 DEF TablesApart
  <2>4. f \notin ShmFrames
    BY <1>2, <2>3 DEF ShmFrames
  <2> QED BY <1>5, <2>2, <2>3, <2>4
<1>7. /\ \A x, y \in TableFrames :
           LET f == dirs[x[1]].table[x[2]] IN
             Given(f) /\ f = dirs[y[1]].table[y[2]] => x = y
      /\ \A x \in TableFrames :
           LET f == dirs[x[1]].table[x[2]] IN
             Given(f) =>
               /\ f \notin heap \union ShmFrames
               /\ \A p \in DOMAIN dirs, v \in PageNo : dirs[p].map[v] # f
  BY <1>6
<1>8. /\ \A p \in DOMAIN dirs, v \in PageNo : dirs[p].map[v] \notin heap
      /\ heap \intersect ShmFrames = {}
  BY <1>1, <1>2 DEF HeapApart, ShmFrames
<1> QED BY <1>4, <1>7, <1>8 DEF OneUse

LEMMA MemoryKept == SpacesInv => BreakMapped /\ ShmByKey
<1> SUFFICES ASSUME SpacesInv PROVE BreakMapped /\ ShmByKey
  OBVIOUS
<1>1. BreaksOK(kmap, dirs) /\ RegionsApart(shm)
  BY DEF SpacesInv, SpacesOK, Apart
<1>2. \A p \in DOMAIN dirs : \A a : Found(kmap, dirs, p, a) <=> Translate(p, PageOf(a)) # None
  BY DEF Found, Seen, Translate
<1>3. BreakMapped
  BY <1>1, <1>2 DEF BreaksOK, BreakOK, BreakMapped
<1>4. InUse(shm) = Slot \ FreeSlots
  BY DEF InUse, FreeSlots
<1>5. ShmByKey
  BY <1>1, <1>4 DEF RegionsApart, ShmByKey
<1> QED BY <1>3, <1>5

LEMMA RegionStep ==
  SpacesInv /\ [SpacesNext]_spaces => \A s \in Slot \ FreeSlots : shm'[s] = shm[s]
<1> SUFFICES ASSUME SpacesInv, [SpacesNext]_spaces, NEW s \in Slot \ FreeSlots
             PROVE  shm'[s] = shm[s]
  OBVIOUS
<1>1. ASSUME NEW k \in Keys, ShmGet(k) PROVE shm'[s] = shm[s]
  <2>1. PICK r, R : r = FirstFreeSlot /\ R = shm'
    OBVIOUS
  <2>2. r \in Slot /\ shm[r] = << >> /\ shm[s] # << >> /\ s \in Slot
    BY <1>1, <2>1, FirstFreeSlotIs DEF ShmGet, FreeSlots
  <2>3. R = [shm EXCEPT ![r] = <<k, FirstFree(used)>>]
    BY <1>1, <2>1 DEF ShmGet
  <2>4. DOMAIN shm = Slot
    BY DEF SpacesInv, SpacesOK, MemoryShape
  <2> QED BY <2>1, <2>2, <2>3, <2>4
<1>2. \/ shm' = shm
      \/ \E k \in Keys : ShmGet(k)
  BY DEF SpacesNext, spaces, Call, CreateUserProcess, LoadElf, Sbrk, ExpandHeap, ShmAt,
         Segment, MapOn, Loaded, BreakMoved
<1> QED BY <1>1, <1>2

LEMMA SbrkStep ==
  SpacesInv /\ [SpacesNext]_spaces =>
    \A p \in DOMAIN dirs : job.op = "sbrk" /\ job.p = p =>
      \A v \in PageNo : v * PAGE_SIZE < dirs[p].brk => Translate(p, v)' = Translate(p, v)
<1> SUFFICES ASSUME SpacesInv, [SpacesNext]_spaces, NEW p \in DOMAIN dirs,
                    job.op = "sbrk", job.p = p, NEW v \in PageNo,
                    v * PAGE_SIZE < dirs[p].brk
             PROVE  Translate(p, v)' = Translate(p, v)
  OBVIOUS
<1>1. PICK L, E : L = kmap' /\ E = dirs'
  OBVIOUS
<1>2. SUFFICES L[v] = kmap[v] /\ E[p].map[v] = dirs[p].map[v]
  BY <1>1 DEF Translate
<1>3. /\ MemoryShape(kmap, dirs, shm) /\ Apart(used, dirs, heap, shm)
      /\ JobShape(job, dirs) /\ Moving(job, kmap, dirs) /\ dirs \in Seq(Directory)
  BY DEF SpacesInv, SpacesOK, JobOK, Moving, Loading, Idle, MemoryShape
<1>4. CASE kmap' = kmap /\ dirs' = dirs
  BY <1>1, <1>4
<1>5. CASE MapOn
  <2>1. PICK w : w = PageOf(job.v)
    OBVIOUS
  <2>2. w \in PageNo /\ w # v
    <3>1. job.v \in Address
      BY <1>3, <1>5, JobBounds DEF MapOn
    <3>2. w \in PageNo
      BY <2>1, <3>1, PageInSpace
    <3>3. job.v = w * PAGE_SIZE /\ dirs[p].brk <= job.v
      BY <1>3, <2>1 DEF JobShape, Aligned, Moving
    <3>4. dirs[p].brk \in Nat /\ job.v \in Nat
      <4>1. dirs[p] \in Directory
        BY <1>3
      <4> QED BY <3>1, <4>1, DirectoryParts, TopIs DEF Address
    <3> QED BY <3>2, <3>3, <3>4
  <2>3. PICK m, r : m = [used |-> used, kmap |-> kmap, d |-> dirs[p]] /\ r = AllocAndMap(m, w)
    OBVIOUS
  <2>4. L = r.kmap /\ E = [dirs EXCEPT ![p] = r.d]
    BY <1>1, <1>5, <2>1, <2>3 DEF MapOn, Memory
  <2>5. /\ DOMAIN E = DOMAIN dirs /\ E[p].map = r.d.map /\ E[p].table = r.d.table
        /\ \A q \in DOMAIN dirs \ {p} : E[q] = dirs[q]
    BY <2>4
  <2>6. \A x \in PageNo \ {w} : r.kmap[x] = kmap[x] /\ E[p].map[x] = dirs[p].map[x]
    BY <1>3, <2>2, <2>3, <2>5, PageMapped
  <2> QED BY <2>2, <2>4, <2>6
<1>6. CASE BreakMoved
  <2>1. L = kmap /\ E = [dirs EXCEPT ![p].brk = job.brk]
    BY <1>1, <1>6 DEF BreakMoved
  <2>2. PICK d, e : d = dirs[p] /\ e = [d EXCEPT !.brk = job.brk]
    OBVIOUS
  <2>3. d = [table |-> d.table, map |-> d.map, brk |-> d.brk, start |-> d.start, elf |-> d.elf]
    BY <1>3, <2>2, DirectoryParts
  <2>4. e.map = d.map
    BY <2>2, <2>3
  <2>5. E[p] = e
    BY <2>1, <2>2
  <2> QED BY <2>1, <2>2, <2>4, <2>5
<1>7. (kmap' = kmap /\ dirs' = dirs) \/ MapOn \/ BreakMoved
  <2>1. job # Idle /\ ~ Loaded
    BY DEF Idle, Loaded
  <2> QED BY <2>1 DEF SpacesNext, spaces, Segment
<1> QED BY <1>4, <1>5, <1>6, <1>7

-----------------------------------------------------------------------------
(* Every state has frames, directories and regions as declared.            *)
THEOREM SpacesTypeCorrect == SpacesSpec => []SpacesTypeOK
BY SpacesStart, SpacesStep, SpacesTyped, PTL DEF SpacesSpec

(* A frame that pmm_alloc_frame gave out is a page of one process, a page   *)
(* table, a page of the heap or a shared region, and only one of these.     *)
THEOREM OneUseCorrect == SpacesSpec => []OneUse
BY SpacesStart, SpacesStep, OnceUsed, PTL DEF SpacesSpec

(* What a process has of memory it keeps: from the first break of a loaded  *)
(* program to its break all is mapped, sbrk maps nothing anew that lies     *)
(* below the break, and a region of shared memory keeps its key and frame.  *)
THEOREM MemoryCorrect == SpacesSpec => MemoryStays
<1>1. SpacesSpec => []SpacesInv
  BY SpacesStart, SpacesStep, PTL DEF SpacesSpec
<1>2. SpacesInv /\ [SpacesNext]_spaces => [\A s \in Slot \ FreeSlots : shm'[s] = shm[s]]_spaces
  BY RegionStep
<1>3. SpacesInv /\ [SpacesNext]_spaces =>
        [\A p \in DOMAIN dirs : job.op = "sbrk" /\ job.p = p =>
           \A v \in PageNo : v * PAGE_SIZE < dirs[p].brk =>
             Translate(p, v)' = Translate(p, v)]_spaces
  BY SbrkStep
<1> QED BY <1>1, <1>2, <1>3, MemoryKept, PTL
       DEF SpacesSpec, MemoryStays, RegionsStay, SbrkKeepsMemory
=============================================================================
