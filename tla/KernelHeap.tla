----------------------------- MODULE KernelHeap -----------------------------
(***************************************************************************)
(* The kernel heap of core/memory/memory.c: kmalloc, kmalloc_aligned,      *)
(* kfree and expand_heap over a linked list of blocks, each a header       *)
(* followed by its payload.                                                *)
(*                                                                         *)
(* Every caller runs with interrupts off (boot before sti, an interrupt or *)
(* a system call; after sti kernel_main only halts), so calls do not       *)
(* overlap.  A call is split where its loops are: pc is the loop the call  *)
(* is in, curr and prev its cursors.                                       *)
(***************************************************************************)
EXTENDS Naturals

CONSTANTS
  Start,    \* HEAP_START_VIRT
  Header,   \* sizeof(heap_block_t)
  Align,    \* 4: the rounding of requests and the least payload split off
  Page,     \* PAGE_SIZE
  Frames,   \* frames the PMM has left when the heap is first used
  Sizes     \* bound: the sizes that callers ask for

Null == 0

RoundUp(n, a) == IF n % a # 0 THEN n + (a - (n % a)) ELSE n

(* The bytes expand_heap maps for a request of s bytes. *)
Needed(s) == RoundUp(s + Header, Page)

(* The first request finds the PMM full of frames: its expansion succeeds. *)
ASSUME HeapAssumption ==
  /\ Start \in Nat /\ Header \in Nat \ {0} /\ Align \in Nat \ {0}
  /\ Page \in Nat \ {0} /\ Frames \in Nat /\ Sizes \subseteq Nat \ {0}
  /\ Start % Page = 0 /\ Start # Null
  /\ \A n \in Sizes : Needed(RoundUp(n + Page, Align)) \div Page <= Frames

VARIABLES
  blocks,     \* the headers on the list that begins at heap_start
  size,       \* heap_block_t.size, the payload's
  is_free,    \* heap_block_t.is_free
  nxt,        \* heap_block_t.next
  brk,        \* heap_curr_break
  frames,     \* frames the PMM has left
  held,       \* history: the address and size of every allocation not freed
  pc,         \* "idle", or the loop of the call in progress
  want,       \* the size the caller asked for
  aligned,    \* the call is kmalloc_aligned(want, 4096)
  req,        \* kmalloc's size, after rounding
  curr, prev  \* the cursors of the loops

list == <<blocks, size, is_free, nxt>>
call == <<want, aligned, req>>

vars == <<blocks, size, is_free, nxt, brk, frames, held, pc, want, aligned,
          req, curr, prev>>

Payload(b) == b + Header
End(b) == Payload(b) + size[b]

TypeOK ==
  /\ blocks \subseteq Nat
  /\ size \in [blocks -> Nat]
  /\ is_free \in [blocks -> BOOLEAN]
  /\ nxt \in [blocks -> Nat]
  /\ brk \in Nat /\ frames \in Nat
  /\ held \subseteq Nat \X Nat
  /\ pc \in {"idle", "scan", "expand", "coalesce"}
  /\ want \in Nat /\ aligned \in BOOLEAN /\ req \in Nat
  /\ curr \in Nat /\ prev \in Nat

(* A function with one more argument, or another value at an old one. *)
With(f, x, v) == [y \in DOMAIN f \union {x} |-> IF y = x THEN v ELSE f[y]]
Without(f, x) == [y \in DOMAIN f \ {x} |-> f[y]]

-----------------------------------------------------------------------------
Init ==
  /\ blocks = {}
  /\ size = [b \in {} |-> 0]
  /\ is_free = [b \in {} |-> FALSE]
  /\ nxt = [b \in {} |-> Null]
  /\ brk = Start /\ frames = Frames
  /\ held = {}
  /\ pc = "idle"
  /\ want = 0 /\ aligned = FALSE /\ req = 0
  /\ curr = Null /\ prev = Null

(* The conditions and computations of the code, each preceded by the slips *)
(* that its properties must exclude.                                       *)

(* "if (curr->is_free && curr->size >= size)" *)
Fits(b) == is_free[b] /\ size[b] >= req

(* "if (curr->size >= size + sizeof(heap_block_t) + 4)" *)
NoRoomForHeader(b) == size[b] >= req
Splittable(b) == size[b] >= req + Header + Align

(* next_block->size = curr->size - size - sizeof(heap_block_t) *)
Rest(b) == size[b] - req - Header

(* next_block->is_free = 1 *)
RestIsFree == TRUE

(* curr->size += curr->next->size + sizeof(heap_block_t) *)
Merged(b, c) == size[b] + size[c] + Header

(* kfree's test for two free neighbours, and where its loop goes on. *)
Mergeable(b) == is_free[b] /\ is_free[nxt[b]]
MoveOn(b) == IF nxt[nxt[b]] = Null THEN b ELSE nxt[nxt[b]]
StayAfterMerge(b) == b

(* "curr = curr->next" of kfree's loop, taken when nothing was merged. *)
NotMoved(b) == b
Onward(b) == nxt[b]

(* block->next = 0 in expand_heap *)
NoNext == Null

(* The size kmalloc is called with by kmalloc_aligned. *)
JustTheSize(n) == n
Padded(n) == n + Page

(* expand_heap: as many pages as the request and a header take. *)
Mapped(s) == Needed(s)

-----------------------------------------------------------------------------
(* kmalloc(n), or kmalloc_aligned(n, 4096); n = 0 returns without effect.   *)
(* The first call expands the empty heap before it searches.               *)
Malloc(n, al) ==
  /\ pc = "idle"
  /\ want' = n
  /\ aligned' = al
  /\ req' = RoundUp(IF al THEN Padded(n) ELSE n, Align)
  /\ pc' = IF brk = Start THEN "expand" ELSE "scan"
  /\ curr' = Start /\ prev' = Null
  /\ UNCHANGED <<list, brk, frames, held>>

(* A call returns: its arguments and cursors are no more. *)
Return ==
  /\ pc' = "idle"
  /\ want' = 0 /\ aligned' = FALSE /\ req' = 0
  /\ curr' = Null /\ prev' = Null

(* What the caller gets: the payload, moved up to a page boundary. *)
Pointer(b) == IF aligned THEN RoundUp(Payload(b), Page) ELSE Payload(b)

(* The end of a successful call. *)
ReturnBlock(b) ==
  /\ held' = held \union {<<Pointer(b), want>>}
  /\ Return
  /\ UNCHANGED <<brk, frames>>

(* The search finds a block big enough to leave another one behind. *)
TakePart ==
  /\ pc = "scan" /\ curr # Null
  /\ Fits(curr) /\ Splittable(curr)
  /\ LET b == Payload(curr) + req IN
       /\ blocks' = blocks \union {b}
       /\ size' = With([size EXCEPT ![curr] = req], b, Rest(curr))
       /\ is_free' = With([is_free EXCEPT ![curr] = FALSE], b, RestIsFree)
       /\ nxt' = With([nxt EXCEPT ![curr] = b], b, nxt[curr])
  /\ ReturnBlock(curr)

(* The search finds a block that is used up whole. *)
TakeWhole ==
  /\ pc = "scan" /\ curr # Null
  /\ Fits(curr) /\ ~Splittable(curr)
  /\ is_free' = [is_free EXCEPT ![curr] = FALSE]
  /\ UNCHANGED <<blocks, size, nxt>>
  /\ ReturnBlock(curr)

ScanOn ==
  /\ pc = "scan" /\ curr # Null
  /\ ~Fits(curr)
  /\ prev' = curr
  /\ curr' = nxt[curr]
  /\ pc' = IF nxt[curr] = Null THEN "expand" ELSE "scan"
  /\ UNCHANGED <<list, brk, frames, held, call>>

(* expand_heap with enough frames: a free block of whole pages at the      *)
(* break, linked after the last one; then kmalloc starts again.            *)
Expand ==
  /\ pc = "expand"
  /\ Mapped(req) \div Page <= frames
  /\ frames' = frames - Mapped(req) \div Page
  /\ blocks' = blocks \union {brk}
  /\ size' = With(size, brk, Mapped(req) - Header)
  /\ is_free' = With(is_free, brk, TRUE)
  /\ nxt' = With(IF prev # Null THEN [nxt EXCEPT ![prev] = brk] ELSE nxt, brk, NoNext)
  /\ brk' = brk + Mapped(req)
  /\ curr' = Start /\ prev' = Null
  /\ pc' = "scan"
  /\ UNCHANGED <<held, call>>

(* expand_heap runs out of frames: those it has already taken stay mapped  *)
(* behind the unmoved break and are lost; kmalloc returns 0.               *)
ExpandFails ==
  /\ pc = "expand"
  /\ Mapped(req) \div Page > frames
  /\ frames' = 0
  /\ Return
  /\ UNCHANGED <<list, brk, held>>

-----------------------------------------------------------------------------
(* kfree of a pointer that kmalloc returned and that was not freed before:  *)
(* the contract, and what the callers do.  kmalloc_aligned's pages are      *)
(* never freed.                                                             *)
Free(b) ==
  /\ pc = "idle"
  /\ b \in blocks
  /\ \E h \in held :
       /\ h[1] = Payload(b)
       /\ held' = held \ {h}
  /\ is_free' = [is_free EXCEPT ![b] = TRUE]
  /\ curr' = Start
  /\ pc' = "coalesce"
  /\ UNCHANGED <<blocks, size, nxt, brk, frames, call, prev>>

(* One round of the coalescing loop over neighbours that are both free. *)
Coalesce ==
  /\ pc = "coalesce"
  /\ nxt[curr] # Null
  /\ Mergeable(curr)
  /\ LET c == nxt[curr] IN
       /\ blocks' = blocks \ {c}
       /\ size' = Without([size EXCEPT ![curr] = Merged(curr, c)], c)
       /\ is_free' = Without(is_free, c)
       /\ nxt' = Without([nxt EXCEPT ![curr] = nxt[c]], c)
  /\ curr' = StayAfterMerge(curr)
  /\ UNCHANGED <<brk, frames, held, pc, call, prev>>

CoalesceOn ==
  /\ pc = "coalesce"
  /\ nxt[curr] # Null
  /\ ~Mergeable(curr)
  /\ curr' = Onward(curr)
  /\ UNCHANGED <<list, brk, frames, held, pc, call, prev>>

FreeReturns ==
  /\ pc = "coalesce"
  /\ nxt[curr] = Null
  /\ Return
  /\ UNCHANGED <<list, brk, frames, held>>

Step ==
  \/ TakePart
  \/ TakeWhole
  \/ ScanOn
  \/ Expand
  \/ ExpandFails
  \/ Coalesce
  \/ CoalesceOn
  \/ FreeReturns

Next ==
  \/ \E n \in Sizes, al \in BOOLEAN : Malloc(n, al)
  \/ \E b \in blocks : Free(b)
  \/ Step

Spec == Init /\ [][Next]_vars

(* A call runs with interrupts off: nothing delays its next step for ever. *)
FairSpec == Spec /\ WF_vars(Step)
-----------------------------------------------------------------------------
(***************************************************************************)
(* Properties.                                                             *)
(***************************************************************************)

(* The blocks on the list tile the heap from its start to the break, in     *)
(* address order: no byte belongs to two blocks or to none, and the list    *)
(* neither loses a block nor runs past the last one, at every moment of     *)
(* every call (a split, an expansion and a merge rewrite three fields       *)
(* each).                                                                   *)
Tiles(B, sz, nx, lo, hi) ==
  /\ B # {} => lo \in B
  /\ B = {} => hi = lo
  /\ \A b \in B :
       /\ lo <= b /\ Payload(b) + sz[b] <= hi
       /\ nx[b] = IF Payload(b) + sz[b] = hi THEN Null ELSE Payload(b) + sz[b]
       /\ nx[b] # Null => nx[b] \in B
  /\ \A a, b \in B : a < b => Payload(a) + sz[a] <= b

Tiled == Tiles(blocks, size, nxt, Start, brk)

(* Memory handed out and not given back lies inside the payload of a block  *)
(* in use, and no two such pieces share a block: what one caller holds is   *)
(* neither given to another nor overlaid by a header.                       *)
Inside(h, b) ==
  /\ ~is_free[b]
  /\ Payload(b) <= h[1] /\ h[1] + h[2] <= End(b)

HeldMemoryIsPrivate ==
  \A h \in held : \E b \in blocks :
     /\ Inside(h, b)
     /\ \A g \in held \ {h} : ~Inside(g, b)

(* Every block marked in use is held by somebody: a call that returns       *)
(* leaves no block behind that nobody can free.                             *)
NothingLost == \A b \in blocks : ~is_free[b] => \E h \in held : Inside(h, b)

(* The heap takes new pages, or gives up, only if no free block on the      *)
(* whole list would do: the search skips none.                              *)
ExpandsOnlyWhenFull ==
  pc = "expand" => \A b \in blocks : ~(is_free[b] /\ size[b] >= req)

(* "uclu birlesme icin" (kfree): two neighbours on the list are not both    *)
(* free when no call is going on, whatever was split, merged and appended   *)
(* before, nor when a search has failed.  So the heap never grows, or gives *)
(* up, while free blocks that lie side by side would do together.           *)
NoFreeNeighbours ==
  \A b \in blocks : ~(is_free[b] /\ nxt[b] # Null /\ is_free[nxt[b]])

FreeBlocksApart == pc \in {"idle", "expand"} => NoFreeNeighbours

(* The list is right as a whole: it tiles the heap, so that a search of it  *)
(* that comes to its end has seen every free byte, no search skips a block  *)
(* that fits, and free memory is never in smaller pieces than it need be.   *)
HeapSound == Tiled /\ ExpandsOnlyWhenFull /\ FreeBlocksApart

(* What callers hold and what the list marks in use are the same memory:    *)
(* nothing held is shared, nothing in use is without a holder.              *)
HeldMemory == HeldMemoryIsPrivate /\ NothingLost

(* Every call returns: in particular the restart of kmalloc after an        *)
(* expansion finds the block it has just added.                             *)
CallsReturn == pc # "idle" ~> pc = "idle"
=============================================================================
