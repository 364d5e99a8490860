---------------------------- MODULE AddressSpaces ----------------------------
(***************************************************************************)
(* The frames of the physical memory manager and the page directories of   *)
(* the processes: core/memory/memory.c from init_paging on, with its       *)
(* users: the create functions of cpu/task.c, the ELF loader, the sbrk     *)
(* system call and shared memory.                                          *)
(*                                                                         *)
(* Memory is scaled down: a frame is a number, an address counts bytes of  *)
(* pages of PAGE_SIZE bytes, and a page table covers PerTable pages.  Of a  *)
(* directory only the part below 3 GB is kept.  The kernel's own tables    *)
(* are taken as init_paging means to leave them: every identity mapped     *)
(* page in place.                                                          *)
(*                                                                         *)
(* All of this runs with interrupts off, so calls do not overlap.  Those   *)
(* that map memory page by page, the loader and sbrk, are split at their   *)
(* loops; the others are one step.  When no frame is left pmm_alloc_frame  *)
(* returns 0, and whoever takes that for a frame writes over the kernel's  *)
(* directory: the model ends there.                                        *)
(***************************************************************************)
EXTENDS Naturals, Sequences, Functions, FiniteSetsExt

CONSTANTS
  FRAMES_COUNT, \* of the physical memory
  Low,          \* the frames init_paging identity maps and marks used
  PAGE_SIZE,
  PerTable,     \* entries of a page table
  Pages,        \* pages of the address space modelled
  ShmPage,      \* the page at 0x10000000
  UserStack,    \* the page at 0x80000000, create_user_process's stack
  BreakLimit,   \* the address 0xB0000000 that sbrk stops at
  ElfStack,     \* the page at 0xBFFFF000, create_elf_task's stack
  ShmSlots,     \* entries of shm_table
  Keys,         \* the keys processes share memory under
  Images,       \* the ELF files: a sequence of <<first, end>> of PT_LOAD
  Increments,   \* the arguments of sbrk
  Garbage,      \* what kmalloc may leave in an uninitialized mem_break
  MaxProcs      \* bound: processes created

PageNo == 0 .. Pages - 1
Top == Pages * PAGE_SIZE     \* the end of the address space
Address == 0 .. Top - 1

(* The first frame holds the kernel's directory.  No address that is       *)
(* rounded up to a page wraps, and every segment has some memory.          *)
ASSUME AddressSpacesAssumption ==
  /\ {FRAMES_COUNT, PAGE_SIZE, PerTable, Pages} \subseteq Nat \ {0}
  /\ Low \in 1 .. FRAMES_COUNT /\ Low <= Pages
  /\ UserStack \in PageNo /\ ElfStack \in PageNo
  /\ ShmPage \in Nat /\ ShmSlots \in Nat /\ ShmPage + ShmSlots <= Pages
  /\ BreakLimit \in 0 .. Top - PAGE_SIZE
  /\ Increments \subseteq Nat /\ Garbage \subseteq 0 .. Top - PAGE_SIZE
  /\ \A image \in Images :
       /\ image \in Seq(Address \X Address)
       /\ \A i \in DOMAIN image :
            image[i][1] < image[i][2] /\ image[i][2] <= Top - PAGE_SIZE

TableOf(v) == v \div PerTable
PageOf(addr) == addr \div PAGE_SIZE
None == FRAMES_COUNT      \* no entry, no frame
Slot == 0 .. ShmSlots - 1

(* The page tables that hold the identity map: create_process_directory    *)
(* copies the kernel's pointers to them, so all directories share them.    *)
KernelTables == {TableOf(v) : v \in 0 .. Low - 1}
Shared(v) == TableOf(v) \in KernelTables
Tables == {TableOf(v) : v \in PageNo}

VARIABLES
  used,     \* the bits set in frames[]
  kmap,     \* the entries of the shared page tables
  heap,     \* frames that expand_heap has taken
  dirs,     \* the processes' directories, in order of creation
  shm,      \* shm_table: the frame and key of each region in use
  job       \* the loop a call is in, or Idle

spaces == <<used, kmap, heap, dirs, shm, job>>

(* A directory: table is the frame of each of its own page tables, map its *)
(* entries, brk mem_break; the rest is history: the break it began with    *)
(* and whether the ELF loader built it.                                    *)
Directory ==
  [table : [Tables -> 0 .. None], map : [PageNo -> 0 .. None],
   brk : Address, start : Address, elf : BOOLEAN]

(* Process p's memory from v up to end is being mapped; the segments left  *)
(* to load, and the break when all is done.                                *)
Idle == [op |-> "none", p |-> 0, v |-> 0, end |-> 0, left |-> << >>, brk |-> 0]

SpacesTypeOK ==
  /\ used \subseteq 0 .. FRAMES_COUNT - 1
  /\ kmap \in [PageNo -> 0 .. None]
  /\ heap \subseteq used
  /\ dirs \in Seq(Directory)
  /\ shm \in [Slot -> {<<>>} \union (Keys \X (0 .. None))]
  /\ \/ job = Idle
     \/ /\ job.op \in {"elf", "sbrk"} /\ job.p \in DOMAIN dirs
        /\ job.v \in 0 .. Top /\ job.end \in Address /\ job.brk \in Address

-----------------------------------------------------------------------------
(* init_paging, once the identity map is made. *)
SpacesInit ==
  /\ used = 0 .. Low - 1
  /\ kmap = [v \in PageNo |-> IF v < Low THEN v ELSE None]
  /\ heap = {}
  /\ dirs = << >>
  /\ shm = [s \in Slot |-> << >>]
  /\ job = Idle

(* pmm_alloc_frame: the lowest free frame, marked; or 0, nothing marked.   *)
FirstFree(u) == IF u = 0 .. FRAMES_COUNT - 1 THEN 0 ELSE Min((0 .. FRAMES_COUNT - 1) \ u)
Forgotten(u) == u
Marked(u) == IF u = 0 .. FRAMES_COUNT - 1 THEN u ELSE u \union {FirstFree(u)}

(* map_page_in_dir on directory d of memory m = [used, kmap, d]: a missing *)
(* page table gets a frame of its own first.                               *)
MapPage(m, v, f) ==
  LET t == TableOf(v)
      d == m.d
  IN  IF Shared(v)
        THEN [m EXCEPT !.kmap[v] = f]
      ELSE IF d.table[t] # None
        THEN [m EXCEPT !.d.map[v] = f]
      ELSE [m EXCEPT !.used = Marked(@),
                     !.d.table[t] = FirstFree(m.used),
                     !.d.map[v] = f]

(* pmm_alloc_frame, then map_page_in_dir, as all users but shm_at do; no   *)
(* caller looks whether the frame is 0.                                     *)
AllocAndMap(m, v) == MapPage([m EXCEPT !.used = Marked(@)], v, FirstFree(m.used))

RoundedUp(addr) == (((addr + PAGE_SIZE - 1) % Top) \div PAGE_SIZE) * PAGE_SIZE

(* The loader begins a segment at the page of its first byte, & 0xFFFFF000, *)
(* sbrk at the first page after the break, (old_break + 4095) & 0xFFFFF000. *)
RoundedDown(old) == (old \div PAGE_SIZE) * PAGE_SIZE
FirstNewPage(old) == RoundedUp(old)

-----------------------------------------------------------------------------
(* create_process_directory, as seen below 3 GB. *)
EmptyDirectory ==
  [table |-> [t \in Tables |-> None], map |-> [v \in PageNo |-> None],
   brk |-> 0, start |-> 0, elf |-> FALSE]

Memory(d) == [used |-> used, kmap |-> kmap, d |-> d]

(* create_user_process: mem_break is never assigned. *)
CreateUserProcess ==
  /\ Len(dirs) < MaxProcs
  /\ \E g \in Garbage :
       LET m == AllocAndMap(Memory([EmptyDirectory EXCEPT !.brk = g]), UserStack) IN
         /\ used' = m.used
         /\ kmap' = m.kmap
         /\ dirs' = Append(dirs, m.d)
  /\ UNCHANGED <<heap, shm, job>>

(* elf_load_and_run of a readable file with the right magic.               *)
LoadElf ==
  /\ Len(dirs) < MaxProcs
  /\ \E image \in Images :
       job' = [op |-> "elf", p |-> Len(dirs) + 1, v |-> 0, end |-> 0,
               left |-> image, brk |-> 0]
  /\ dirs' = Append(dirs, [EmptyDirectory EXCEPT !.elf = TRUE])
  /\ UNCHANGED <<used, kmap, heap, shm>>

(* One PT_LOAD segment, from the page of its first byte; brk is max_vaddr, *)
(* the highest end so far.                                                 *)
Segment ==
  /\ job.v >= job.end /\ job.left # << >>
  /\ LET seg == Head(job.left)
     IN  job' = [op |-> "elf", p |-> job.p, v |-> RoundedDown(seg[1]), end |-> seg[2],
                 left |-> Tail(job.left),
                 brk |-> IF seg[2] > job.brk THEN seg[2] ELSE job.brk]
  /\ UNCHANGED <<used, kmap, heap, dirs, shm>>

(* One round of the loop of the loader or of sbrk: a frame for a page. *)
MapOn ==
  /\ job.v < job.end
  /\ LET m == AllocAndMap(Memory(dirs[job.p]), PageOf(job.v)) IN
       /\ used' = m.used
       /\ kmap' = m.kmap
       /\ dirs' = [dirs EXCEPT ![job.p] = m.d]
  /\ job' = [job EXCEPT !.v = @ + PAGE_SIZE]
  /\ UNCHANGED <<heap, shm>>

(* create_elf_task: a stack, and the break at the highest end. *)
Loaded ==
  /\ job.op = "elf" /\ job.v >= job.end /\ job.left = << >>
  /\ LET m == AllocAndMap(Memory(dirs[job.p]), ElfStack) IN
       /\ used' = m.used
       /\ kmap' = m.kmap
       /\ dirs' = [dirs EXCEPT ![job.p] = [m.d EXCEPT !.brk = job.brk, !.start = job.brk]]
  /\ job' = Idle
  /\ UNCHANGED <<heap, shm>>

(* The SYS_SBRK case for process p: refused beyond the limit; a smaller    *)
(* break unmaps nothing.  Addresses wrap at the end of the space.          *)
Sbrk(p) ==
  /\ \E inc \in Increments :
       LET old == dirs[p].brk
           new == (old + inc) % Top
       IN
         /\ new < BreakLimit
         /\ job' = [op |-> "sbrk", p |-> p, v |-> FirstNewPage(old), end |-> new,
                    left |-> << >>, brk |-> new]
  /\ UNCHANGED <<used, kmap, heap, dirs, shm>>

BreakMoved ==
  /\ job.op = "sbrk" /\ job.v >= job.end
  /\ dirs' = [dirs EXCEPT ![job.p].brk = job.brk]
  /\ job' = Idle
  /\ UNCHANGED <<used, kmap, heap, shm>>

(* expand_heap takes a frame, for whatever kmalloc; it does check for 0. *)
ExpandHeap ==
  /\ used # 0 .. FRAMES_COUNT - 1
  /\ used' = Marked(used)
  /\ heap' = heap \union {FirstFree(used)}
  /\ UNCHANGED <<kmap, dirs, shm, job>>

(* shm_get: the region of the key, or else the first free slot. *)
Attached(k) == \E s \in Slot : shm[s] # << >> /\ shm[s][1] = k
IsNew(k) == ~Attached(k)
FreeSlots == {s \in Slot : shm[s] = << >>}
FirstFreeSlot == Min(FreeSlots)

ShmGet(k) ==
  /\ IsNew(k)
  /\ FreeSlots # {}
  /\ shm' = [shm EXCEPT ![FirstFreeSlot] = <<k, FirstFree(used)>>]
  /\ used' = Marked(used)
  /\ UNCHANGED <<kmap, heap, dirs, job>>

(* shm_at: the region's frame at the address of its slot. *)
ShmAt(p, s) ==
  /\ shm[s] # << >>
  /\ LET m == MapPage(Memory(dirs[p]), ShmPage + s, shm[s][2]) IN
       /\ used' = m.used
       /\ kmap' = m.kmap
       /\ dirs' = [dirs EXCEPT ![p] = m.d]
  /\ UNCHANGED <<heap, shm, job>>

(* "if (frame == (uint32_t)-1) return 0; // OOM" (pmm_alloc_frame): 0 is   *)
(* not a frame, so no process or page table has it, nor a shared region.   *)
NoFrameZero ==
  /\ \A p \in DOMAIN dirs :
       0 \notin Range(dirs[p].map) \union Range(dirs[p].table)
  /\ \A s \in Slot \ FreeSlots : shm[s][2] # 0

Call ==
  \/ CreateUserProcess
  \/ LoadElf
  \/ \E p \in DOMAIN dirs : Sbrk(p)
  \/ ExpandHeap
  \/ \E k \in Keys : ShmGet(k)
  \/ \E p \in DOMAIN dirs, s \in Slot : ShmAt(p, s)

SpacesNext ==
  /\ NoFrameZero
  /\ \/ job = Idle /\ Call
     \/ job # Idle /\ (Segment \/ MapOn \/ Loaded \/ BreakMoved)

SpacesSpec == SpacesInit /\ [][SpacesNext]_spaces
-----------------------------------------------------------------------------
(***************************************************************************)
(* Properties.                                                             *)
(***************************************************************************)

(* Where the hardware finds page v of process p. *)
Translate(p, v) == IF Shared(v) THEN kmap[v] ELSE dirs[p].map[v]

ShmFrames == {shm[s][2] : s \in Slot \ FreeSlots}
TableFrames == {x \in (DOMAIN dirs) \X Tables : dirs[x[1]].table[x[2]] # None}

(* While frames last, a frame that the PMM gave out has one use: a page of *)
(* one process, a page table, a heap page or a shared region.  (Frame 0    *)
(* stands for "out of memory".)                                            *)
Given(f) == f \in Low .. FRAMES_COUNT - 1

OneUse ==
  /\ \A p, q \in DOMAIN dirs : \A v, w \in PageNo :
       Given(dirs[p].map[v]) /\ dirs[p].map[v] = dirs[q].map[w] =>
         <<p, v>> = <<q, w>> \/ (dirs[p].map[v] \in ShmFrames /\ v = w)
  /\ \A x, y \in TableFrames :
       LET f == dirs[x[1]].table[x[2]] IN
         Given(f) /\ f = dirs[y[1]].table[y[2]] => x = y
  /\ \A x \in TableFrames :
       LET f == dirs[x[1]].table[x[2]] IN
         Given(f) =>
           /\ f \notin heap \union ShmFrames
           /\ \A p \in DOMAIN dirs, v \in PageNo : dirs[p].map[v] # f
  /\ \A p \in DOMAIN dirs, v \in PageNo : dirs[p].map[v] \notin heap
  /\ heap \intersect ShmFrames = {}

(* All memory from the first break of a loaded program to its break is     *)
(* mapped: sbrk starts at the right page after any growing and shrinking.  *)
BreakMapped ==
  \A p \in DOMAIN dirs : dirs[p].elf =>
    \A a \in dirs[p].start .. dirs[p].brk - 1 : Translate(p, PageOf(a)) # None

(* Growing the break leaves the memory below it alone, though the break    *)
(* may lie inside a page: sbrk maps no page anew that is in use.           *)
SbrkKeepsMemory ==
  [][\A p \in DOMAIN dirs : job.op = "sbrk" /\ job.p = p =>
       \A v \in PageNo : v * PAGE_SIZE < dirs[p].brk =>
         Translate(p, v)' = Translate(p, v)]_spaces

(* A key names one region for ever, and the two processes that attach it   *)
(* see the same frame: regions in use differ in key, and while memory      *)
(* lasts in frame.                                                         *)
ShmByKey ==
  \A s, r \in Slot \ FreeSlots : s # r =>
    /\ shm[s][1] # shm[r][1]
    /\ Given(shm[s][2]) => shm[s][2] # shm[r][2]

RegionsStay == [][\A s \in Slot \ FreeSlots : shm'[s] = shm[s]]_spaces

(* Memory that a process has stays the memory it has: all below its break  *)
(* is mapped, growing maps nothing anew, and a shared region keeps its key *)
(* and its frame (sbrk, shm_get, shm_at).                                  *)
MemoryStays == [](BreakMapped /\ ShmByKey) /\ RegionsStay /\ SbrkKeepsMemory
=============================================================================
