------------------------------- MODULE FlatFs -------------------------------
(***************************************************************************)
(* The pseudo-FAT file system of fs/fs.c on the disk that drivers/storage/ *)
(* ata.c writes: one directory sector, and files as runs of sectors.       *)
(*                                                                         *)
(* Everything is read from the disk again in every call, so the disk is    *)
(* the whole state.  A write first puts the entry in the directory, then   *)
(* the data sector by sector; the power may go between any two sectors.    *)
(*                                                                         *)
(* A block of a file is a pair of the data it belongs to and its number.   *)
(***************************************************************************)
EXTENDS Naturals, Sequences, FiniteSets, FiniteSetsExt

CONSTANTS
  Names,        \* the names callers use
  Stored,       \* the 8.3 form fs_write_bin stores, as fs_read_bin spells it
  Fold,         \* two names have the same Fold iff strcasecmp says 0
  Data,         \* the contents callers write
  Greeting,     \* the content of the file the shell's format makes
  GreetingName, \* SELAM.TXT
  Sizes,        \* the sizes callers write, in bytes
  SectorSize,   \* 512
  Entries,      \* directory entries in a sector
  Sectors,      \* data sectors of the disk, from sector 200 on
  CountLimit,   \* sector_count is a uint8_t: 256
  ClusterLimit  \* first_cluster_lo is a uint16_t: 65536

ASSUME FsAssumption ==
  /\ Greeting \notin Data /\ <<Greeting, Sectors>> \notin Data \union {Greeting}
  /\ {SectorSize, Entries, Sectors, CountLimit, ClusterLimit} \subseteq Nat \ {0}
  /\ Sizes \subseteq Nat
  /\ {GreetingName} \union Names \subseteq DOMAIN Fold
  /\ DOMAIN Stored = Names
  /\ \A n \in Names : Stored[n] \in DOMAIN Fold

Free == [size |-> 0]          \* an entry whose name begins with 0
Blank == <<Greeting, Sectors>> \* a sector never written
Idle == [entry |-> 0]

Entry == 1 .. Entries
Contents == Data \union {Greeting}

VARIABLES
  dir,      \* the directory sector
  disk,     \* the data sectors
  op,       \* the write that is going on: what it still has to do
  saved     \* history: the content of each entry whose write has ended

fsvars == <<dir, disk, op, saved>>

InUse == {i \in Entry : dir[i] # Free}
SectorCount(size) == (size + SectorSize - 1) \div SectorSize

FsTypeOK ==
  /\ \A i \in InUse : /\ dir[i].name \in DOMAIN Fold
                      /\ dir[i].size \in Nat
                      /\ dir[i].start \in 0 .. ClusterLimit - 1
  /\ disk \in [0 .. Sectors - 1 -> Contents \X (0 .. Sectors)]
  /\ op = Idle \/ (op.entry \in InUse /\ op.next < op.count)
  /\ saved \in [InUse -> Contents \union {Blank}]

FsInit ==
  /\ dir = [i \in Entry |-> Free]
  /\ disk = [s \in 0 .. Sectors - 1 |-> Blank]
  /\ op = Idle
  /\ saved = << >>

-----------------------------------------------------------------------------
(* The scan of fs_write_bin: the first free entry, and the end of the last *)
(* file, in which an empty file counts as one sector.                      *)
FirstFree == Min(Entry \ InUse)
Occupied(size) == IF size = 0 THEN 1 ELSE SectorCount(size)

(* The disk is as large as a directory full of the longest files, each with *)
(* the sector that is left free before it, and no file has a sector count   *)
(* that is cut: beyond this neither fs.c nor ata.c checks anything.         *)
ASSUME FilesFit ==
  \E most \in 1 .. CountLimit - 1 :
    /\ \A size \in Sizes : Occupied(size) <= most
    /\ Entries * (most + 1) <= Sectors
    /\ Entries * (most + 1) <= ClusterLimit

LastStart(files) == Max({0} \union {dir[i].start : i \in files})
EndOf(files) == Max({0} \union {dir[i].start + Occupied(dir[i].size) : i \in files})

(* Begins the write of an entry; without sectors it ends at once.          *)
Begin(i, d, count) ==
  IF count = 0
    THEN op' = Idle /\ saved' = [j \in DOMAIN saved \union {i} |->
                                   IF j = i THEN d ELSE saved[j]]
    ELSE /\ op' = [entry |-> i, data |-> d, next |-> 0, count |-> count]
         /\ saved' = [j \in DOMAIN saved \union {i} |->
                        IF j = i THEN Blank ELSE saved[j]]

(* fs_write_bin, to the moment the directory is on the disk.  A full       *)
(* directory is returned without writing.                                  *)
WriteFile(n, d, size) ==
  /\ op = Idle
  /\ InUse # Entry
  /\ LET start == (EndOf(InUse) + 1) % ClusterLimit IN
       dir' = [dir EXCEPT ![FirstFree] =
                 [name |-> Stored[n], size |-> size, start |-> start]]
  /\ Begin(FirstFree, d, SectorCount(size) % CountLimit)
  /\ UNCHANGED disk

(* One sector of ata_write_sectors; the last one ends the call.            *)
Target == dir[op.entry].start + op.next
OneTooMany == op.next < op.count
More == op.next + 1 < op.count

WriteSector ==
  /\ op # Idle
  /\ disk' = [disk EXCEPT ![Target] = <<op.data, op.next>>]
  /\ IF More
       THEN op' = [op EXCEPT !.next = @ + 1] /\ UNCHANGED saved
       ELSE op' = Idle /\ saved' = [saved EXCEPT ![op.entry] = op.data]
  /\ UNCHANGED dir

(* The shell's format: a directory with one file in sector 1, of 18 bytes, *)
(* which is a part of a sector.                                            *)
Format ==
  /\ op = Idle
  /\ dir' = [i \in Entry |-> IF i = 1 THEN [name |-> GreetingName, size |-> 1, start |-> 1]
                                      ELSE Free]
  /\ op' = [entry |-> 1, data |-> Greeting, next |-> 0, count |-> 1]
  /\ saved' = [i \in {1} |-> Blank]
  /\ UNCHANGED disk

(* The power goes: whatever was being written stays as it is. *)
Crash ==
  /\ op # Idle
  /\ op' = Idle
  /\ UNCHANGED <<dir, disk, saved>>

FsNext ==
  \/ \E n \in Names, d \in Data, size \in Sizes : WriteFile(n, d, size)
  \/ WriteSector
  \/ Format
  \/ Crash

FsSpec == FsInit /\ [][FsNext]_fsvars

(* fs_read_bin: the first entry of that name before the first free one,    *)
(* and the bytes of it that ata_read_sectors has read.                     *)
Named(n) ==
  {i \in InUse : Fold[dir[i].name] = Fold[n] /\ \A j \in 1 .. i : dir[j] # Free}
Find(n) == IF Named(n) = {} THEN 0 ELSE Min(Named(n))

Block(i, k) == disk[dir[i].start + k]
Bytes(i) == [b \in 1 .. dir[i].size |-> <<Block(i, (b - 1) \div SectorSize), b>>]
BytesOf(d, size) == [b \in 1 .. size |-> <<<<d, (b - 1) \div SectorSize>>, b>>]
-----------------------------------------------------------------------------
(* The sectors of two files never overlap, whatever their sizes and        *)
(* whether or not their data was written before the power went.            *)
Extent(i) == dir[i].start .. dir[i].start + SectorCount(dir[i].size) - 1

ExtentsDisjoint ==
  \A i, j \in InUse : i # j => Extent(i) \intersect Extent(j) = {}

(* A file whose write has ended keeps its bytes: no later write, and no    *)
(* crash in the middle of one, changes them.                               *)
SavedStays ==
  \A i \in InUse : saved[i] # Blank => Bytes(i) = BytesOf(saved[i], dir[i].size)

(* Every file is found: a search that stops at the first free entry misses *)
(* none, so reading a name in use gives the first file of that name.       *)
EveryFileFound ==
  \A i \in InUse : Find(dir[i].name) # 0 /\ Find(dir[i].name) <= i

(* "Sifre123" written to PASS.TXT is what is read back (tests/fs_test.c):  *)
(* a name gives what was last written to it.                               *)
Newest(i) == \A j \in InUse : j > i => Fold[dir[j].name] # Fold[dir[i].name]

ReadBack ==
  \A i \in InUse : saved[i] # Blank /\ Newest(i) =>
    Bytes(Find(dir[i].name)) = BytesOf(saved[i], dir[i].size)
=============================================================================
