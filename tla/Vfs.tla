--------------------------------- MODULE Vfs ---------------------------------
(***************************************************************************)
(* The open file table of fs/vfs.c above the file system of fs/fs.c: open, *)
(* read, write and close by several programs, while the shell formats the  *)
(* disk and the power may go.  A call runs with interrupts off, so none    *)
(* begins in the middle of another.                                        *)
(*                                                                         *)
(* ext2_mount always fails (its block group table is never allocated), so  *)
(* ext2_main_fs.mounted is 0 and every open falls back to fs.c.            *)
(***************************************************************************)
EXTENDS FlatFs, Integers

CONSTANTS
  Fds,        \* 0 .. MAX_OPEN_FILES - 1
  Node,       \* the addresses kmalloc has for a vfs_node_t
  Implants,   \* what kmalloc may leave in impl_data: null or not
  ReadSizes   \* the sizes callers read

ASSUME VfsAssumption ==
  /\ Fds \subseteq Nat /\ ReadSizes \subseteq Nat
  /\ Implants \subseteq {"null", "garbage"}

Closed == [name |-> ""]

VARIABLES
  table,    \* file_table: name and impl_data are those of the node
  nodes,    \* the nodes that are allocated
  seen      \* history: what each descriptor has read since its open, or since
            \* the last format, and from which offset on

vfsvars == <<dir, disk, op, saved, table, nodes, seen>>

Nothing(offset) == [from |-> offset, bytes |-> << >>]
OpenFds == {fd \in Fds : table[fd] # Closed}

VfsTypeOK ==
  /\ FsTypeOK
  /\ \A fd \in OpenFds : /\ table[fd].name \in Names
                         /\ table[fd].node \in Node
                         /\ table[fd].offset \in Nat
                         /\ table[fd].impl \in Implants
  /\ nodes \subseteq Node

VfsInit ==
  /\ FsInit
  /\ table = [fd \in Fds |-> Closed]
  /\ nodes = {}
  /\ seen = [fd \in Fds |-> Nothing(0)]

-----------------------------------------------------------------------------
(* vfs_open: the first free descriptor, whether or not the file exists.    *)
FirstFreeFd == Min(Fds \ OpenFds)

Open(n) ==
  /\ OpenFds # Fds
  /\ \E node \in Node \ nodes, impl \in Implants :
       /\ table' = [table EXCEPT ![FirstFreeFd] =
                      [name |-> n, node |-> node, offset |-> 0, impl |-> impl]]
       /\ nodes' = nodes \union {node}
       /\ seen' = [seen EXCEPT ![FirstFreeFd] = Nothing(0)]
  /\ UNCHANGED fsvars

(* vfs_read of an open file that exists: at most what is left of it.       *)
AllAsked(size, left) == size
ToRead(size, left) == IF size > left THEN left ELSE size

Read(fd, size) ==
  /\ fd \in OpenFds
  /\ Find(table[fd].name) # 0
  /\ LET file == Bytes(Find(table[fd].name))
         offset == table[fd].offset
         n == ToRead(size, Len(file) - offset)
         Got(b) == IF offset + b <= Len(file) THEN file[offset + b] ELSE Blank
     IN /\ n > 0
        /\ table' = [table EXCEPT ![fd].offset = @ + n]
        /\ seen' = [seen EXCEPT ![fd].bytes = @ \o [b \in 1 .. n |-> Got(b)]]
  /\ UNCHANGED <<fsvars, nodes>>

(* vfs_write: always a whole new file; the offset is not used.             *)
Write(fd, d, size) ==
  /\ fd \in OpenFds
  /\ WriteFile(table[fd].name, d, size)
  /\ UNCHANGED <<table, nodes, seen>>

(* vfs_close *)
Freed(node) == {node}

Close(fd) ==
  /\ fd \in OpenFds
  /\ nodes' = nodes \ Freed(table[fd].node)
  /\ table' = [table EXCEPT ![fd] = Closed]
  /\ UNCHANGED <<fsvars, seen>>

(* The rest of a write; the shell's format, which changes the files behind *)
(* the descriptors; and the end of everything in memory when the power     *)
(* goes (vfs_init starts with a closed table).                             *)
Continue == WriteSector /\ UNCHANGED <<table, nodes, seen>>

Reformat ==
  /\ Format
  /\ seen' = [fd \in Fds |-> IF fd \in OpenFds THEN Nothing(table[fd].offset)
                                               ELSE seen[fd]]
  /\ UNCHANGED <<table, nodes>>

PowerLoss ==
  /\ Crash
  /\ table' = [fd \in Fds |-> Closed]
  /\ nodes' = {}
  /\ seen' = [fd \in Fds |-> Nothing(0)]

(* "Fallback to eski FS" (vfs_open, vfs_read): without a mounted ext2 no   *)
(* descriptor passes for an ext2 file ("EXT2 dosyasi ise").                *)
NoStrayExt2 == \A fd \in OpenFds : table[fd].impl = "null"

VfsCall ==
  \/ \E n \in Names : Open(n)
  \/ \E fd \in Fds, size \in ReadSizes : Read(fd, size)
  \/ \E fd \in Fds, d \in Data, size \in Sizes : Write(fd, d, size)
  \/ \E fd \in Fds : Close(fd)
  \/ Reformat

(* A call on a node whose impl_data is garbage is the end of the model.    *)
VfsNext ==
  /\ NoStrayExt2
  /\ \/ op = Idle /\ VfsCall
     \/ Continue
     \/ PowerLoss

VfsSpec == VfsInit /\ [][VfsNext]_vfsvars
-----------------------------------------------------------------------------
(* What a descriptor has read is the file, from where it began to where it *)
(* is now: no byte twice, none left out, whatever other descriptors read   *)
(* of the same file, write under the same name or close in between.        *)
ReadsInOrder ==
  \A fd \in OpenFds :
    LET f == Find(table[fd].name) IN
      seen[fd].bytes # << >> =>
        /\ table[fd].offset <= dir[f].size
        /\ seen[fd].bytes = SubSeq(Bytes(f), seen[fd].from + 1, table[fd].offset)

(* Every open descriptor has a node of its own and every node allocated    *)
(* belongs to one: none is freed twice, lost or used after vfs_close.      *)
NodesOwned ==
  /\ nodes = {table[fd].node : fd \in OpenFds}
  /\ \A f, g \in OpenFds : f # g => table[f].node # table[g].node

(* What the callers see of all this: the files of the directory, each with *)
(* its content once its write has ended, the one that is being written,    *)
(* and where each descriptor stands.                                       *)
File(i) == [name |-> dir[i].name, size |-> dir[i].size, done |-> saved[i] # Blank,
            content |-> IF saved[i] = Blank THEN << >> ELSE Bytes(i)]
Descriptor(fd) ==
  IF table[fd] = Closed THEN [name |-> ""]
  ELSE [name |-> table[fd].name, offset |-> table[fd].offset]

StoredFiles == [i \in InUse |-> File(i)]
Unwritten ==
  IF op = Idle THEN [file |-> 0]
  ELSE [file |-> op.entry, content |-> BytesOf(op.data, dir[op.entry].size)]
Descriptors == [fd \in Fds |-> Descriptor(fd)]
ReadSoFar == [fd \in Fds |-> seen[fd].bytes]

Store == INSTANCE FileStore WITH
  GreetingContent <- BytesOf(Greeting, 1),
  Content <- {BytesOf(d, size) : d \in Data, size \in Sizes},
  files <- StoredFiles, writing <- Unwritten, open <- Descriptors, got <- ReadSoFar

(* To its callers the disk is a store of whole files: one that was written *)
(* is complete at one moment and is read back as it was written, however   *)
(* the sectors of others are written, and only the shell's format takes it *)
(* away.                                                                   *)
FilesAsStored == Store!Spec
=============================================================================
