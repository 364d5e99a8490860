------------------------------ MODULE Vfs_proof ------------------------------
(***************************************************************************)
(* Proofs about FlatFs and Vfs, for any number of directory entries, files *)
(* and descriptors: the files keep apart and keep their bytes whatever is  *)
(* written, formatted or interrupted, and a descriptor reads on through    *)
(* the file it began with.                                                 *)
(***************************************************************************)
EXTENDS MCVfs, NatLemmas, SequenceTheorems

-----------------------------------------------------------------------------
(* The most sectors a file takes. *)
Most == CHOOSE most \in 1 .. CountLimit - 1 :
          /\ \A size \in Sizes : Occupied(size) <= most
          /\ Entries * (most + 1) <= Sectors
          /\ Entries * (most + 1) <= ClusterLimit

LastOf(i) == dir[i].start + Occupied(dir[i].size)

(* The directory: entries are used from the first on, and the files lie in  *)
(* the order of their entries, none beyond its share of the disk.           *)
Prefix == \A i \in InUse, j \in Entry : j < i => j \in InUse

EntriesOK ==
  \A i \in InUse :
    /\ dir[i] = [name |-> dir[i].name, size |-> dir[i].size, start |-> dir[i].start]
    /\ dir[i].name \in DOMAIN Fold
    /\ dir[i].size \in Nat /\ dir[i].start \in Nat
    /\ Occupied(dir[i].size) <= Most
    /\ LastOf(i) <= i * (Most + 1)

InOrder == \A i, j \in InUse : i < j => LastOf(i) < dir[j].start

(* The disk: a file whose write has ended has all its blocks, the one that  *)
(* is being written those before the next.                                  *)
HasBlocks(i, d, n) == \A k \in 0 .. n - 1 : Block(i, k) = <<d, k>>

OpOK ==
  op # Idle =>
    /\ op = [entry |-> op.entry, data |-> op.data, next |-> op.next, count |-> op.count]
    /\ op.entry \in InUse
    /\ op.data \in Contents
    /\ op.next \in Nat /\ op.count \in Nat
    /\ op.count = SectorCount(dir[op.entry].size)
    /\ op.next < op.count
    /\ saved[op.entry] = Blank
    /\ HasBlocks(op.entry, op.data, op.next)

SavedOK ==
  \A i \in InUse :
    saved[i] # Blank => HasBlocks(i, saved[i], SectorCount(dir[i].size))

DiskOK ==
  /\ disk \in [0 .. Sectors - 1 -> Contents \X (0 .. Sectors)]
  /\ saved \in [InUse -> Contents \union {Blank}]
  /\ DOMAIN dir = Entry

FsInv == Prefix /\ EntriesOK /\ InOrder /\ DiskOK /\ OpOK /\ SavedOK

-----------------------------------------------------------------------------
LEMMA MostFits ==
  /\ Most \in Nat \ {0} /\ Most < CountLimit
  /\ \A size \in Sizes : Occupied(size) <= Most
  /\ Entries * (Most + 1) <= Sectors
  /\ Entries * (Most + 1) <= ClusterLimit
<1>1. /\ Most \in 1 .. CountLimit - 1
      /\ \A size \in Sizes : Occupied(size) <= Most
      /\ Entries * (Most + 1) <= Sectors
      /\ Entries * (Most + 1) <= ClusterLimit
  BY FilesFit DEF Most
<1>2. CountLimit \in Nat
  BY FsAssumption
<1>3. Most \in Nat \ {0} /\ Most < CountLimit
  BY <1>1, <1>2
<1> QED BY <1>1, <1>3

LEMMA SectorCountBounds ==
  ASSUME NEW size \in Nat
  PROVE  /\ SectorCount(size) \in Nat /\ Occupied(size) \in Nat \ {0}
         /\ SectorCount(size) <= Occupied(size)
         /\ size = 0 => SectorCount(size) = 0
         /\ \A b \in 1 .. size : (b - 1) \div SectorSize \in 0 .. SectorCount(size) - 1
<1>1. SectorSize \in Nat \ {0}
  BY FsAssumption
<1>2. CASE size = 0
  <2>1. (SectorSize - 1) \div SectorSize = 0
    BY <1>1
  <2> QED BY <1>2, <1>1, <2>1 DEF SectorCount, Occupied
<1>3. CASE size # 0
  <2>1. size - 1 \in Nat /\ size + SectorSize - 1 = (size - 1) + SectorSize
    BY <1>1, <1>3
  <2>2. SectorCount(size) = (size - 1) \div SectorSize + 1
    BY <1>1, <2>1, DivPlusOne DEF SectorCount
  <2>3. (size - 1) \div SectorSize \in Nat
    BY <1>1, <2>1, DivMonotonic
  <2>4. ASSUME NEW b \in 1 .. size
        PROVE  (b - 1) \div SectorSize \in 0 .. SectorCount(size) - 1
    <3>1. b - 1 \in Nat /\ b - 1 <= size - 1
      BY <1>3
    <3>2. (b - 1) \div SectorSize \in Nat /\ (b - 1) \div SectorSize <= (size - 1) \div SectorSize
      BY <1>1, <2>1, <3>1, DivMonotonic
    <3> QED BY <2>2, <2>3, <3>2
  <2> QED BY <1>3, <2>2, <2>3, <2>4 DEF Occupied
<1> QED BY <1>2, <1>3

(* A share of the disk: the files of the first i entries end before it.     *)
LEMMA Shares ==
  ASSUME NEW i \in Entry
  PROVE  /\ i * (Most + 1) \in Nat
         /\ i * (Most + 1) <= Sectors /\ i * (Most + 1) <= ClusterLimit
         /\ \A j \in Nat : j < i => j * (Most + 1) + Most + 1 <= i * (Most + 1)
<1>1. Most + 1 \in Nat /\ Entries \in Nat /\ Sectors \in Nat /\ ClusterLimit \in Nat
  BY MostFits, FsAssumption
<1> DEFINE m == Most + 1
<1>2. m \in Nat /\ Entries * m <= Sectors /\ Entries * m <= ClusterLimit
  BY <1>1, MostFits
<1>3. Most = m - 1
  BY MostFits
<1>4. i \in Nat /\ i <= Entries
  BY <1>1 DEF Entry
<1> HIDE DEF m
<1>5. (Entries - i) * m >= 0 /\ i * m \in Nat
  BY <1>1, <1>2, <1>4
<1>6. i * m <= Entries * m
  BY <1>1, <1>2, <1>4, <1>5
<1>7. ASSUME NEW j \in Nat, j < i PROVE j * m + m <= i * m
  <2>1. i - (j + 1) \in Nat
    BY <1>4, <1>7
  <2>2. (i - (j + 1)) * m >= 0
    BY <1>2, <2>1
  <2> QED BY <1>2, <1>4, <2>2
<1>8. \A j \in Nat : j < i => j * m + Most + 1 <= i * m
  BY <1>2, <1>3, <1>4, <1>5, <1>7, MostFits
<1>9. i * m <= Sectors /\ i * m <= ClusterLimit
  BY <1>1, <1>2, <1>4, <1>5, <1>6
<1> QED BY <1>5, <1>8, <1>9 DEF m

LEMMA FileBounds ==
  ASSUME FsInv, NEW i \in InUse
  PROVE  /\ i \in Entry /\ i \in Nat /\ LastOf(i) \in Nat
         /\ dir[i].start \in Nat /\ SectorCount(dir[i].size) \in Nat
         /\ dir[i].start + SectorCount(dir[i].size) <= LastOf(i)
         /\ dir[i].start < LastOf(i)
<1>1. i \in Entry /\ i \in Nat
  BY FsAssumption DEF InUse, Entry
<1>2. dir[i].size \in Nat /\ dir[i].start \in Nat
  BY DEF FsInv, EntriesOK
<1>3. /\ SectorCount(dir[i].size) \in Nat /\ Occupied(dir[i].size) \in Nat \ {0}
      /\ SectorCount(dir[i].size) <= Occupied(dir[i].size)
  BY <1>2, SectorCountBounds
<1> QED BY <1>1, <1>2, <1>3 DEF LastOf

-----------------------------------------------------------------------------
(* A new entry goes behind all others, and its sectors behind all of theirs. *)
LEMMA NewEntry ==
  ASSUME FsInv, InUse # Entry, NEW e, e = FirstFree
  PROVE  /\ e \in Entry \ InUse /\ e \in Nat
         /\ \A i \in InUse : i < e
         /\ \A j \in Entry : j < e => j \in InUse
         /\ EndOf(InUse) \in Nat
         /\ \A i \in InUse : LastOf(i) <= EndOf(InUse)
         /\ EndOf(InUse) + Most + 1 <= e * (Most + 1)
<1>1. InUse \subseteq Entry /\ Entry \subseteq Nat
  BY FsAssumption DEF InUse, Entry
<1>2. e \in Entry \ InUse /\ \A j \in Entry \ InUse : e <= j
  BY <1>1, MinOfNats DEF FirstFree
<1>3. \A j \in Entry : j < e => j \in InUse
  BY <1>1, <1>2
<1>4. \A i \in InUse : i < e
  <2>1. ASSUME NEW i \in InUse, ~(i < e) PROVE FALSE
    <3>1. e < i
      BY <1>1, <1>2, <2>1
    <3> QED BY <1>2, <2>1, <3>1 DEF FsInv, Prefix
  <2> QED BY <2>1
<1> DEFINE T == {0} \union {LastOf(i) : i \in InUse}
<1>5. \A i \in InUse : LastOf(i) \in Nat
  BY FileBounds
<1>6. PICK top \in Nat : top = e * (Most + 1)
  BY <1>1, <1>2, MostFits
<1>7. Most \in Nat /\ Most + 1 <= top
  <2>1. 0 * (Most + 1) + Most + 1 <= top
    BY <1>1, <1>2, <1>6, Shares DEF Entry
  <2> QED BY <2>1, MostFits
<1>8. \A i \in InUse : LastOf(i) + Most + 1 <= top
  <2>1. ASSUME NEW i \in InUse PROVE LastOf(i) + Most + 1 <= top
    <3>1. i \in Nat /\ i < e
      BY <1>1, <1>4
    <3>2. i * (Most + 1) + Most + 1 <= top /\ i * (Most + 1) \in Nat
      BY <1>1, <1>2, <1>6, <3>1, Shares, MostFits
    <3>3. LastOf(i) <= i * (Most + 1)
      BY DEF FsInv, EntriesOK
    <3> QED BY <1>5, <1>7, <3>2, <3>3
  <2> QED BY <2>1
<1>9. \A t \in T : t \in Nat /\ t <= top - (Most + 1)
  BY <1>5, <1>6, <1>7, <1>8
<1>10. Max(T) \in T /\ \A t \in T : t <= Max(T)
  <2>1. top - (Most + 1) \in Nat
    BY <1>6, <1>7
  <2> HIDE DEF T
  <2>2. T \subseteq Nat /\ T # {}
    BY <1>9 DEF T
  <2> QED BY <1>9, <2>1, <2>2, MaxOfNats
<1>11. EndOf(InUse) = Max(T)
  BY DEF EndOf, LastOf
<1> HIDE DEF T
<1>12. EndOf(InUse) \in Nat /\ EndOf(InUse) + Most + 1 <= top
  BY <1>6, <1>7, <1>9, <1>10, <1>11
<1>13. \A i \in InUse : LastOf(i) <= EndOf(InUse)
  BY <1>10, <1>11 DEF T
<1> QED BY <1>1, <1>2, <1>3, <1>4, <1>6, <1>12, <1>13

LEMMA WriteFileInv ==
  ASSUME FsInv, NEW n \in Names, NEW d \in Data, NEW size \in Sizes,
         WriteFile(n, d, size)
  PROVE  /\ FsInv'
         /\ FirstFree \in Entry \ InUse /\ InUse' = InUse \union {FirstFree}
         /\ \A i \in InUse : i < FirstFree /\ dir'[i] = dir[i] /\ saved'[i] = saved[i]
         /\ op' = Idle \/ op'.entry = FirstFree
         /\ dir'[FirstFree].name = Stored[n] /\ dir'[FirstFree].size = size
         /\ Begin(FirstFree, d, SectorCount(size))
<1>1. PICK e : e = FirstFree
  OBVIOUS
<1>2. /\ e \in Entry \ InUse /\ e \in Nat
      /\ \A i \in InUse : i < e
      /\ \A j \in Entry : j < e => j \in InUse
      /\ EndOf(InUse) \in Nat
      /\ \A i \in InUse : LastOf(i) <= EndOf(InUse)
      /\ EndOf(InUse) + Most + 1 <= e * (Most + 1)
  BY <1>1, NewEntry DEF WriteFile
<1>3. size \in Nat /\ Most \in Nat \ {0} /\ ClusterLimit \in Nat \ {0} /\ CountLimit \in Nat \ {0}
  BY MostFits, FsAssumption
<1>4. /\ SectorCount(size) \in Nat /\ Occupied(size) \in Nat \ {0}
      /\ SectorCount(size) <= Occupied(size) /\ Occupied(size) <= Most
      /\ Most < CountLimit
  BY <1>3, SectorCountBounds, MostFits
<1>5. SectorCount(size) % CountLimit = SectorCount(size)
  BY <1>3, <1>4
<1>6. PICK start \in Nat : start = EndOf(InUse) + 1
  BY <1>2
<1>7. start + Most <= e * (Most + 1) /\ start < ClusterLimit
  BY <1>2, <1>3, <1>6, Shares
<1>8. (EndOf(InUse) + 1) % ClusterLimit = start
  BY <1>3, <1>6, <1>7
<1>9. PICK new : new = [name |-> Stored[n], size |-> size, start |-> start]
  OBVIOUS
<1>10. /\ dir' = [dir EXCEPT ![e] = new]
       /\ Begin(e, d, SectorCount(size))
       /\ disk' = disk /\ op = Idle
  BY <1>1, <1>5, <1>8, <1>9 DEF WriteFile
<1>11. dir'[e] = new /\ \A i \in Entry : i # e => dir'[i] = dir[i]
  BY <1>2, <1>10 DEF FsInv, DiskOK
<1>12. new # Free /\ new.name \in DOMAIN Fold /\ new.size = size /\ new.start = start
  BY <1>9, FsAssumption DEF Free
<1>13. InUse' = InUse \union {e}
  BY <1>2, <1>11, <1>12 DEF InUse
<1>14. \A i \in InUse : i # e /\ i \in Entry /\ dir'[i] = dir[i]
  BY <1>2, <1>11 DEF InUse
<1>15. Prefix'
  BY <1>2, <1>13 DEF FsInv, Prefix, Entry
<1>16. EntriesOK'
  <2>1. ASSUME NEW i \in InUse
        PROVE  /\ dir'[i] = [name |-> dir'[i].name, size |-> dir'[i].size, start |-> dir'[i].start]
               /\ dir'[i].name \in DOMAIN Fold
               /\ dir'[i].size \in Nat /\ dir'[i].start \in Nat
               /\ Occupied(dir'[i].size) <= Most
               /\ LastOf(i)' <= i * (Most + 1)
    BY <1>14 DEF FsInv, EntriesOK, LastOf
  <2>2. LastOf(e)' = start + Occupied(size)
    BY <1>11, <1>12 DEF LastOf
  <2>3. LastOf(e)' <= e * (Most + 1)
    BY <1>2, <1>3, <1>4, <1>7, <2>2, Shares
  <2> QED BY <1>3, <1>4, <1>9, <1>11, <1>12, <1>13, <2>1, <2>3 DEF EntriesOK
<1>17. InOrder'
  <2>1. \A i \in InUse : LastOf(i)' = LastOf(i) /\ dir'[i].start = dir[i].start
    BY <1>14 DEF LastOf
  <2>2. \A i \in InUse : LastOf(i) \in Nat /\ i \in Nat
    BY FileBounds
  <2>3. \A i \in InUse : LastOf(i)' < dir'[e].start
    BY <1>2, <1>6, <1>11, <1>12, <2>1, <2>2
  <2>4. \A i \in InUse : ~(e < i)
    BY <1>2, <2>2
  <2> QED BY <1>2, <1>13, <2>1, <2>3, <2>4 DEF FsInv, InOrder
<1>18. DiskOK' /\ saved'[e] = (IF SectorCount(size) = 0 THEN d ELSE Blank)
       /\ \A i \in InUse : saved'[i] = saved[i]
  <2>1. d \in Contents
    BY DEF Contents
  <2>2. saved' = [j \in InUse \union {e} |->
                    IF j = e THEN (IF SectorCount(size) = 0 THEN d ELSE Blank) ELSE saved[j]]
    BY <1>10 DEF Begin, FsInv, DiskOK
  <2> QED BY <1>2, <1>10, <1>13, <2>1, <2>2 DEF FsInv, DiskOK
<1>19. \A i \in InUse : \A c, k : HasBlocks(i, c, k)' <=> HasBlocks(i, c, k)
  BY <1>10, <1>14 DEF HasBlocks, Block
<1>20. OpOK'
  <2>1. CASE SectorCount(size) = 0
    BY <1>10, <2>1 DEF Begin, OpOK
  <2>2. CASE SectorCount(size) # 0
    <3>1. op' = [entry |-> e, data |-> d, next |-> 0, count |-> SectorCount(size)]
      BY <1>10, <2>2 DEF Begin
    <3>2. HasBlocks(e, d, 0)'
      BY DEF HasBlocks
    <3> QED BY <1>4, <1>11, <1>12, <1>13, <1>18, <2>2, <3>1, <3>2 DEF OpOK, Contents
  <2> QED BY <2>1, <2>2
<1>21. SavedOK'
  <2>1. \A i \in InUse : saved'[i] # Blank => HasBlocks(i, saved[i], SectorCount(dir[i].size))'
    BY <1>14, <1>18, <1>19 DEF FsInv, SavedOK
  <2>2. saved'[e] # Blank => \A k \in 0 .. SectorCount(dir'[e].size) - 1 : FALSE
    BY <1>11, <1>12, <1>18
  <2>3. (saved[e] # Blank => HasBlocks(e, saved[e], SectorCount(dir[e].size)))'
    BY <2>2 DEF HasBlocks
  <2> QED BY <2>3, <1>13, <2>1, <2>2 DEF SavedOK
<1>22. op' = Idle \/ op'.entry = e
  BY <1>10 DEF Begin
<1>23. dir'[e].name = Stored[n] /\ dir'[e].size = size /\ Begin(e, d, SectorCount(size))
  BY <1>9, <1>10, <1>11
<1> QED BY <1>1, <1>2, <1>13, <1>14, <1>15, <1>16, <1>17, <1>18, <1>20, <1>21, <1>22, <1>23
        DEF FsInv

(* One sector is written: in the extent of the entry, and in no other one's. *)
LEMMA WriteSectorInv ==
  ASSUME FsInv, WriteSector
  PROVE  /\ FsInv' /\ dir' = dir /\ InUse' = InUse
         /\ op' = Idle \/ op'.entry = op.entry
         /\ \A i \in InUse, k \in Nat :
              i # op.entry /\ k < SectorCount(dir[i].size) => Block(i, k)' = Block(i, k)
<1>1. PICK e \in InUse, d \in Contents, m \in Nat, c \in Nat :
        /\ op = [entry |-> e, data |-> d, next |-> m, count |-> c]
        /\ c = SectorCount(dir[e].size) /\ m < c
        /\ saved[e] = Blank /\ HasBlocks(e, d, m)
  BY DEF WriteSector, FsInv, OpOK
<1>2. PICK t : t = dir[e].start + m
  OBVIOUS
<1>3. /\ disk' = [disk EXCEPT ![t] = <<d, m>>]
      /\ dir' = dir
      /\ IF m + 1 < c THEN op' = [op EXCEPT !.next = @ + 1] /\ saved' = saved
                      ELSE op' = Idle /\ saved' = [saved EXCEPT ![e] = d]
  BY <1>1, <1>2 DEF WriteSector, Target, More
<1>4. InUse' = InUse
  BY <1>3 DEF InUse
<1>5. \A i \in InUse : /\ i \in Entry /\ i \in Nat /\ LastOf(i) \in Nat
                      /\ dir[i].start \in Nat /\ SectorCount(dir[i].size) \in Nat
                      /\ dir[i].start + SectorCount(dir[i].size) <= LastOf(i)
  BY FileBounds
<1>6. t \in Nat /\ t < LastOf(e) /\ dir[e].start <= t
  BY <1>1, <1>2, <1>5
<1>7. t < Sectors /\ Sectors \in Nat
  <2>1. LastOf(e) <= e * (Most + 1)
    BY DEF FsInv, EntriesOK
  <2>2. e * (Most + 1) \in Nat /\ e * (Most + 1) <= Sectors
    BY <1>5, Shares
  <2>3. Sectors \in Nat
    BY FsAssumption
  <2> QED BY <1>5, <1>6, <2>1, <2>2, <2>3
<1>8. t \in DOMAIN disk
  BY <1>6, <1>7 DEF FsInv, DiskOK
<1>9. ASSUME NEW i \in InUse, NEW k \in Nat, k < SectorCount(dir[i].size), i # e \/ k # m
      PROVE  Block(i, k)' = Block(i, k)
  <2>1. dir[i].start + k # t
    <3>1. CASE i = e
      BY <1>2, <1>5, <1>9, <3>1
    <3>2. CASE i < e
      <4>1. LastOf(i) < dir[e].start
        BY <3>2 DEF FsInv, InOrder
      <4> QED BY <1>5, <1>6, <1>9, <4>1
    <3>3. CASE e < i
      <4>1. LastOf(e) < dir[i].start
        BY <3>3 DEF FsInv, InOrder
      <4> QED BY <1>5, <1>6, <1>9, <4>1
    <3> QED BY <1>5, <3>1, <3>2, <3>3
  <2> QED BY <1>3, <2>1 DEF Block, FsInv, DiskOK
<1>10. Block(e, m)' = <<d, m>>
  BY <1>2, <1>3, <1>8 DEF Block, FsInv, DiskOK
<1>11. ASSUME NEW i \in InUse, NEW x, NEW q \in Nat, q <= SectorCount(dir[i].size),
              i # e \/ q <= m, HasBlocks(i, x, q)
       PROVE  HasBlocks(i, x, q)'
  BY <1>5, <1>9, <1>11 DEF HasBlocks
<1>12. HasBlocks(e, d, m + 1)'
  <2>1. \A k \in 0 .. m : Block(e, k)' = <<d, k>>
    BY <1>1, <1>9, <1>10 DEF HasBlocks
  <2> QED BY <2>1 DEF HasBlocks
<1>13. Prefix' /\ EntriesOK' /\ InOrder'
  BY <1>3, <1>4 DEF FsInv, Prefix, EntriesOK, InOrder, LastOf
<1>14. DiskOK'
  <2>1. <<d, m>> \in Contents \X (0 .. Sectors)
    BY <1>2, <1>5, <1>6, <1>7
  <2>2. disk' \in [0 .. Sectors - 1 -> Contents \X (0 .. Sectors)]
    BY <1>3, <2>1 DEF FsInv, DiskOK
  <2>3. saved' \in [InUse' -> Contents \union {Blank}]
    BY <1>3, <1>4 DEF FsInv, DiskOK
  <2> QED BY <1>3, <2>2, <2>3 DEF FsInv, DiskOK
<1>15. OpOK' /\ SavedOK' /\ (op' = Idle \/ op'.entry = op.entry)
  <2>1. CASE m + 1 < c
    <3>1. op' = [entry |-> e, data |-> d, next |-> m + 1, count |-> c] /\ saved' = saved
      BY <1>1, <1>3, <2>1
    <3>2. OpOK'
      BY <1>1, <1>3, <1>4, <1>12, <2>1, <3>1 DEF OpOK
    <3>3. SavedOK'
      <4>1. SUFFICES ASSUME NEW i \in InUse, saved[i] # Blank
                     PROVE  HasBlocks(i, saved[i], SectorCount(dir[i].size))'
        BY <1>4, <3>1 DEF SavedOK
      <4>2. i # e /\ HasBlocks(i, saved[i], SectorCount(dir[i].size))
        BY <1>1, <4>1 DEF FsInv, SavedOK
      <4>3. PICK x, q : x = saved[i] /\ q = SectorCount(dir[i].size)
        OBVIOUS
      <4>4. HasBlocks(i, x, q)'
        BY <1>5, <1>11, <4>2, <4>3
      <4> QED BY <1>3, <3>1, <4>3, <4>4
    <3> QED BY <1>1, <3>1, <3>2, <3>3
  <2>2. CASE ~(m + 1 < c)
    <3>1. op' = Idle /\ saved' = [saved EXCEPT ![e] = d] /\ c = m + 1
      BY <1>1, <1>3, <2>2
    <3>2. OpOK'
      BY <3>1 DEF OpOK
    <3>3. SavedOK'
      <4>1. SUFFICES ASSUME NEW i \in InUse, saved'[i] # Blank
                     PROVE  (HasBlocks(i, saved[i], SectorCount(dir[i].size)))'
        BY <1>4 DEF SavedOK
      <4>2. CASE i = e
        <5>1. saved'[i] = d
          BY <3>1, <4>2 DEF FsInv, DiskOK
        <5> QED BY <1>1, <1>3, <1>12, <3>1, <4>2, <5>1
      <4>3. CASE i # e
        <5>1. saved'[i] = saved[i]
          BY <3>1, <4>3 DEF FsInv, DiskOK
        <5>2. HasBlocks(i, saved[i], SectorCount(dir[i].size))
          BY <4>1, <5>1 DEF FsInv, SavedOK
        <5>3. PICK x, q : x = saved[i] /\ q = SectorCount(dir[i].size)
          OBVIOUS
        <5>4. HasBlocks(i, x, q)'
          BY <1>5, <1>11, <4>3, <5>2, <5>3
        <5> QED BY <1>3, <5>1, <5>3, <5>4
      <4> QED BY <4>2, <4>3
    <3> QED BY <3>1, <3>2, <3>3
  <2> QED BY <2>1, <2>2
<1>16. \A i \in InUse, k \in Nat :
          i # op.entry /\ k < SectorCount(dir[i].size) => Block(i, k)' = Block(i, k)
  BY <1>1, <1>9
<1> QED BY <1>3, <1>4, <1>13, <1>14, <1>15, <1>16 DEF FsInv

LEMMA FormatInv ==
  ASSUME FsInv, Format
  PROVE  FsInv'
<1>1. 1 \in Entry /\ 1 \in Nat /\ Entry \subseteq Nat
  BY FsAssumption DEF Entry
<1>2. dir' = [i \in Entry |-> IF i = 1 THEN [name |-> GreetingName, size |-> 1, start |-> 1]
                                       ELSE Free]
  BY DEF Format
<1>3. dir'[1] = [name |-> GreetingName, size |-> 1, start |-> 1]
  BY <1>1, <1>2
<1>4. InUse' = {1}
  BY <1>1, <1>2, <1>3 DEF InUse, Free
<1>5. SectorCount(1) = 1 /\ Occupied(1) = 1
  <2>1. SectorSize \in Nat \ {0}
    BY FsAssumption
  <2>2. SectorCount(1) = 0 \div SectorSize + 1
    BY <2>1, DivPlusOne DEF SectorCount
  <2> QED BY <2>1, <2>2 DEF Occupied
<1>6. Prefix' /\ InOrder'
  BY <1>1, <1>4, FsAssumption DEF Prefix, InOrder, Entry
<1>7. EntriesOK'
  <2>1. GreetingName \in DOMAIN Fold /\ Most \in Nat \ {0}
    BY MostFits, FsAssumption
  <2>2. LastOf(1)' = 2
    BY <1>3, <1>5 DEF LastOf
  <2> QED BY <1>3, <1>4, <1>5, <2>1, <2>2 DEF EntriesOK
<1>8. DiskOK'
  BY <1>2, <1>4 DEF Format, FsInv, DiskOK
<1>9. OpOK'
  <2>1. op' = [entry |-> 1, data |-> Greeting, next |-> 0, count |-> 1] /\ saved'[1] = Blank
    BY DEF Format
  <2>2. HasBlocks(1, Greeting, 0)'
    BY DEF HasBlocks
  <2> QED BY <1>3, <1>4, <1>5, <2>1, <2>2 DEF OpOK, Contents
<1>10. SavedOK'
  BY <1>4 DEF Format, SavedOK
<1> QED BY <1>6, <1>7, <1>8, <1>9, <1>10 DEF FsInv

LEMMA FsInitInv == FsInit => FsInv
<1> SUFFICES ASSUME FsInit PROVE FsInv
  OBVIOUS
<1>1. InUse = {}
  BY DEF FsInit, InUse
<1>2. Blank \in Contents \X (0 .. Sectors)
  BY FsAssumption DEF Blank, Contents
<1>3. DiskOK
  BY <1>1, <1>2 DEF FsInit, DiskOK
<1> QED BY <1>1, <1>3 DEF FsInv, Prefix, EntriesOK, InOrder, OpOK, SavedOK, FsInit

(* A step that leaves the file system alone, or stops its write.            *)
LEMMA FsRests ==
  ASSUME FsInv, UNCHANGED <<dir, disk, saved>>, op' \in {op, Idle}
  PROVE  FsInv' /\ InUse' = InUse
<1>1. InUse' = InUse
  BY DEF InUse
<1>2. OpOK'
  BY <1>1 DEF FsInv, OpOK, HasBlocks, Block
<1>3. SavedOK'
  BY <1>1 DEF FsInv, SavedOK, HasBlocks, Block
<1> QED BY <1>1, <1>2, <1>3 DEF FsInv, Prefix, EntriesOK, InOrder, DiskOK, LastOf

-----------------------------------------------------------------------------
LEMMA FsTypes == FsInv => FsTypeOK
<1> SUFFICES ASSUME FsInv PROVE FsTypeOK
  OBVIOUS
<1>1. ASSUME NEW i \in InUse PROVE dir[i].start \in 0 .. ClusterLimit - 1
  <2>1. LastOf(i) <= i * (Most + 1)
    BY DEF FsInv, EntriesOK
  <2>2. i * (Most + 1) \in Nat /\ i * (Most + 1) <= ClusterLimit
    BY FileBounds, Shares
  <2>3. ClusterLimit \in Nat
    BY FsAssumption
  <2>4. dir[i].start \in Nat /\ LastOf(i) \in Nat /\ dir[i].start < LastOf(i)
    BY FileBounds
  <2> QED BY <2>1, <2>2, <2>3, <2>4
<1>2. \A i \in InUse : dir[i].name \in DOMAIN Fold /\ dir[i].size \in Nat
  BY DEF FsInv, EntriesOK
<1>3. op = Idle \/ (op.entry \in InUse /\ op.next < op.count)
  BY DEF FsInv, OpOK
<1> QED BY <1>1, <1>2, <1>3 DEF FsTypeOK, FsInv, DiskOK

LEMMA FilesApart == FsInv => ExtentsDisjoint
<1> SUFFICES ASSUME FsInv, NEW i \in InUse, NEW j \in InUse, i # j,
                    NEW x \in Extent(i), x \in Extent(j)
             PROVE  FALSE
  BY DEF ExtentsDisjoint
<1>1. /\ i \in Nat /\ dir[i].start \in Nat /\ SectorCount(dir[i].size) \in Nat
      /\ dir[i].start + SectorCount(dir[i].size) <= LastOf(i) /\ LastOf(i) \in Nat
  BY FileBounds
<1>2. /\ j \in Nat /\ dir[j].start \in Nat /\ SectorCount(dir[j].size) \in Nat
      /\ dir[j].start + SectorCount(dir[j].size) <= LastOf(j) /\ LastOf(j) \in Nat
  BY FileBounds
<1>3. (i < j => LastOf(i) < dir[j].start) /\ (j < i => LastOf(j) < dir[i].start)
  BY DEF FsInv, InOrder
<1> QED BY <1>1, <1>2, <1>3 DEF Extent

LEMMA SavedFilesStay == FsInv => SavedStays
<1> SUFFICES ASSUME FsInv, NEW i \in InUse, saved[i] # Blank
             PROVE  Bytes(i) = BytesOf(saved[i], dir[i].size)
  BY DEF SavedStays
<1>1. HasBlocks(i, saved[i], SectorCount(dir[i].size)) /\ dir[i].size \in Nat
  BY DEF FsInv, SavedOK, EntriesOK
<1>2. ASSUME NEW b \in 1 .. dir[i].size
      PROVE  Block(i, (b - 1) \div SectorSize) = <<saved[i], (b - 1) \div SectorSize>>
  <2>1. (b - 1) \div SectorSize \in 0 .. SectorCount(dir[i].size) - 1
    BY <1>1, SectorCountBounds
  <2> QED BY <1>1, <2>1, Zenon DEF HasBlocks
<1> QED BY <1>2 DEF Bytes, BytesOf

(* The file that a name finds is the first one of that name.                *)
FindsFirst(n) ==
  /\ Find(n) # 0 => /\ Find(n) \in InUse /\ Fold[dir[Find(n)].name] = Fold[n]
                   /\ \A i \in InUse : Fold[dir[i].name] = Fold[n] => Find(n) <= i
  /\ Find(n) = 0 => \A i \in InUse : Fold[dir[i].name] # Fold[n]

NamesFindFirst == \A n : FindsFirst(n)

LEMMA FindIs == FsInv => NamesFindFirst
<1> SUFFICES ASSUME FsInv, NEW n PROVE FindsFirst(n)
  BY DEF NamesFindFirst
<1> USE DEF FindsFirst
<1>1. InUse \subseteq Entry /\ Entry \subseteq Nat \ {0}
  BY FsAssumption DEF InUse, Entry
<1>2. \A i \in InUse : \A j \in 1 .. i : dir[j] # Free
  <2>1. ASSUME NEW i \in InUse, NEW j \in 1 .. i PROVE j \in InUse
    BY <1>1, FsAssumption DEF FsInv, Prefix, Entry
  <2> QED BY <2>1 DEF InUse
<1>3. Named(n) = {i \in InUse : Fold[dir[i].name] = Fold[n]}
  BY <1>2 DEF Named
<1>4. CASE Named(n) = {}
  BY <1>1, <1>3, <1>4 DEF Find
<1>5. CASE Named(n) # {}
  <2>1. Named(n) \subseteq Nat
    BY <1>1, <1>3
  <2>2. Find(n) = Min(Named(n)) /\ Min(Named(n)) \in Named(n)
        /\ \A i \in Named(n) : Min(Named(n)) <= i
    BY <1>5, <2>1, MinOfNats DEF Find
  <2> QED BY <1>1, <1>3, <2>2
<1> QED BY <1>4, <1>5

LEMMA FilesFound == FsInv => EveryFileFound
<1> SUFFICES ASSUME FsInv, NEW i \in InUse
             PROVE  Find(dir[i].name) # 0 /\ Find(dir[i].name) <= i
  BY DEF EveryFileFound
<1> QED BY FindIs DEF NamesFindFirst, FindsFirst

LEMMA FilesInv == FsInv => FilesSound
BY FilesApart, SavedFilesStay, FilesFound DEF FilesSound

-----------------------------------------------------------------------------
(* The descriptors. *)
TableOK ==
  /\ DOMAIN table = Fds /\ DOMAIN seen = Fds
  /\ \A fd \in OpenFds :
       /\ table[fd] = [name |-> table[fd].name, node |-> table[fd].node,
                       offset |-> table[fd].offset, impl |-> table[fd].impl]
       /\ table[fd].name \in Names /\ table[fd].node \in Node
       /\ table[fd].offset \in Nat /\ table[fd].impl \in Implants
  /\ \A fd \in Fds : seen[fd] = [from |-> seen[fd].from, bytes |-> seen[fd].bytes]

(* What was read is the part of the file that the name finds, which is not  *)
(* the file that is being written.                                          *)
Follows(fd, f) ==
  /\ f \in InUse
  /\ op # Idle => f # op.entry
  /\ seen[fd].from \in Nat /\ seen[fd].from <= table[fd].offset
  /\ table[fd].offset <= dir[f].size
  /\ seen[fd].bytes = SubSeq(Bytes(f), seen[fd].from + 1, table[fd].offset)

SeenOK ==
  \A fd \in OpenFds :
    IF seen[fd].bytes = << >> THEN seen[fd].from = table[fd].offset
                              ELSE Follows(fd, Find(table[fd].name))

VfsInv == FsInv /\ TableOK /\ NodesOwned /\ SeenOK

(* A name finds the same file after entries are added behind the others.    *)
LEMMA FindStays ==
  ASSUME FsInv, FsInv', InUse \subseteq InUse',
         \A i \in InUse : dir'[i] = dir[i],
         \A i \in InUse, j \in InUse' : j \notin InUse => i < j,
         NEW name, Find(name) \in InUse
  PROVE  Find(name)' = Find(name)
<1>1. (FsInv => NamesFindFirst)'
  BY FindIs, PTL
<1>2. FindsFirst(name) /\ FindsFirst(name)'
  BY <1>1, FindIs DEF NamesFindFirst
<1>3. InUse \subseteq Nat \ {0} /\ InUse' \subseteq Nat \ {0}
  BY FsAssumption DEF InUse, Entry
<1>4. PICK i \in InUse : i = Find(name)
  OBVIOUS
<1>5. Fold[dir'[i].name] = Fold[name] /\ i # 0
  BY <1>2, <1>3, <1>4 DEF FindsFirst
<1>6. PICK j : j = Find(name)'
  OBVIOUS
<1>7. j \in InUse' /\ j <= i /\ Fold[dir'[j].name] = Fold[name]
  BY <1>2, <1>5, <1>6 DEF FindsFirst
<1>8. j \in InUse
  BY <1>3, <1>7
<1>9. i <= j
  BY <1>2, <1>4, <1>5, <1>7, <1>8 DEF FindsFirst
<1>10. i \in Nat /\ j \in Nat
  BY <1>3, <1>4, <1>8
<1>11. i = j
  BY <1>7, <1>9, <1>10
<1> QED BY <1>4, <1>6, <1>11

(* The descriptors follow their files while a step touches no file but the  *)
(* one that is being written, or a new one.                                 *)
LEMMA SeenStays ==
  ASSUME VfsInv, FsInv', UNCHANGED <<table, seen>>, InUse \subseteq InUse',
         \A i \in InUse : dir'[i] = dir[i],
         \A i \in InUse, j \in InUse' : j \notin InUse => i < j,
         \A i \in InUse, k \in Nat :
            (op = Idle \/ i # op.entry) /\ k < SectorCount(dir[i].size)
              => Block(i, k)' = Block(i, k),
         \/ op' = Idle
         \/ op'.entry \notin InUse
         \/ op # Idle /\ op'.entry = op.entry
  PROVE  SeenOK'
<1>1. OpenFds' = OpenFds
  BY DEF OpenFds
<1>2. ASSUME NEW fd \in OpenFds, seen[fd].bytes # << >>
      PROVE  Follows(fd, Find(table[fd].name))'
  <2>1. PICK f : f = Find(table[fd].name)
    OBVIOUS
  <2>2. Follows(fd, f)
    BY <1>2, <2>1 DEF VfsInv, SeenOK
  <2>3. f \in InUse /\ (op # Idle => f # op.entry)
    BY <2>2 DEF Follows
  <2>4. f = Find(table[fd].name)'
    <3>1. PICK n : n = table[fd].name
      OBVIOUS
    <3>2. Find(n)' = Find(n)
      BY <2>1, <2>3, <3>1, FindStays DEF VfsInv
    <3> QED BY <2>1, <3>1, <3>2
  <2>5. Bytes(f)' = Bytes(f)
    <3>1. dir[f].size \in Nat /\ dir'[f] = dir[f]
      BY <2>3 DEF VfsInv, FsInv, EntriesOK
    <3>2. ASSUME NEW b \in 1 .. dir[f].size
          PROVE  Block(f, (b - 1) \div SectorSize)' = Block(f, (b - 1) \div SectorSize)
      <4>1. /\ (b - 1) \div SectorSize \in 0 .. SectorCount(dir[f].size) - 1
            /\ SectorCount(dir[f].size) \in Nat
        BY <3>1, SectorCountBounds
      <4>2. PICK k \in Nat : k = (b - 1) \div SectorSize /\ k < SectorCount(dir[f].size)
        BY <4>1
      <4>3. Block(f, k)' = Block(f, k)
        BY <2>3, <4>2
      <4> QED BY <4>2, <4>3
    <3> QED BY <3>1, <3>2 DEF Bytes
  <2>6. (op' # Idle => f # op'.entry) /\ f \in InUse' /\ dir'[f] = dir[f]
    BY <2>3
  <2>7. Follows(fd, f)'
    BY <2>2, <2>5, <2>6 DEF Follows
  <2> QED BY <2>4, <2>7
<1>3. \A fd \in OpenFds : seen[fd].bytes = << >> => seen[fd].from = table[fd].offset
  BY DEF VfsInv, SeenOK
<1> QED BY <1>1, <1>2, <1>3 DEF SeenOK

LEMMA OpenInv ==
  ASSUME VfsInv, NEW n \in Names, Open(n)
  PROVE  VfsInv'
<1> USE DEF VfsInv
<1>1. PICK node, impl, g :
        /\ node \in Node \ nodes /\ impl \in Implants
        /\ g = FirstFreeFd
        /\ table' = [table EXCEPT ![g] =
                       [name |-> n, node |-> node, offset |-> 0, impl |-> impl]]
        /\ nodes' = nodes \union {node}
        /\ seen' = [seen EXCEPT ![g] = Nothing(0)]
  BY DEF Open
<1>2. g \in Fds \ OpenFds
  <2>1. Fds \ OpenFds \subseteq Nat /\ Fds \ OpenFds # {}
    BY VfsAssumption DEF Open, OpenFds
  <2> QED BY <1>1, <2>1, MinOfNats DEF FirstFreeFd
<1>3. FsInv'
  BY FsRests DEF Open, fsvars
<1>4. /\ table'[g] = [name |-> n, node |-> node, offset |-> 0, impl |-> impl]
      /\ seen'[g] = [from |-> 0, bytes |-> << >>]
      /\ \A fd \in Fds : fd # g => table'[fd] = table[fd] /\ seen'[fd] = seen[fd]
  BY <1>1, <1>2 DEF TableOK, Nothing
<1>5. table'[g] # Closed
  <2>1. "node" \in DOMAIN table'[g]
    BY <1>4
  <2>2. "node" \notin DOMAIN Closed
    BY DEF Closed
  <2> QED BY <2>1, <2>2
<1>6. OpenFds' = OpenFds \union {g}
  BY <1>2, <1>4, <1>5 DEF OpenFds
<1>7. TableOK'
  BY <1>1, <1>2, <1>4, <1>6 DEF TableOK
<1>8. NodesOwned'
  BY <1>1, <1>2, <1>4, <1>6 DEF NodesOwned, OpenFds
<1>9. SeenOK'
  <2>1. ASSUME NEW fd \in OpenFds, seen[fd].bytes # << >>
        PROVE  Follows(fd, Find(table[fd].name))'
    <3>1. fd # g /\ fd \in Fds
      BY <1>2 DEF OpenFds
    <3>2. Find(table[fd].name)' = Find(table[fd].name)
      <4>1. \A x : Find(x)' = Find(x)
        BY DEF Open, fsvars, Find, Named, InUse
      <4>2. table'[fd].name = table[fd].name
        BY <1>4, <3>1
      <4> QED BY <4>1, <4>2
    <3>3. PICK f : f = Find(table[fd].name)
      OBVIOUS
    <3>4. Follows(fd, f)'
      BY <1>4, <2>1, <3>1, <3>3
         DEF Open, fsvars, SeenOK, Follows, InUse, Bytes, Block
    <3> QED BY <3>2, <3>3, <3>4
  <2>2. ASSUME NEW fd \in OpenFds
        PROVE  (IF seen[fd].bytes = << >> THEN seen[fd].from = table[fd].offset
                                         ELSE Follows(fd, Find(table[fd].name)))'
    <3>1. fd # g /\ fd \in Fds
      BY <1>2 DEF OpenFds
    <3>2. table'[fd] = table[fd] /\ seen'[fd] = seen[fd]
      BY <1>4, <3>1
    <3> QED BY <2>1, <3>2 DEF SeenOK
  <2> QED BY <1>4, <1>6, <2>2 DEF SeenOK
<1> QED BY <1>3, <1>7, <1>8, <1>9

LEMMA SubSeqFrom ==
  ASSUME NEW S, NEW s \in Seq(S), NEW a \in Nat, NEW n \in Nat, a + n <= Len(s)
  PROVE  /\ [b \in 1 .. n |-> s[a + b]] = SubSeq(s, a + 1, a + n)
         /\ Len(SubSeq(s, a + 1, a + n)) = n
<1> DEFINE t == [b \in 1 .. n |-> s[a + b]]
<1>1. \A b \in a + 1 .. a + n : s[b] \in S
  BY ElementOfSeq
<1>2. t \in Seq(S) /\ Len(t) = n
  <2>1. \A b \in 1 .. n : s[a + b] \in S
    BY <1>1
  <2>2. t \in [1 .. n -> S]
    BY <2>1
  <2> QED BY <2>2, SeqDef
<1>3. /\ SubSeq(s, a + 1, a + n) \in Seq(S)
      /\ Len(SubSeq(s, a + 1, a + n)) = n
      /\ \A i \in 1 .. n : SubSeq(s, a + 1, a + n)[i] = s[a + i]
  <2>1. a + 1 \in Int /\ a + n \in Int
    OBVIOUS
  <2>2. /\ SubSeq(s, a + 1, a + n) \in Seq(S)
        /\ Len(SubSeq(s, a + 1, a + n))
              = IF a + 1 <= a + n THEN a + n - (a + 1) + 1 ELSE 0
        /\ \A i \in 1 .. a + n - (a + 1) + 1 :
             SubSeq(s, a + 1, a + n)[i] = s[a + 1 + i - 1]
    BY <1>1, <2>1, SubSeqProperties
  <2> QED BY <2>2
<1>4. \A i \in 1 .. n : t[i] = s[a + i]
  OBVIOUS
<1> HIDE DEF t
<1>5. t = SubSeq(s, a + 1, a + n)
  BY <1>2, <1>3, <1>4, SeqEqual
<1> QED BY <1>3, <1>5 DEF t

LEMMA PartInSeq ==
  ASSUME NEW S, NEW s \in Seq(S), NEW a \in Nat, NEW c \in Nat, a <= c, c <= Len(s)
  PROVE  SubSeq(s, a + 1, c) \in Seq(S)
<1>1. \A i \in a + 1 .. c : s[i] \in S
  BY ElementOfSeq
<1> QED BY <1>1, SubSeqProperties

(* What a read takes is a part of the file that the name finds.             *)
Reads(fd, f, off, n) ==
  /\ fd \in OpenFds /\ f \in InUse /\ f = Find(table[fd].name)
  /\ off = table[fd].offset /\ off \in Nat
  /\ n \in Nat \ {0} /\ off + n <= dir[f].size
  /\ table' = [table EXCEPT ![fd].offset = @ + n]
  /\ seen' = [seen EXCEPT ![fd].bytes = @ \o SubSeq(Bytes(f), off + 1, off + n)]
  /\ UNCHANGED <<dir, disk, op, saved, nodes>>

LEMMA BytesAreSeq ==
  ASSUME FsInv, NEW f \in InUse
  PROVE  /\ dir[f].size \in Nat /\ Len(Bytes(f)) = dir[f].size
         /\ \E S : Bytes(f) \in Seq(S)
<1>1. dir[f].size \in Nat
  BY DEF FsInv, EntriesOK
<1>2. PICK file : file = Bytes(f)
  OBVIOUS
<1>3. file = [b \in 1 .. dir[f].size |-> <<Block(f, (b - 1) \div SectorSize), b>>]
  BY <1>2 DEF Bytes
<1>4. file \in [1 .. dir[f].size -> {file[b] : b \in 1 .. dir[f].size}]
  BY <1>3
<1>5. file \in Seq({file[b] : b \in 1 .. dir[f].size})
  BY <1>1, <1>4, SeqDef
<1>6. Len(file) = dir[f].size
  BY <1>1, <1>3
<1> QED BY <1>1, <1>2, <1>5, <1>6

LEMMA ReadGives ==
  ASSUME VfsInv, op = Idle, NEW fd \in Fds, NEW size \in ReadSizes, Read(fd, size)
  PROVE  \E f, off, n : /\ Reads(fd, f, off, n)
                       /\ n = ToRead(size, dir[f].size - off)
<1>1. fd \in OpenFds
  BY DEF Read
<1>2. PICK f, file, off, n : /\ f = Find(table[fd].name) /\ file = Bytes(f)
                           /\ off = table[fd].offset /\ n = ToRead(size, Len(file) - off)
  OBVIOUS
<1>3. f \in InUse
  BY <1>2, FindIs DEF Read, NamesFindFirst, FindsFirst, VfsInv
<1>4. dir[f].size \in Nat /\ off \in Nat
  BY <1>1, <1>2, <1>3 DEF VfsInv, FsInv, EntriesOK, TableOK
<1>5. PICK S : file \in Seq(S) /\ Len(file) = dir[f].size
  BY <1>2, <1>3, BytesAreSeq DEF VfsInv
<1>6. /\ n > 0
      /\ table' = [table EXCEPT ![fd].offset = @ + n]
      /\ seen' = [seen EXCEPT ![fd].bytes =
                    @ \o [b \in 1 .. n |-> IF off + b <= Len(file) THEN file[off + b] ELSE Blank]]
      /\ UNCHANGED <<dir, disk, op, saved, nodes>>
  BY <1>2 DEF Read, fsvars
<1>7. n \in Nat /\ off + n <= Len(file)
  <2>1. PICK left : left = Len(file) - off
    OBVIOUS
  <2>2. n = (IF size > left THEN left ELSE size) /\ size \in Nat
    BY <1>2, <2>1, VfsAssumption DEF ToRead
  <2>3. Len(file) \in Nat /\ off \in Nat
    BY <1>4, <1>5
  <2> QED BY <1>6, <2>1, <2>2, <2>3
<1>8. [b \in 1 .. n |-> IF off + b <= Len(file) THEN file[off + b] ELSE Blank]
        = SubSeq(file, off + 1, off + n)
  <2>1. SubSeq(file, off + 1, off + n) = [b \in 1 .. n |-> file[off + b]]
    BY <1>4, <1>5, <1>7, SubSeqFrom
  <2>2. \A b \in 1 .. n : off + b <= Len(file)
    BY <1>4, <1>5, <1>7
  <2> QED BY <2>1, <2>2
<1>9. seen' = [seen EXCEPT ![fd].bytes = @ \o SubSeq(file, off + 1, off + n)]
  BY <1>6, <1>8
<1>10. n \in Nat \ {0} /\ off + n <= dir[f].size
  BY <1>5, <1>6, <1>7
<1> QED BY <1>1, <1>2, <1>3, <1>4, <1>5, <1>6, <1>9, <1>10 DEF Reads

LEMMA ReadInv ==
  ASSUME VfsInv, op = Idle, NEW fd \in Fds, NEW size \in ReadSizes, Read(fd, size)
  PROVE  VfsInv'
<1> USE DEF VfsInv
<1>1. PICK f, off, n : Reads(fd, f, off, n)
  BY ReadGives
<1>2. PICK file : file = Bytes(f)
  OBVIOUS
<1>3. /\ fd \in OpenFds /\ f \in InUse /\ f = Find(table[fd].name)
      /\ off = table[fd].offset /\ off \in Nat /\ n \in Nat \ {0}
  BY <1>1 DEF Reads
<1>4. PICK S : file \in Seq(S) /\ Len(file) = dir[f].size /\ dir[f].size \in Nat
  BY <1>2, <1>3, BytesAreSeq
<1>5. off + n <= Len(file)
  BY <1>1, <1>4 DEF Reads
<1>6. /\ table' = [table EXCEPT ![fd].offset = @ + n]
      /\ seen' = [seen EXCEPT ![fd].bytes = @ \o SubSeq(file, off + 1, off + n)]
      /\ UNCHANGED <<dir, disk, op, saved, nodes>>
  BY <1>1, <1>2 DEF Reads
<1>7. Len(SubSeq(file, off + 1, off + n)) = n
  <2>1. off \in Nat /\ n \in Nat /\ off + n <= Len(file)
    BY <1>3, <1>5
  <2> QED BY <1>4, <2>1, SubSeqFrom
<1>8. PICK old, from :
        /\ from \in Nat /\ old = seen[fd].bytes /\ from = seen[fd].from /\ from <= off
        /\ old = SubSeq(file, from + 1, off)
  <2>1. /\ seen[fd].from \in Nat /\ seen[fd].from <= off
        /\ seen[fd].bytes = SubSeq(file, seen[fd].from + 1, off)
    <3>1. CASE seen[fd].bytes = << >>
      <4>1. seen[fd].from = off
        BY <1>3, <3>1 DEF SeenOK
      <4>2. SubSeq(file, off + 1, off) = << >>
        BY <1>3, SubSeqEmpty
      <4> QED BY <1>3, <3>1, <4>1, <4>2
    <3>2. CASE seen[fd].bytes # << >>
      BY <1>2, <1>3, <3>2 DEF SeenOK, Follows
    <3> QED BY <3>1, <3>2
  <2> QED BY <2>1
<1>9. /\ from \in Nat /\ off \in Nat /\ n \in Nat \ {0} /\ Len(file) \in Nat
       /\ from <= off /\ off + n <= Len(file)
  BY <1>3, <1>4, <1>5, <1>8
<1>10. PICK new : /\ new = old \o SubSeq(file, off + 1, off + n)
                  /\ new = SubSeq(file, from + 1, off + n)
                  /\ Len(new) = off + n - from
  <2>1. PICK m, top : m = from + 1 /\ top = off + n
    OBVIOUS
  <2>2. m \in 1 .. Len(file) + 1 /\ off \in m - 1 .. Len(file) /\ top \in off .. Len(file)
    BY <1>9, <2>1
  <2>6. SubSeq(file, m, off) \o SubSeq(file, off + 1, top) = SubSeq(file, m, top)
    BY <1>4, <2>2, ConcatAdjacentSubSeq
  <2>3. PICK k \in Nat : k = off + n - from
    BY <1>9
  <2>4. from + k = off + n /\ from + k <= Len(file)
    BY <1>9, <2>3
  <2>5. Len(SubSeq(file, from + 1, from + k)) = k
    BY <1>4, <1>9, <2>4, SubSeqFrom
  <2> QED BY <1>8, <2>1, <2>3, <2>4, <2>5, <2>6
<1>11. /\ table'[fd] = [table[fd] EXCEPT !.offset = off + n]
       /\ seen'[fd] = [seen[fd] EXCEPT !.bytes = new]
       /\ \A g \in Fds : g # fd => table'[g] = table[g] /\ seen'[g] = seen[g]
       /\ DOMAIN table' = Fds /\ DOMAIN seen' = Fds
  <2>1. seen' = [seen EXCEPT ![fd].bytes = new]
    BY <1>6, <1>8, <1>10
  <2> QED BY <1>3, <1>6, <2>1 DEF TableOK
<1>12. /\ table'[fd].name = table[fd].name /\ table'[fd].node = table[fd].node
       /\ table'[fd].offset = off + n /\ table'[fd].impl = table[fd].impl
       /\ table'[fd] = [name |-> table'[fd].name, node |-> table'[fd].node,
                        offset |-> table'[fd].offset, impl |-> table'[fd].impl]
       /\ seen'[fd].from = from /\ seen'[fd].bytes = new
       /\ seen'[fd] = [from |-> seen'[fd].from, bytes |-> seen'[fd].bytes]
  <2>1. table[fd] = [name |-> table[fd].name, node |-> table[fd].node,
                     offset |-> table[fd].offset, impl |-> table[fd].impl]
    BY <1>3 DEF TableOK
  <2>2. seen[fd] = [from |-> seen[fd].from, bytes |-> seen[fd].bytes]
    BY DEF TableOK
  <2> QED BY <1>8, <1>11, <2>1, <2>2
<1>13. OpenFds' = OpenFds
  <2>1. "node" \in DOMAIN table'[fd]
    BY <1>12
  <2>2. "node" \notin DOMAIN Closed
    BY DEF Closed
  <2> QED BY <1>3, <1>11, <2>1, <2>2 DEF OpenFds
<1>14. FsInv'
  BY <1>6, FsRests
<1>15. TableOK'
  <2>1. off + n \in Nat
    BY <1>3
  <2>2. \A g \in Fds : seen'[g] = [from |-> seen'[g].from, bytes |-> seen'[g].bytes]
    BY <1>11, <1>12 DEF TableOK
  <2>3. ASSUME NEW g \in OpenFds
        PROVE  /\ table'[g] = [name |-> table'[g].name, node |-> table'[g].node,
                               offset |-> table'[g].offset, impl |-> table'[g].impl]
               /\ table'[g].name \in Names /\ table'[g].node \in Node
               /\ table'[g].offset \in Nat /\ table'[g].impl \in Implants
    <3>1. CASE g = fd
      BY <1>3, <1>12, <2>1, <3>1 DEF TableOK
    <3>2. CASE g # fd
      BY <1>11, <3>2 DEF TableOK, OpenFds
    <3> QED BY <3>1, <3>2
  <2> QED BY <1>11, <1>13, <2>2, <2>3 DEF TableOK
<1>16. NodesOwned'
  <2>1. \A g \in OpenFds : table'[g].node = table[g].node
    BY <1>11, <1>12 DEF OpenFds
  <2> QED BY <1>6, <1>13, <2>1 DEF NodesOwned
<1>17. SeenOK'
  <2>1. \A x : Find(x)' = Find(x) /\ Bytes(x)' = Bytes(x)
    BY <1>6 DEF Find, Named, InUse, Bytes, Block
  <2>2. (Follows(fd, Find(table[fd].name)))'
    <3>1. f = Find(table[fd].name)'
      BY <1>3, <1>12, <2>1
    <3>2. (Follows(fd, f))'
      <4>1. f \in InUse' /\ dir' = dir /\ op' = Idle
        BY <1>3, <1>6 DEF InUse
      <4>2. Bytes(f)' = file
        BY <1>2, <2>1
      <4>3. off + n <= dir[f].size /\ from <= off + n
        BY <1>4, <1>5, <1>8, <1>9
      <4> QED BY <1>8, <1>10, <1>12, <4>1, <4>2, <4>3 DEF Follows
    <3> QED BY <3>1, <3>2
  <2>3. ASSUME NEW g \in OpenFds, g # fd
        PROVE  (IF seen[g].bytes = << >> THEN seen[g].from = table[g].offset
                                        ELSE Follows(g, Find(table[g].name)))'
    <3>1. table'[g] = table[g] /\ seen'[g] = seen[g]
      BY <1>11, <2>3 DEF OpenFds
    <3>2. Find(table[g].name)' = Find(table[g].name)
      BY <2>1, <3>1
    <3>3. PICK h : h = Find(table[g].name)
      OBVIOUS
    <3>4. Follows(g, h) => Follows(g, h)'
      BY <1>6, <2>1, <3>1 DEF Follows, InUse
    <3> QED BY <3>1, <3>2, <3>3, <3>4 DEF SeenOK
  <2>4. new # << >>
    <3>1. Len(new) # 0
      BY <1>10, <1>9
    <3>2. Len(<< >>) = 0
      BY EmptySeq
    <3> QED BY <3>1, <3>2
  <2> QED BY <1>12, <1>13, <2>2, <2>3, <2>4 DEF SeenOK
<1> QED BY <1>14, <1>15, <1>16, <1>17

LEMMA WriteInv ==
  ASSUME VfsInv, NEW fd \in Fds, NEW d \in Data, NEW size \in Sizes, Write(fd, d, size)
  PROVE  VfsInv'
<1>1. /\ table[fd].name \in Names /\ WriteFile(table[fd].name, d, size)
      /\ UNCHANGED <<table, nodes, seen>>
  BY DEF VfsInv, TableOK, Write
<1>2. PICK e : e = FirstFree
  OBVIOUS
<1>3. /\ FsInv' /\ e \in Entry \ InUse /\ InUse' = InUse \union {e}
      /\ \A i \in InUse : i < e /\ dir'[i] = dir[i]
      /\ op' = Idle \/ op'.entry = e
  BY <1>1, <1>2, WriteFileInv DEF VfsInv
<1>4. \A i \in InUse, k \in Nat : Block(i, k)' = Block(i, k)
  BY <1>1, <1>3 DEF WriteFile, Block
<1>5. \A i \in InUse, j \in InUse' : j \notin InUse => i < j
  BY <1>3
<1>6. SeenOK'
  BY <1>1, <1>3, <1>4, <1>5, SeenStays
<1> QED BY <1>1, <1>3, <1>6 DEF VfsInv, TableOK, NodesOwned, OpenFds

LEMMA ContinueInv ==
  ASSUME VfsInv, Continue
  PROVE  VfsInv'
<1>1. UNCHANGED <<table, nodes, seen>> /\ WriteSector /\ op # Idle
  BY DEF Continue, WriteSector
<1>2. /\ FsInv' /\ dir' = dir /\ InUse' = InUse
      /\ op' = Idle \/ op'.entry = op.entry
      /\ \A i \in InUse, k \in Nat :
           i # op.entry /\ k < SectorCount(dir[i].size) => Block(i, k)' = Block(i, k)
  BY <1>1, WriteSectorInv DEF VfsInv
<1>3. SeenOK'
  BY <1>1, <1>2, SeenStays
<1> QED BY <1>1, <1>2, <1>3 DEF VfsInv, TableOK, NodesOwned, OpenFds

LEMMA CloseInv ==
  ASSUME VfsInv, NEW fd \in Fds, Close(fd)
  PROVE  VfsInv'
<1> USE DEF VfsInv
<1>1. /\ fd \in OpenFds /\ nodes' = nodes \ {table[fd].node}
      /\ table' = [table EXCEPT ![fd] = Closed]
      /\ UNCHANGED <<dir, disk, op, saved, seen>>
  BY DEF Close, Freed, fsvars
<1>2. FsInv'
  BY <1>1, FsRests
<1>3. OpenFds' = OpenFds \ {fd} /\ \A g \in OpenFds' : table'[g] = table[g]
  BY <1>1 DEF OpenFds, TableOK
<1>4. TableOK' /\ NodesOwned'
  BY <1>1, <1>3 DEF TableOK, NodesOwned
<1>5. SeenOK'
  <2>1. SUFFICES ASSUME NEW g \in OpenFds'
        PROVE  (IF seen[g].bytes = << >> THEN seen[g].from = table[g].offset
                                        ELSE Follows(g, Find(table[g].name)))'
    BY DEF SeenOK
  <2>2. g \in OpenFds /\ table'[g] = table[g] /\ seen'[g] = seen[g]
    BY <1>1, <1>3
  <2>3. PICK f : f = Find(table[g].name)
    OBVIOUS
  <2>4. \A x : Find(x)' = Find(x) /\ Bytes(x)' = Bytes(x)
    BY <1>1 DEF Find, Named, InUse, Bytes, Block
  <2>5. Find(table[g].name)' = f
    BY <2>2, <2>3, <2>4
  <2>6. Follows(g, f) => Follows(g, f)'
    BY <1>1, <2>2, <2>4 DEF Follows, InUse
  <2> QED BY <2>2, <2>3, <2>5, <2>6 DEF SeenOK
<1> QED BY <1>2, <1>4, <1>5

LEMMA ReformatInv ==
  ASSUME VfsInv, Reformat
  PROVE  VfsInv'
<1> USE DEF VfsInv
<1>1. /\ FsInv' /\ UNCHANGED <<table, nodes>> /\ OpenFds' = OpenFds
      /\ seen' = [fd \in Fds |-> IF fd \in OpenFds THEN Nothing(table[fd].offset) ELSE seen[fd]]
  BY FormatInv DEF Reformat, OpenFds
<1>2. TableOK' /\ NodesOwned'
  BY <1>1 DEF TableOK, NodesOwned, Nothing
<1>3. SeenOK'
  BY <1>1 DEF SeenOK, Nothing, OpenFds
<1> QED BY <1>1, <1>2, <1>3

LEMMA PowerLossInv ==
  ASSUME VfsInv, PowerLoss
  PROVE  VfsInv'
<1> USE DEF VfsInv
<1>1. FsInv'
  BY FsRests DEF PowerLoss, Crash
<1>2. OpenFds' = {} /\ nodes' = {} /\ DOMAIN table' = Fds
      /\ seen' = [fd \in Fds |-> Nothing(0)]
  BY DEF PowerLoss, OpenFds
<1>3. TableOK' /\ NodesOwned' /\ SeenOK'
  BY <1>2 DEF TableOK, NodesOwned, SeenOK, Nothing
<1> QED BY <1>1, <1>3

LEMMA NextVfsInv == VfsInv /\ [VfsNext]_vfsvars => VfsInv'
<1> SUFFICES ASSUME VfsInv, [VfsNext]_vfsvars PROVE VfsInv'
  OBVIOUS
<1>1. ASSUME NEW n \in Names, Open(n) PROVE VfsInv'
  BY <1>1, OpenInv
<1>2. ASSUME op = Idle, NEW fd \in Fds, NEW size \in ReadSizes, Read(fd, size) PROVE VfsInv'
  BY <1>2, ReadInv
<1>3. ASSUME NEW fd \in Fds, NEW d \in Data, NEW size \in Sizes, Write(fd, d, size)
      PROVE  VfsInv'
  BY <1>3, WriteInv
<1>4. ASSUME NEW fd \in Fds, Close(fd) PROVE VfsInv'
  BY <1>4, CloseInv
<1>5. CASE Reformat
  BY <1>5, ReformatInv
<1>6. CASE Continue
  BY <1>6, ContinueInv
<1>7. CASE PowerLoss
  BY <1>7, PowerLossInv
<1>8. CASE UNCHANGED vfsvars
  <2>1. UNCHANGED <<dir, disk, op, saved, table, nodes, seen>>
    BY <1>8 DEF vfsvars
  <2>2. FsInv'
    BY <2>1, FsRests DEF VfsInv
  <2>3. InUse' = InUse /\ \A i \in InUse, k \in Nat : Block(i, k)' = Block(i, k)
    BY <2>1 DEF InUse, Block
  <2>4. SeenOK'
    BY <2>1, <2>2, <2>3, SeenStays
  <2> QED BY <2>1, <2>2, <2>4 DEF VfsInv, TableOK, NodesOwned, OpenFds
<1> QED BY <1>1, <1>2, <1>3, <1>4, <1>5, <1>6, <1>7, <1>8 DEF VfsNext, VfsCall

LEMMA SpecVfsInv == VfsSpec => []VfsInv
<1>1. VfsInit => VfsInv
  <2> SUFFICES ASSUME VfsInit PROVE VfsInv
    OBVIOUS
  <2>1. FsInv
    BY FsInitInv DEF VfsInit
  <2>2. OpenFds = {} /\ nodes = {} /\ DOMAIN table = Fds
        /\ seen = [fd \in Fds |-> Nothing(0)]
    BY DEF VfsInit, OpenFds
  <2> QED BY <2>1, <2>2 DEF VfsInv, TableOK, NodesOwned, SeenOK, Nothing
<1> QED BY <1>1, NextVfsInv, PTL DEF VfsSpec

-----------------------------------------------------------------------------
(* Entries, sectors, the write in progress and the descriptors keep their   *)
(* types; no cluster number wraps.                                          *)
THEOREM TypeCorrect == VfsSpec => []VfsTypeOK
<1>1. VfsInv => VfsTypeOK
  BY FsTypes DEF VfsInv, TableOK, NodesOwned, VfsTypeOK
<1> QED BY <1>1, SpecVfsInv, PTL

(* For every disk that has room for its directory full of the longest       *)
(* files: no two files share a sector, a file once written keeps its bytes  *)
(* through every later write, format and power failure, and no file is      *)
(* missed by the search (fs.c, ata.c).                                      *)
THEOREM FilesCorrect == VfsSpec => []FilesSound
<1>1. VfsInv => FilesSound
  BY FilesInv DEF VfsInv
<1> QED BY <1>1, SpecVfsInv, PTL

(* For any number of descriptors: each reads on through its own file, no    *)
(* byte twice and none left out, whatever is written, and each owns a node  *)
(* of its own (vfs.c).                                                      *)
THEOREM DescriptorsCorrect == VfsSpec => []DescriptorsSound
<1>1. ASSUME VfsInv PROVE ReadsInOrder
  <2>1. SUFFICES ASSUME NEW fd \in OpenFds, seen[fd].bytes # << >>
                 PROVE  LET f == Find(table[fd].name) IN
                          /\ table[fd].offset <= dir[f].size
                          /\ seen[fd].bytes = SubSeq(Bytes(f), seen[fd].from + 1, table[fd].offset)
    BY DEF ReadsInOrder
  <2> QED BY <1>1, <2>1 DEF VfsInv, SeenOK, Follows
<1>2. VfsInv => DescriptorsSound
  BY <1>1 DEF VfsInv, DescriptorsSound
<1> QED BY <1>2, SpecVfsInv, PTL

-----------------------------------------------------------------------------
(* The refinement of FileStore.  What a file is to the callers follows from *)
(* its entry and from the history: where its write has ended the disk has   *)
(* what was written.                                                        *)
FileOf(entry, data) ==
  [name |-> entry.name, size |-> entry.size, done |-> data # Blank,
   content |-> IF data = Blank THEN << >> ELSE BytesOf(data, entry.size)]

FilesFromHistory == \A i \in InUse : File(i) = FileOf(dir[i], saved[i])

LEMMA FileIs == FsInv => FilesFromHistory
<1> SUFFICES ASSUME FsInv, NEW i \in InUse PROVE File(i) = FileOf(dir[i], saved[i])
  BY DEF FilesFromHistory
<1>1. saved[i] # Blank => Bytes(i) = BytesOf(saved[i], dir[i].size)
  BY SavedFilesStay DEF SavedStays
<1> QED BY <1>1 DEF File, FileOf

(* Nothing of the store changes while the file system rests.                *)
LEMMA StoreRests ==
  ASSUME UNCHANGED <<dir, disk, op, saved>>
  PROVE  StoredFiles' = StoredFiles /\ Unwritten' = Unwritten
<1>1. InUse' = InUse
  BY DEF InUse
<1>2. \A i \in InUse : File(i)' = File(i)
  BY DEF File, Bytes, Block
<1>3. Unwritten' = Unwritten
  BY DEF Unwritten, BytesOf
<1> QED BY <1>1, <1>2, <1>3 DEF StoredFiles

LEMMA OpenStored ==
  ASSUME VfsInv, op = Idle, NEW n \in Names, Open(n)
  PROVE  Store!Step
<1>1. PICK node, impl, g :
        /\ g = FirstFreeFd
        /\ table' = [table EXCEPT ![g] =
                       [name |-> n, node |-> node, offset |-> 0, impl |-> impl]]
        /\ seen' = [seen EXCEPT ![g] = Nothing(0)]
        /\ UNCHANGED <<dir, disk, op, saved>>
  BY DEF Open, fsvars
<1>2. g \in Fds /\ table[g] = Closed
  <2>1. Fds \ OpenFds \subseteq Nat /\ Fds \ OpenFds # {}
    BY VfsAssumption DEF Open, OpenFds
  <2> QED BY <1>1, <2>1, MinOfNats DEF FirstFreeFd, OpenFds
<1>3. /\ table'[g] = [name |-> n, node |-> node, offset |-> 0, impl |-> impl]
      /\ seen'[g].bytes = << >>
      /\ \A fd \in Fds : fd # g => table'[fd] = table[fd] /\ seen'[fd] = seen[fd]
  BY <1>1, <1>2 DEF VfsInv, TableOK, Nothing
<1>4. table'[g] # Closed
  <2>1. "node" \in DOMAIN table'[g]
    BY <1>3
  <2>2. "node" \notin DOMAIN Closed
    BY DEF Closed
  <2> QED BY <2>1, <2>2
<1>5. Descriptors[g] = Store!Shut /\ Unwritten = Store!None
  BY <1>2 DEF Descriptors, Descriptor, Unwritten, Store!Shut, Store!None
<1>6. Descriptors' = [Descriptors EXCEPT ![g] = [name |-> n, offset |-> 0]]
  <2>1. Descriptor(g)' = [name |-> n, offset |-> 0]
    <3>1. table'[g].name = n /\ table'[g].offset = 0
      BY <1>3
    <3> QED BY <1>4, <3>1 DEF Descriptor
  <2>2. \A fd \in Fds : fd # g => Descriptor(fd)' = Descriptor(fd)
    BY <1>3 DEF Descriptor
  <2> QED BY <1>2, <2>1, <2>2 DEF Descriptors
<1>7. ReadSoFar' = [ReadSoFar EXCEPT ![g] = << >>]
  BY <1>2, <1>3 DEF ReadSoFar
<1>8. Store!Open(g, n)
  BY <1>1, <1>5, <1>6, <1>7, StoreRests DEF Store!Open
<1> QED BY <1>2, <1>8 DEF Store!Step

LEMMA CloseStored ==
  ASSUME VfsInv, op = Idle, NEW fd \in Fds, Close(fd)
  PROVE  Store!Step
<1>1. /\ fd \in OpenFds /\ table' = [table EXCEPT ![fd] = Closed]
      /\ UNCHANGED <<dir, disk, op, saved, seen>>
  BY DEF Close, fsvars
<1>2. Descriptors[fd] # Store!Shut /\ Unwritten = Store!None
  <2>1. "offset" \in DOMAIN Descriptors[fd]
    BY <1>1 DEF Descriptors, Descriptor, OpenFds
  <2>2. "offset" \notin DOMAIN Store!Shut
    BY DEF Store!Shut
  <2> QED BY <2>1, <2>2 DEF Unwritten, Store!None
<1>3. Descriptors' = [Descriptors EXCEPT ![fd] = Store!Shut] /\ ReadSoFar' = ReadSoFar
  BY <1>1 DEF Descriptors, Descriptor, ReadSoFar, Store!Shut, VfsInv, TableOK
<1>4. Store!Close(fd)
  BY <1>1, <1>2, <1>3, StoreRests DEF Store!Close
<1> QED BY <1>4 DEF Store!Step

LEMMA WriteStored ==
  ASSUME VfsInv, op = Idle, NEW fd \in Fds, NEW d \in Data, NEW size \in Sizes,
         Write(fd, d, size)
  PROVE  Store!Step
<1>1. /\ fd \in OpenFds /\ table[fd].name \in Names
      /\ WriteFile(table[fd].name, d, size) /\ UNCHANGED <<table, nodes, seen>>
  BY DEF VfsInv, TableOK, Write
<1>2. PICK e : e = FirstFree
  OBVIOUS
<1>3. PICK n \in Names : n = table[fd].name
  BY <1>1
<1>4. /\ FsInv' /\ e \in Entry \ InUse /\ InUse' = InUse \union {e}
      /\ \A i \in InUse : i < e /\ dir'[i] = dir[i] /\ saved'[i] = saved[i]
      /\ dir'[e].name = Stored[n] /\ dir'[e].size = size
      /\ Begin(e, d, SectorCount(size))
  BY <1>1, <1>2, <1>3, WriteFileInv DEF VfsInv
<1>5. size \in Nat /\ (SectorCount(size) = 0 <=> size = 0) /\ d # Blank
  <2>1. size \in Nat /\ d # Blank
    BY FsAssumption DEF Blank
  <2>2. size = 0 => SectorCount(size) = 0
    BY <2>1, SectorCountBounds
  <2>3. size # 0 => SectorCount(size) # 0
    <3>1. SectorCount(size) \in Nat
          /\ \A b \in 1 .. size : (b - 1) \div SectorSize \in 0 .. SectorCount(size) - 1
      BY <2>1, SectorCountBounds
    <3>2. ASSUME size # 0, SectorCount(size) = 0 PROVE FALSE
      <4>1. size \in 1 .. size
        BY <2>1, <3>2
      <4>2. (size - 1) \div SectorSize \in 0 .. SectorCount(size) - 1
        BY <3>1, <4>1
      <4> QED BY <3>2, <4>2
    <3> QED BY <3>2
  <2> QED BY <2>1, <2>2, <2>3
<1>6. PICK content : content = BytesOf(d, size)
  OBVIOUS
<1>7. Len(content) = size /\ (size = 0 => content = << >>)
  BY <1>5, <1>6 DEF BytesOf
<1>8. \A i \in InUse : File(i)' = File(i)
  <2>1. (FsInv => FilesFromHistory)'
    BY FileIs, PTL
  <2> QED BY <1>4, <2>1, FileIs DEF VfsInv, FilesFromHistory
<1>9. File(e)' = Store!Begun(Stored[n], content)
  <2>1. saved'[e] = IF size = 0 THEN d ELSE Blank
    BY <1>4, <1>5 DEF Begin, VfsInv, FsInv, DiskOK
  <2>2. FilesFromHistory'
    BY <1>4, FileIs, PTL
  <2>3. File(e)' = FileOf(dir'[e], saved'[e])
    BY <1>4, <2>2 DEF FilesFromHistory
  <2> QED BY <1>4, <1>5, <1>6, <1>7, <2>1, <2>3 DEF FileOf, Store!Begun
<1>10. StoredFiles' = [j \in DOMAIN StoredFiles \union {e} |->
                        IF j = e THEN Store!Begun(Stored[n], content) ELSE StoredFiles[j]]
  BY <1>4, <1>8, <1>9 DEF StoredFiles
<1>11. Unwritten = Store!None
  BY DEF Unwritten, Store!None
<1>12. Unwritten' = IF Len(content) = 0 THEN Store!None
                    ELSE [file |-> e, content |-> content]
  <2>1. CASE size = 0
    BY <1>4, <1>5, <1>7, <2>1 DEF Begin, Unwritten, Store!None
  <2>2. CASE size # 0
    <3>1. op' = [entry |-> e, data |-> d, next |-> 0, count |-> SectorCount(size)]
      BY <1>4, <1>5, <2>2 DEF Begin
    <3>2. op'.entry = e /\ op'.data = d /\ op' # Idle
      <4>1. "next" \in DOMAIN op' /\ "next" \notin DOMAIN Idle
        BY <3>1 DEF Idle
      <4> QED BY <3>1, <4>1
    <3>3. Unwritten' = [file |-> op'.entry, content |-> BytesOf(op'.data, dir'[op'.entry].size)]
      BY <3>2 DEF Unwritten, BytesOf
    <3>4. Unwritten' = [file |-> e, content |-> content]
      BY <1>4, <1>6, <3>2, <3>3
    <3> QED BY <1>7, <2>2, <3>4
  <2> QED BY <2>1, <2>2
<1>13. /\ UNCHANGED <<Descriptors, ReadSoFar>>
       /\ Descriptors[fd].name = n /\ Descriptors[fd] # Store!Shut
  <2>1. Descriptors[fd] = [name |-> n, offset |-> table[fd].offset]
    BY <1>1, <1>3 DEF Descriptors, Descriptor, OpenFds
  <2>2. "offset" \in DOMAIN Descriptors[fd] /\ "offset" \notin DOMAIN Store!Shut
    BY <2>1 DEF Store!Shut
  <2>3. UNCHANGED <<Descriptors, ReadSoFar>>
    BY <1>1 DEF Descriptors, Descriptor, ReadSoFar
  <2> QED BY <2>1, <2>2, <2>3
<1>14. Store!Write(fd, content)
  BY <1>4, <1>10, <1>11, <1>12, <1>13 DEF Store!Write, StoredFiles
<1> QED BY <1>6, <1>14 DEF Store!Step

(* Only with the last sector the file is complete, and then all of it.      *)
LEMMA ContinueStored ==
  ASSUME VfsInv, Continue
  PROVE  Store!Step \/ UNCHANGED <<StoredFiles, Unwritten, Descriptors, ReadSoFar>>
<1>1. WriteSector /\ op # Idle /\ UNCHANGED <<table, seen>>
  BY DEF Continue, WriteSector
<1>2. FsInv /\ FsInv' /\ dir' = dir /\ InUse' = InUse
  BY <1>1, WriteSectorInv DEF VfsInv
<1>3. PICK e \in InUse, d \in Contents :
        op.entry = e /\ op.data = d /\ saved[e] = Blank
  BY <1>1, <1>2 DEF FsInv, OpOK
<1>4. UNCHANGED <<Descriptors, ReadSoFar>>
  BY <1>1 DEF Descriptors, Descriptor, ReadSoFar
<1>5. FilesFromHistory /\ FilesFromHistory'
  <2>1. (FsInv => FilesFromHistory)'
    BY FileIs, PTL
  <2> QED BY <1>2, <2>1, FileIs
<1>6. \A i \in InUse : saved'[i] = saved[i] => File(i)' = File(i)
  BY <1>2, <1>5 DEF FilesFromHistory
<1>7. CASE More
  <2>1. /\ op' = [op EXCEPT !.next = @ + 1] /\ saved' = saved
    BY <1>1, <1>7 DEF WriteSector
  <2>2. op'.entry = e /\ op'.data = d /\ op' # Idle
    <3>1. "next" \in DOMAIN op /\ "next" \notin DOMAIN Idle
      BY <1>1, <1>2 DEF FsInv, OpOK, Idle
    <3> QED BY <1>1, <1>2, <1>3, <2>1, <3>1 DEF FsInv, OpOK
  <2>3. Unwritten' = Unwritten
    BY <1>1, <1>2, <1>3, <2>2 DEF Unwritten, BytesOf
  <2>4. StoredFiles' = StoredFiles
    BY <1>2, <1>6, <2>1 DEF StoredFiles
  <2> QED BY <1>4, <2>3, <2>4
<1>8. CASE ~More
  <2>1. op' = Idle /\ saved' = [saved EXCEPT ![e] = d]
    BY <1>1, <1>3, <1>8 DEF WriteSector
  <2>2. saved'[e] = d /\ d # Blank /\ \A i \in InUse : i # e => saved'[i] = saved[i]
    <3>1. d # Blank
      BY FsAssumption DEF Contents, Blank
    <3> QED BY <1>2, <2>1, <3>1 DEF FsInv, DiskOK
  <2>3. PICK content : content = BytesOf(d, dir[e].size)
    OBVIOUS
  <2>4. Unwritten = [file |-> e, content |-> content] /\ Unwritten' = Store!None
    BY <1>1, <1>3, <2>1, <2>3 DEF Unwritten, Store!None
  <2>5. Unwritten # Store!None
    <3>1. "content" \in DOMAIN Unwritten /\ "content" \notin DOMAIN Store!None
      BY <2>4 DEF Store!None
    <3> QED BY <3>1
  <2>6. File(e)' = Store!Completed(File(e), content)
    <3>1. File(e)' = FileOf(dir[e], d)
      BY <1>2, <1>5, <2>2 DEF FilesFromHistory
    <3> QED BY <2>2, <2>3, <3>1 DEF FileOf, File, Store!Completed
  <2>7. StoredFiles' = [StoredFiles EXCEPT ![e] = Store!Completed(@, content)]
    BY <1>2, <1>6, <2>2, <2>6 DEF StoredFiles
  <2>8. Store!Complete
    BY <1>4, <2>4, <2>5, <2>7 DEF Store!Complete
  <2> QED BY <2>8 DEF Store!Step
<1> QED BY <1>7, <1>8

LEMMA ReformatStored ==
  ASSUME VfsInv, op = Idle, Reformat
  PROVE  Store!Step
<1>1. /\ dir' = [i \in Entry |-> IF i = 1 THEN [name |-> GreetingName, size |-> 1, start |-> 1]
                                          ELSE Free]
      /\ op' = [entry |-> 1, data |-> Greeting, next |-> 0, count |-> 1]
      /\ saved' = [i \in {1} |-> Blank] /\ table' = table
      /\ seen' = [fd \in Fds |-> IF fd \in OpenFds THEN Nothing(table[fd].offset)
                                                   ELSE seen[fd]]
  BY DEF Reformat, Format
<1>2. 1 \in Entry
  BY FsAssumption DEF Entry
<1>3. dir'[1] = [name |-> GreetingName, size |-> 1, start |-> 1] /\ InUse' = {1}
  BY <1>1, <1>2 DEF InUse, Free
<1>4. PICK content : content = BytesOf(Greeting, 1)
  OBVIOUS
<1>5. Len(content) = 1
  BY <1>4 DEF BytesOf
<1>6. File(1)' = Store!Begun(GreetingName, content)
  BY <1>1, <1>3, <1>5 DEF File, Store!Begun
<1>7. StoredFiles' = [i \in {1} |-> Store!Begun(GreetingName, content)]
  BY <1>3, <1>6 DEF StoredFiles
<1>8. Unwritten = Store!None /\ Unwritten' = [file |-> 1, content |-> content]
  <2>1. op' # Idle
    <3>1. "next" \in DOMAIN op' /\ "next" \notin DOMAIN Idle
      BY <1>1 DEF Idle
    <3> QED BY <3>1
  <2>2. op'.entry = 1 /\ op'.data = Greeting /\ dir'[1].size = 1
    BY <1>1, <1>3
  <2>3. Unwritten' = [file |-> op'.entry, content |-> BytesOf(op'.data, dir'[op'.entry].size)]
    BY <2>1 DEF Unwritten, BytesOf
  <2>4. Unwritten = Store!None
    BY DEF Unwritten, Store!None
  <2> QED BY <1>4, <2>2, <2>3, <2>4
<1>9. Descriptors' = Descriptors
  BY <1>1 DEF Descriptors, Descriptor
<1>10. ReadSoFar' = [fd \in Fds |-> IF Descriptors[fd] = Store!Shut THEN ReadSoFar[fd] ELSE << >>]
  <2>1. ASSUME NEW fd \in Fds
        PROVE  seen'[fd].bytes = IF Descriptors[fd] = Store!Shut THEN seen[fd].bytes ELSE << >>
    <3>1. CASE table[fd] = Closed
      BY <1>1, <3>1 DEF Descriptors, Descriptor, Store!Shut, OpenFds
    <3>2. CASE table[fd] # Closed
      <4>1. "offset" \in DOMAIN Descriptors[fd] /\ "offset" \notin DOMAIN Store!Shut
        BY <3>2 DEF Descriptors, Descriptor, Store!Shut
      <4>2. seen'[fd].bytes = << >>
        BY <1>1, <3>2 DEF OpenFds, Nothing
      <4> QED BY <4>1, <4>2
    <3> QED BY <3>1, <3>2
  <2> QED BY <2>1 DEF ReadSoFar
<1>11. Store!Format
  BY <1>4, <1>7, <1>8, <1>9, <1>10 DEF Store!Format
<1> QED BY <1>11 DEF Store!Step

LEMMA PowerLossStored ==
  ASSUME VfsInv, PowerLoss
  PROVE  Store!Step
<1>1. /\ op # Idle /\ op' = Idle /\ UNCHANGED <<dir, disk, saved>>
      /\ table' = [fd \in Fds |-> Closed] /\ seen' = [fd \in Fds |-> Nothing(0)]
  BY DEF PowerLoss, Crash
<1>2. Unwritten # Store!None /\ Unwritten' = Store!None
  <2>1. "content" \in DOMAIN Unwritten /\ "content" \notin DOMAIN Store!None
    BY <1>1 DEF Unwritten, Store!None
  <2> QED BY <1>1, <2>1 DEF Unwritten, Store!None
<1>3. StoredFiles' = StoredFiles
  <2>1. InUse' = InUse
    BY <1>1 DEF InUse
  <2>2. \A i \in InUse : File(i)' = File(i)
    BY <1>1 DEF File, Bytes, Block
  <2> QED BY <2>1, <2>2 DEF StoredFiles
<1>4. Descriptors' = [fd \in Fds |-> Store!Shut] /\ ReadSoFar' = [fd \in Fds |-> << >>]
  BY <1>1 DEF Descriptors, Descriptor, Store!Shut, ReadSoFar, Nothing
<1>5. Store!PowerLoss
  BY <1>2, <1>3, <1>4 DEF Store!PowerLoss
<1> QED BY <1>5 DEF Store!Step

(* Whatever comes before and in between, the bytes that are read are those  *)
(* of the oldest file of that name.                                         *)
LEMMA ReadStored ==
  ASSUME VfsInv, op = Idle, NEW fd \in Fds, NEW size \in ReadSizes, Read(fd, size)
  PROVE  Store!Step
<1>1. PICK f, off, n : Reads(fd, f, off, n) /\ n = ToRead(size, dir[f].size - off)
  BY ReadGives
<1>2. /\ fd \in OpenFds /\ f \in InUse /\ f = Find(table[fd].name)
      /\ off = table[fd].offset /\ off \in Nat
      /\ n \in Nat \ {0} /\ off + n <= dir[f].size
      /\ UNCHANGED <<dir, disk, op, saved>>
  BY <1>1 DEF Reads
<1>3. PICK name \in Names : name = table[fd].name
  BY <1>2 DEF VfsInv, TableOK
<1>4. PICK file : file = Bytes(f)
  OBVIOUS
<1>5. PICK S : file \in Seq(S) /\ Len(file) = dir[f].size /\ dir[f].size \in Nat
  BY <1>2, <1>4, BytesAreSeq DEF VfsInv
<1>6. PICK part \in Seq(S) : /\ part = SubSeq(file, off + 1, off + n)
                            /\ part = [b \in 1 .. n |-> file[off + b]]
                            /\ Len(part) = n
  <2>1. /\ SubSeq(file, off + 1, off + n) = [b \in 1 .. n |-> file[off + b]]
        /\ Len(SubSeq(file, off + 1, off + n)) = n
    <3>1. off \in Nat /\ n \in Nat /\ off + n <= Len(file)
      BY <1>2, <1>5
    <3> QED BY <1>5, <3>1, SubSeqFrom
  <2>2. PICK c \in Nat : c = off + n /\ off <= c /\ c <= Len(file)
    BY <1>2, <1>5
  <2>3. SubSeq(file, off + 1, c) \in Seq(S)
    BY <1>2, <1>5, <2>2, PartInSeq
  <2> QED BY <2>1, <2>2, <2>3
<1>7. PICK old \in Seq(S) : old = seen[fd].bytes
  <2>1. CASE seen[fd].bytes = << >>
    BY <2>1, EmptySeq
  <2>2. CASE seen[fd].bytes # << >>
    <3>1. Follows(fd, f)
      BY <1>2, <2>2 DEF VfsInv, SeenOK
    <3>2. PICK from \in Nat : /\ from = seen[fd].from /\ from <= off
                             /\ seen[fd].bytes = SubSeq(file, from + 1, off)
      BY <1>2, <1>4, <3>1 DEF Follows
    <3>3. off <= Len(file)
      BY <1>2, <1>5
    <3>4. SubSeq(file, from + 1, off) \in Seq(S)
      BY <1>2, <1>5, <3>2, <3>3, PartInSeq
    <3> QED BY <3>2, <3>4
  <2> QED BY <2>1, <2>2
<1>8. Unwritten = Store!None
  BY DEF Unwritten, Store!None
<1>9. f \in Store!Called(name) /\ Min(Store!Called(name)) = f
  <2>1. \A i \in InUse : StoredFiles[i].name = dir[i].name
    BY DEF StoredFiles, File
  <2>2. Store!Called(name) = {i \in InUse : Fold[dir[i].name] = Fold[name]}
    BY <2>1 DEF Store!Called, StoredFiles
  <2>3. FindsFirst(name)
    BY FindIs DEF VfsInv, NamesFindFirst
  <2>4. InUse \subseteq Nat \ {0}
    BY FsAssumption DEF InUse, Entry
  <2>5. f \in Store!Called(name) /\ \A i \in Store!Called(name) : f <= i
    BY <1>2, <1>3, <2>2, <2>3, <2>4 DEF FindsFirst
  <2>6. PICK T \in SUBSET Nat : T = Store!Called(name)
    BY <2>2, <2>4
  <2>7. Min(T) \in T /\ Min(T) <= f
    BY <2>5, <2>6, MinOfNats
  <2> QED BY <2>5, <2>6, <2>7
<1>10. Descriptors[fd] = [name |-> name, offset |-> off] /\ Descriptors[fd] # Store!Shut
  <2>1. Descriptors[fd] = [name |-> name, offset |-> off]
    BY <1>2, <1>3 DEF Descriptors, Descriptor, OpenFds
  <2>2. "offset" \in DOMAIN Descriptors[fd] /\ "offset" \notin DOMAIN Store!Shut
    BY <2>1 DEF Store!Shut
  <2> QED BY <2>1, <2>2
<1>11. StoredFiles[f] = File(f) /\ File(f).size = dir[f].size
       /\ File(f).done = (saved[f] # Blank) /\ (saved[f] # Blank => File(f).content = file)
  BY <1>2, <1>4 DEF StoredFiles, File
<1>12. /\ table'[fd].name = name /\ table'[fd].offset = off + n /\ table'[fd] # Closed
       /\ \A g \in Fds : g # fd => table'[g] = table[g] /\ seen'[g] = seen[g]
       /\ seen'[fd].bytes = old \o part
  <2>1. /\ table' = [table EXCEPT ![fd].offset = @ + n]
        /\ seen' = [seen EXCEPT ![fd].bytes = @ \o part]
    BY <1>1, <1>4, <1>6 DEF Reads
  <2>2. table[fd] = [name |-> table[fd].name, node |-> table[fd].node,
                     offset |-> table[fd].offset, impl |-> table[fd].impl]
    BY <1>2 DEF VfsInv, TableOK
  <2>3. seen[fd] = [from |-> seen[fd].from, bytes |-> seen[fd].bytes]
    BY DEF VfsInv, TableOK
  <2>4. table'[fd] = [table[fd] EXCEPT !.offset = off + n]
        /\ seen'[fd] = [seen[fd] EXCEPT !.bytes = old \o part]
        /\ \A g \in Fds : g # fd => table'[g] = table[g] /\ seen'[g] = seen[g]
    BY <1>2, <1>7, <2>1 DEF VfsInv, TableOK
  <2>5. "node" \in DOMAIN table'[fd] /\ "node" \notin DOMAIN Closed
    BY <2>2, <2>4 DEF Closed
  <2> QED BY <1>2, <1>3, <2>2, <2>3, <2>4, <2>5
<1>13. Descriptors' = [Descriptors EXCEPT ![fd].offset = @ + n]
  <2>1. Descriptor(fd)' = [name |-> name, offset |-> off + n]
    BY <1>12 DEF Descriptor
  <2>2. \A g \in Fds : g # fd => Descriptor(g)' = Descriptor(g)
    BY <1>12 DEF Descriptor
  <2>3. [Descriptors[fd] EXCEPT !.offset = @ + n] = [name |-> name, offset |-> off + n]
    BY <1>10
  <2> QED BY <2>1, <2>2, <2>3 DEF Descriptors
<1>14. Store!Following(fd, File(f), n) = part
  <2>1. CASE saved[f] # Blank
    <3>1. Descriptors[fd].offset = off
      BY <1>10
    <3>2. File(f).done /\ File(f).content = file
      BY <1>11, <2>1
    <3>3. PICK whole : whole = File(f) /\ whole.done /\ whole.content = file
      BY <3>2
    <3>4. Store!Following(fd, whole, n) = [b \in 1 .. n |-> file[off + b]]
      BY <3>1, <3>3 DEF Store!Following
    <3>5. part = [b \in 1 .. n |-> file[off + b]]
      BY <1>6
    <3> QED BY <3>3, <3>4, <3>5
  <2>2. CASE saved[f] = Blank
    <3>1. ReadSoFar'[fd] = old \o part /\ ReadSoFar[fd] = old
      BY <1>7, <1>12 DEF ReadSoFar
    <3>2. ASSUME NEW b \in 1 .. n PROVE (old \o part)[Len(old) + b] = part[b]
      <4>1. /\ Len(old) \in Nat /\ b \in Nat /\ 1 <= b /\ b <= Len(part)
        <5>1. n \in Nat /\ Len(part) = n
          BY <1>2, <1>6
        <5>2. Len(old) \in Nat
          BY LenProperties
        <5> QED BY <5>1, <5>2
      <4>2. PICK i : i = Len(old) + b /\ i \in 1 .. Len(old) + Len(part) /\ ~(i <= Len(old))
        BY <1>6, <4>1
      <4>3. (old \o part)[i] = part[i - Len(old)]
        BY <4>2, ConcatProperties
      <4> QED BY <4>1, <4>2, <4>3
    <3>3. [b \in 1 .. n |-> (old \o part)[Len(old) + b]] = part
      BY <1>6, <3>2
    <3> QED BY <1>11, <2>2, <3>1, <3>3 DEF Store!Following
  <2> QED BY <2>1, <2>2
<1>15. ReadSoFar' = [ReadSoFar EXCEPT ![fd] = @ \o part]
  BY <1>7, <1>12 DEF ReadSoFar
<1>16. n = (IF size > dir[f].size - off THEN dir[f].size - off ELSE size)
       /\ off < dir[f].size /\ n > 0
  <2>1. n \in Nat \ {0} /\ off \in Nat /\ dir[f].size \in Nat /\ off + n <= dir[f].size
    BY <1>2, <1>5
  <2>2. off < dir[f].size /\ n > 0
    BY <2>1
  <2> QED BY <1>1, <2>2 DEF ToRead
<1>17. Store!Min(Store!Called(name)) = f
  BY <1>9 DEF Store!Min, Min
<1>18. PICK found : found = File(f)
  OBVIOUS
<1>19. /\ StoredFiles[Store!Min(Store!Called(Descriptors[fd].name))] = found
       /\ Store!Called(Descriptors[fd].name) # {}
       /\ Descriptors[fd].offset < found.size
       /\ n = IF size > found.size - Descriptors[fd].offset
               THEN found.size - Descriptors[fd].offset ELSE size
  <2>1. Descriptors[fd].name = name /\ Descriptors[fd].offset = off /\ found.size = dir[f].size
    BY <1>10, <1>11, <1>18
  <2> QED BY <1>9, <1>11, <1>16, <1>17, <1>18, <2>1
<1>20. ReadSoFar' = [ReadSoFar EXCEPT ![fd] = @ \o Store!Following(fd, found, n)]
  BY <1>14, <1>15, <1>18
<1>21. UNCHANGED <<StoredFiles, Unwritten>>
  BY <1>2, StoreRests
<1>22. Store!Read(fd, size)
  BY <1>8, <1>10, <1>13, <1>16, <1>19, <1>20, <1>21 DEF Store!Read
<1> QED BY <1>22 DEF Store!Step

LEMMA StoreStep ==
  VfsInv /\ [VfsNext]_vfsvars => [Store!Step]_Store!store
<1> SUFFICES ASSUME VfsInv, [VfsNext]_vfsvars
             PROVE  Store!Step \/ UNCHANGED <<StoredFiles, Unwritten, Descriptors, ReadSoFar>>
  BY DEF Store!store
<1>1. ASSUME op = Idle, VfsCall PROVE Store!Step
  <2>1. ASSUME NEW n \in Names, Open(n) PROVE Store!Step
    BY <1>1, <2>1, OpenStored
  <2>2. ASSUME NEW fd \in Fds, NEW size \in ReadSizes, Read(fd, size) PROVE Store!Step
    BY <1>1, <2>2, ReadStored
  <2>3. ASSUME NEW fd \in Fds, NEW d \in Data, NEW size \in Sizes, Write(fd, d, size)
        PROVE  Store!Step
    BY <1>1, <2>3, WriteStored
  <2>4. ASSUME NEW fd \in Fds, Close(fd) PROVE Store!Step
    BY <1>1, <2>4, CloseStored
  <2>5. CASE Reformat
    BY <1>1, <2>5, ReformatStored
  <2> QED BY <1>1, <2>1, <2>2, <2>3, <2>4, <2>5 DEF VfsCall
<1>2. CASE Continue
  BY <1>2, ContinueStored
<1>3. CASE PowerLoss
  BY <1>3, PowerLossStored
<1>4. CASE UNCHANGED vfsvars
  <2>1. UNCHANGED <<dir, disk, op, saved, table, seen>>
    BY <1>4 DEF vfsvars
  <2>2. UNCHANGED <<Descriptors, ReadSoFar>>
    BY <2>1 DEF Descriptors, Descriptor, ReadSoFar
  <2> QED BY <2>1, <2>2, StoreRests
<1> QED BY <1>1, <1>2, <1>3, <1>4 DEF VfsNext

(* For every directory, disk and set of names, and any number of            *)
(* descriptors: what vfs.c, fs.c and ata.c do is what a store of whole      *)
(* files does.  A file that was written is complete with its last sector,   *)
(* is read as it was written, under the oldest entry of its name, and goes  *)
(* only when the disk is formatted.                                         *)
THEOREM StoreImplemented == VfsSpec => FilesAsStored
<1>1. VfsInit => Store!Init
  <2> SUFFICES ASSUME VfsInit PROVE Store!Init
    OBVIOUS
  <2>1. InUse = {} /\ op = Idle
    BY DEF VfsInit, FsInit, InUse
  <2>2. StoredFiles = << >>
    BY <2>1 DEF StoredFiles
  <2>3. /\ Descriptors = [fd \in Fds |-> Store!Shut]
        /\ ReadSoFar = [fd \in Fds |-> << >>]
    BY DEF VfsInit, Descriptors, Descriptor, ReadSoFar, Nothing, Store!Shut
  <2> QED BY <2>1, <2>2, <2>3 DEF Store!Init, Store!None, Unwritten
<1> QED BY <1>1, SpecVfsInv, StoreStep, PTL DEF VfsSpec, FilesAsStored, Store!Spec
=============================================================================
