-------------------------------- MODULE MCVfs --------------------------------
(* Vfs for TLC: the formatted disk's file under small letters and a name    *)
(* that is too long, so stored under a shorter one; sectors of two bytes.   *)
EXTENDS Vfs, TLC

TwoNames == {"selam.txt", "uzunisimli.txt"}
StoredForms ==
  [n \in TwoNames |-> IF n = "uzunisimli.txt" THEN "uzunisim" ELSE n]
Folded ==
  [n \in TwoNames \union {"uzunisim", "SELAM.TXT"} |->
     IF n = "selam.txt" THEN "SELAM.TXT" ELSE n]

(* An open descriptor reads on through its file and owns its node.          *)
DescriptorsSound == ReadsInOrder /\ NodesOwned

(* The files of the disk keep apart, keep their bytes and are found, after  *)
(* any writes and power failures.                                           *)
FilesSound == ExtentsDisjoint /\ SavedStays /\ EveryFileFound

(* Bound: a second descriptor is open only on a disk of two files, with      *)
(* nothing in the sectors behind those that two files can fill.              *)
OneAtATime == Cardinality(OpenFds) <= 1
TwoFiles == Cardinality(InUse) <= 2 /\ \A s \in 6 .. Sectors - 1 : disk[s] = Blank
FewAtOnce == OneAtATime \/ TwoFiles
MCVfsSpec == VfsInit /\ [][VfsNext /\ FewAtOnce']_vfsvars

NodeSymmetry == Permutations(Node)
=============================================================================
