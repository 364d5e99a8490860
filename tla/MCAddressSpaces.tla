-------------------------- MODULE MCAddressSpaces --------------------------
(* AddressSpaces for TLC: pages of two bytes, page tables of two entries.   *)
(* Of the 12 pages 0 and 1 are the identity map, 2 to 5 user code and heap, *)
(* 6 and 7 shared memory, 8 create_user_process's stack and 10 the loader's *)
(* (so each has a page table of its own); sbrk stops before page 8 or 10.   *)
EXTENDS AddressSpaces, TLC

(* Two segments on pages of their own, the second ending inside its page.   *)
ApartImages == {<< <<4, 6>>, <<6, 7>> >>}

(* Growth by less than a page, by more than one, and by minus two pages. *)
SomeIncrements == {1, 3, 20}

KeySymmetry == Permutations(Keys)
=============================================================================
