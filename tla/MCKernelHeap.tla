---------------------------- MODULE MCKernelHeap ----------------------------
(* KernelHeap for TLC: pages of eight bytes, a header of two, requests     *)
(* rounded to two.  Three or four frames make a heap that fills up, splits *)
(* down to a header and one unit, and runs out of frames.                  *)
EXTENDS KernelHeap
=============================================================================
