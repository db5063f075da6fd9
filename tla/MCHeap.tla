------------------------------- MODULE MCHeap -------------------------------
(* The allocator for TLC: a heap of ten units of two bytes that starts at  *)
(* an odd address, a size_t of six bits, and one task in the reset.        *)
EXTENDS Heap

CONSTANT t1
=============================================================================
