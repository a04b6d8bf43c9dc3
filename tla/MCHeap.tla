------------------------------- MODULE MCHeap -------------------------------
(* An instance of Heap for TLC: frames of eight units, three of them in the  *)
(* range and four to be had; the larger request needs two.                   *)
EXTENDS Heap

MCKernelFrames == {0}
MCRequest == {4, 9}
=============================================================================
