---------------------------- MODULE MC_MemoryMap ----------------------------
(***************************************************************************)
(* Model-checking instance of MemoryMap: three place() calls of regions   *)
(* of types AVAILABLE, UNAVAILABLE and MMIO, at locations 0..3 with sizes *)
(* 1..3, so that regions nest, overlap at either end, touch, and share a  *)
(* location, in every order.                                              *)
(***************************************************************************)
EXTENDS MemoryMap

MCTypes == {1, 2, 3}
=============================================================================
