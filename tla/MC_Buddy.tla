------------------------------- MODULE MC_Buddy -------------------------------
(***************************************************************************)
(* Model-checking instance of Buddy: a block map of 8 blocks of 4 bytes,  *)
(* every block AVAILABLE, and request sizes that hit each order, a size   *)
(* that needs rounding up, a size larger than all memory, and size 0.     *)
(***************************************************************************)
EXTENDS Buddy

MCAvailBlocks == 0..7
MCReqSizes == {0, 4, 5, 9, 32, 33}
=============================================================================
