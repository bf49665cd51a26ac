---------------------------- MODULE MC_ProgramArgs ----------------------------
(***************************************************************************)
(* Model-checking instance of ProgramArgs: up to two arguments and two    *)
(* environment strings of strlen 0 (all padding), 7 (one 16-byte slot)   *)
(* and 15 (a slot the terminator fills exactly), so both pads and the     *)
(* odd and even counts occur.                                             *)
(***************************************************************************)
EXTENDS ProgramArgs

MCLengths == {0, 7, 15}
=============================================================================
