--------------------------- MODULE MC_InitProgram ---------------------------
(***************************************************************************)
(* Model-checking instance of InitProgram: main (pid 0) and up to three   *)
(* threads it clones, one address space (the program never execs), and  *)
(* the one signal the program uses, SIGCHLD.                              *)
(***************************************************************************)
EXTENDS InitProgram

MCSignals == {17}
=============================================================================
