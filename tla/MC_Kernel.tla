------------------------------ MODULE MC_Kernel ------------------------------
(***************************************************************************)
(* Model-checking instance of Kernel: three processes (pid 0 and two      *)
(* clones), four address spaces (boot, and up to three exec's), signal 17 *)
(* (the child-termination signal, the only one the test program uses) and *)
(* 64, the first out-of-range signal number.                              *)
(***************************************************************************)
EXTENDS Kernel

MCSignals == {17, 64}

=============================================================================
