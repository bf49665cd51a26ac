------------------------------- MODULE MC_Files ------------------------------
(* Files with two Process slots, five tree nodes per table (the three      *)
(* standard streams, a pipe's two ends and no more), six FileContexts, one *)
(* pipe, and close/fddup on descriptors 0 to 4.                            *)
EXTENDS Files

MCProcs   == {1, 2}
MCNodeIds == 1..5
MCCtxIds  == 1..6
MCPipeIds == {1}
MCFds     == 0..4

=============================================================================
