------------------------------- MODULE MC_FAT32 -------------------------------
(***************************************************************************)
(* A ramfs of 2-byte sectors, one sector per cluster, two clusters of      *)
(* reserved and FAT sectors, and data clusters 2..8:                       *)
(*   2  root: the volume label, file A (3 bytes, clusters 3 and 4),        *)
(*      directory D (cluster 5) and the empty file E (no cluster);        *)
(*   5  D: ".", "..", and file b1b2 (2 bytes, cluster 6) whose long name   *)
(*      is spelt by the two LONG_NAME slots before its short entry.        *)
(*   7, 8  free, for write_file to allocate.                               *)
(* A cluster holds five directory slots.                                   *)
(* Byte values, the short names' padding and the long names' checksums    *)
(* play no part in the read path and are left out.                        *)
(***************************************************************************)
EXTENDS FAT32

EOC == 268435455     \* 0x0FFFFFFF, what mkfs.fat writes to end a chain

S(a, n, l, f, sz) == [attr |-> a, name |-> n, lfn |-> l, first |-> f, size |-> sz]
Free == S(0, "", <<>>, 0, 0)
LongName(piece) == S(15, piece, <<>>, 0, 0)

MCImage ==
  [fat |-> (0 :> 268435448) @@ (1 :> EOC) @@ (2 :> EOC) @@ (3 :> 4) @@ (4 :> EOC)
             @@ (5 :> EOC) @@ (6 :> EOC) @@ (7 :> 0) @@ (8 :> 0),
   dir |-> (2 :> <<S(8, "VOL", <<>>, 0, 0), S(32, "A", <<>>, 3, 3), S(16, "D", <<>>, 5, 0), S(32, "E", <<>>, 0, 0), Free>>)
        @@ (3 :> [k \in 1..5 |-> Free])
        @@ (4 :> [k \in 1..5 |-> Free])
        @@ (5 :> <<S(16, ".", <<>>, 5, 0), S(16, "..", <<>>, 0, 0),
                   LongName("b2"), LongName("b1"), S(32, "B1B2~1", <<"b1", "b2">>, 6, 2)>>)
        @@ (6 :> [k \in 1..5 |-> Free])
        @@ (7 :> [k \in 1..5 |-> Free])
        @@ (8 :> [k \in 1..5 |-> Free])]

\* create_dir or create_file of N: in the full directory D, at the root,
\* inside the file A, and inside the empty file E.
MCCreatePaths == {<< <<"D">>, <<"N">> >>, << <<"N">> >>, << <<"A">>, <<"N">> >>, << <<"E">>, <<"N">> >>}

MCPaths == {<< <<"A">> >>, << <<"D">> >>, << <<"D">>, <<"b1", "b2">> >>, << <<"C">> >>, << <<"E">> >>}
==============================================================================
