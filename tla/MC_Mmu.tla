-------------------------------- MODULE MC_Mmu --------------------------------
(***************************************************************************)
(* Model-checking instance of Mmu.  Tables of 3 entries give two user     *)
(* regions of 9 pages below the table window (vpn 18..26).  32 frames,    *)
(* frame 0 (the kernel image) not available.  Pages are 4 bytes.  The   *)
(* program has a text segment of one page at byte 4, a data segment of 6 *)
(* bytes at 6 that starts inside the text's page, and a 4-byte segment   *)
(* at 13 that starts one byte into an unmapped page; the 4-page stack is *)
(* vpn 14..17, the last pages below the                                   *)
(* window, whose 16-byte reserve can fail after the tables were filled.   *)
(* mmap and munmap get a page of a region that has tables (vpn 3), a      *)
(* two-page range crossing into the other region (vpn 8), and size 0.     *)
(***************************************************************************)
EXTENDS Mmu

MCAvailBlocks == 1..31
MCNOMEM == -1
MCProgram == << [vaddr |-> 4, size |-> 4], [vaddr |-> 6, size |-> 6],
                [vaddr |-> 13, size |-> 4] >>
MCMapArgs == {[vpn |-> 3, size |-> 4], [vpn |-> 8, size |-> 8], [vpn |-> 12, size |-> 0]}
=============================================================================
