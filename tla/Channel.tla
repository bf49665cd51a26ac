------------------------------- MODULE Channel -------------------------------
(***************************************************************************)
(* What a pipe promises its endpoints (spec 4.8): a FIFO of at most Cap    *)
(* bytes shared by reader and writer endpoints. A write with no reader     *)
(* fails with EPIPE; otherwise it appends as many bytes as fit and returns *)
(* that count, or EFULL if it asked for n > 0 and none fit. A read removes  *)
(* up to n bytes from the front; when it gets none and no writer is left   *)
(* it returns EEOF. The channel is destroyed with its last endpoint.       *)
(* Bytes are numbered in writing order: `sent` counts the bytes written    *)
(* and `delivered` lists the bytes readers have received.                  *)
(***************************************************************************)
EXTENDS Integers, Sequences

CONSTANTS Cap, Sizes, EEOF, EPIPE, EFULL, ENONE

VARIABLES chan, open, readers, writers, sent, delivered, ret

cvars == <<chan, open, readers, writers, sent, delivered, ret>>

Least(a, b) == IF a < b THEN a ELSE b

Init == /\ chan = <<>> /\ open = FALSE /\ readers = 0 /\ writers = 0
        /\ sent = 0 /\ delivered = <<>> /\ ret = ENONE

Create == /\ ~open
          /\ open' = TRUE /\ chan' = <<>> /\ readers' = 1 /\ writers' = 1
          /\ sent' = 0 /\ delivered' = <<>> /\ ret' = ENONE

Write(n) ==
  /\ open /\ writers > 0
  /\ IF readers = 0
     THEN ret' = EPIPE /\ UNCHANGED <<chan, sent>>
     ELSE LET k == Least(n, Cap - Len(chan)) IN
          /\ chan' = chan \o [i \in 1..k |-> sent + i]
          /\ sent' = sent + k
          /\ ret' = IF n > 0 /\ k = 0 THEN EFULL ELSE k
  /\ UNCHANGED <<open, readers, writers, delivered>>

Read(n) ==
  /\ open /\ readers > 0
  /\ LET k == Least(n, Len(chan)) IN
     /\ chan' = SubSeq(chan, k + 1, Len(chan))
     /\ delivered' = delivered \o SubSeq(chan, 1, k)
     /\ ret' = IF k = 0 /\ writers = 0 THEN EEOF ELSE k
  /\ UNCHANGED <<open, readers, writers, sent>>

AddEnd == /\ open
          /\ \/ readers > 0 /\ readers' = readers + 1 /\ UNCHANGED writers
             \/ writers > 0 /\ writers' = writers + 1 /\ UNCHANGED readers
          /\ UNCHANGED <<chan, open, sent, delivered, ret>>

DropEnd == /\ open
           /\ \/ readers > 0 /\ readers' = readers - 1 /\ UNCHANGED writers
              \/ writers > 0 /\ writers' = writers - 1 /\ UNCHANGED readers
           /\ open' = (readers' + writers' > 0)
           /\ UNCHANGED <<chan, sent, delivered, ret>>

Next == Create \/ (\E n \in Sizes : Write(n) \/ Read(n)) \/ AddEnd \/ DropEnd

Spec == Init /\ [][Next]_cvars
=============================================================================
