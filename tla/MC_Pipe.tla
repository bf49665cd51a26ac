-------------------------------- MODULE MC_Pipe --------------------------------
(***************************************************************************)
(* Model-checking instance of the two byte-stream FileContexts that        *)
(* syscall_read and syscall_write reach besides files: a pipe and the      *)
(* UART. They share no state, so Init picks one of them and the behaviours *)
(* of each are checked on their own (the state space is the sum, not the  *)
(* product, of the two).                                                   *)
(*                                                                         *)
(* Pipe: a 4-slot ring (3 bytes of capacity), reads and writes of 0, 1    *)
(* and 3 bytes, up to 6 bytes per pipe so that both positions wrap, and up *)
(* to 2 endpoints of each kind.                                            *)
(*                                                                         *)
(* UART: a 3-byte ring, a 2-byte FIFO and 7 received bytes, so that       *)
(* bufferIndex wraps twice and a context can fall 1, 2 or 3 (= bufferSize) *)
(* bytes behind; two contexts, reads of 1 and 3 bytes, and a write of a    *)
(* newline and a character.                                                *)
(***************************************************************************)
EXTENDS Pipe

CONSTANTS c1, c2

VARIABLES device, ring, bufferIndex, fifo, received, contexts, pos, seen,
          got, tx, result

MCSizes == {0, 1, 3}

U == INSTANCE UART WITH BufferSize <- 3, FifoDepth <- 2, MaxRx <- 7,
       Ctxs <- {c1, c2}, ReadSizes <- {1, 3},
       WriteBufs <- {<<"nl", "ch">>}

uartVars == <<ring, bufferIndex, fifo, received, contexts, pos, seen, got,
              tx, result>>

MCInit == device \in {"pipe", "uart"} /\ Init /\ U!Init

MCNext ==
  \/ device = "pipe" /\ Next /\ UNCHANGED <<device, uartVars>>
  \/ device = "uart" /\ U!Next /\ UNCHANGED <<device, vars>>

MCSpec == MCInit /\ [][MCNext]_<<device, vars, uartVars>>

\* The UART's type invariant.
UartTypeOK == U!TypeOK

\* A UARTContext less than bufferSize bytes behind the receive interrupt
\* reads exactly the bytes received since the last one it returned (see
\* UART!NoLossWithinCapacity).
NoLossWithinCapacity == U!NoLossWithinCapacity

\* UARTContext::read returns consecutive received bytes newer than any the
\* context returned before (see UART!ReadsInOrder).
ReadsInOrder == U!ReadsInOrder
=============================================================================
