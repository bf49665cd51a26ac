--------------------------------- MODULE UART ---------------------------------
(***************************************************************************)
(* The PL011 driver of src/src/devices/uart.cpp: the 4096-byte receive     *)
(* ring that the receive interrupt fills from the hardware FIFO, and the   *)
(* UARTContexts (the log-stream FileContexts exec stores at fds 0-2) that  *)
(* each read the ring from their own pos. The interrupt is taken only      *)
(* while user code runs (exception entry masks IRQs and the kernel never   *)
(* unmasks them), so the handler and every syscall are atomic steps.       *)
(* Received bytes are abstracted to their sequence numbers: the i-th byte  *)
(* moved into the ring is i, and 0 is a slot never written (the global     *)
(* UART object sits in zeroed storage; the constructor's memset has its    *)
(* arguments swapped and clears nothing).                                  *)
(***************************************************************************)
EXTENDS Integers, Sequences, FiniteSets

SX == INSTANCE SequencesExt

CONSTANTS BufferSize, \* UART::bufferSize
          FifoDepth,  \* bound on the bytes waiting in the hardware FIFO
          MaxRx,      \* bound on the bytes received
          Ctxs,       \* UARTContext objects
          ReadSizes,  \* n passed to UARTContext::read
          WriteBufs   \* buffers passed to UARTContext::write

VARIABLES ring,        \* UART::buffer
          bufferIndex, \* UART::bufferIndex
          fifo,        \* bytes in the receive FIFO (FR bit 4 clear iff > 0)
          received,    \* bytes moved into the ring so far
          contexts,    \* live UARTContexts
          pos,         \* UARTContext::pos
          seen,        \* per context: the last byte it returned (history)
          got,         \* the bytes the last read returned
          tx,          \* the characters the last write put in DR
          result       \* the value the last read or write returned

uvars == <<ring, bufferIndex, fifo, received, contexts, pos, seen, got, tx,
           result>>

Slots == 0..(BufferSize - 1)

\* The index increment with the wrap of readByte and read.
Advance(i) == IF i + 1 >= BufferSize THEN 0 ELSE i + 1

Init ==
  /\ ring = [i \in Slots |-> 0]
  /\ bufferIndex = 0
  /\ fifo = 0
  /\ received = 0
  /\ contexts = {}
  /\ pos = [c \in Ctxs |-> 0]
  /\ seen = [c \in Ctxs |-> 0]
  /\ got = <<>>
  /\ tx = <<>>
  /\ result = 0

\* A byte arrives on the line and the PL011 puts it in its FIFO.
Arrive ==
  /\ fifo < FifoDepth
  /\ received + fifo < MaxRx
  /\ fifo' = fifo + 1
  /\ UNCHANGED <<ring, bufferIndex, received, contexts, pos, seen, got, tx,
                 result>>

\* A readByte whose index never wraps.
RECURSIVE ReadByteLoopNoWrap(_)
ReadByteLoopNoWrap(st) ==
  IF st.fifo > 0
  THEN ReadByteLoopNoWrap([ring |-> [st.ring EXCEPT ![st.index] = st.rx + 1],
                           index |-> st.index + 1,
                           rx |-> st.rx + 1, fifo |-> st.fifo - 1])
  ELSE st

\* readByte: while the FIFO is not empty, copy DR into the ring and wrap.
RECURSIVE ReadByteLoop(_)
ReadByteLoop(st) ==
  IF st.fifo > 0
  THEN ReadByteLoop([ring |-> [st.ring EXCEPT ![st.index] = st.rx + 1],
                     index |-> Advance(st.index),
                     rx |-> st.rx + 1, fifo |-> st.fifo - 1])
  ELSE st

\* handleInterrupt with Receive or ReceiveTimeout set in MIS: both call
\* readByte (a second call finds the FIFO empty); the other bits only log,
\* and ICR = status clears them.
HandleInterrupt ==
  /\ fifo > 0
  /\ LET st == ReadByteLoop([ring |-> ring, index |-> bufferIndex,
                             rx |-> received, fifo |-> fifo])
     IN /\ ring' = st.ring
        /\ bufferIndex' = st.index
        /\ received' = st.rx
        /\ fifo' = st.fifo
  /\ UNCHANGED <<contexts, pos, seen, got, tx, result>>

\* UART::open: new UARTContext(*this), pos = uart.bufferIndex.
Open(c) ==
  /\ c \notin contexts
  /\ contexts' = contexts \cup {c}
  /\ pos' = [pos EXCEPT ![c] = bufferIndex]
  /\ seen' = [seen EXCEPT ![c] = received]
  /\ UNCHANGED <<ring, bufferIndex, fifo, received, got, tx, result>>

\* A read loop whose bound test admits one byte more than n.
RECURSIVE ReadLoopPastN(_, _, _, _)
ReadLoopPastN(st, n, buf, idx) ==
  IF st.pos # idx /\ st.c <= n
  THEN ReadLoopPastN([pos |-> Advance(st.pos), c |-> st.c + 1,
                      out |-> Append(st.out, buf[st.pos])], n, buf, idx)
  ELSE st

\* UARTContext::read: copy from pos until it meets bufferIndex (idx) or n
\* bytes are copied (buf is uart.buffer).
RECURSIVE ReadLoop(_, _, _, _)
ReadLoop(st, n, buf, idx) ==
  IF st.pos # idx /\ st.c < n
  THEN ReadLoop([pos |-> Advance(st.pos), c |-> st.c + 1,
                 out |-> Append(st.out, buf[st.pos])], n, buf, idx)
  ELSE st

\* syscall_read on a descriptor holding context c; returns the count.
Read(c, n) ==
  /\ c \in contexts
  /\ LET st == ReadLoop([pos |-> pos[c], c |-> 0, out |-> <<>>], n,
                          ring, bufferIndex)
     IN /\ pos' = [pos EXCEPT ![c] = st.pos]
        /\ got' = st.out
        /\ result' = st.c
        /\ seen' = [seen EXCEPT ![c] = IF st.out = <<>> THEN @
                                        ELSE SX!Last(st.out)]
  /\ UNCHANGED <<ring, bufferIndex, fifo, received, contexts, tx>>

\* UART::operator<<(char) for one byte of the buffer: a newline is
\* followed by a carriage return.
Emit(b) == IF b = "nl" THEN <<b, "cr">> ELSE <<b>>

\* UARTContext::write: every byte to DR (busy-waiting on FR bit 5); n.
Write(c, buf) ==
  /\ c \in contexts
  /\ tx' = SX!FlattenSeq([i \in DOMAIN buf |-> Emit(buf[i])])
  /\ result' = Len(buf)
  /\ UNCHANGED <<ring, bufferIndex, fifo, received, contexts, pos, seen, got>>

\* A copy that leaves the new context at the constructor's pos.
CopyFreshPos(c, d) ==
  /\ c \in contexts /\ d \notin contexts
  /\ contexts' = contexts \cup {d}
  /\ pos' = [pos EXCEPT ![d] = bufferIndex]
  /\ seen' = [seen EXCEPT ![d] = seen[c]]
  /\ UNCHANGED <<ring, bufferIndex, fifo, received, got, tx, result>>

\* UARTContext::copy (clone, fddup): a new context with the same pos.
Copy(c, d) ==
  /\ c \in contexts /\ d \notin contexts
  /\ contexts' = contexts \cup {d}
  /\ pos' = [pos EXCEPT ![d] = pos[c]]
  /\ seen' = [seen EXCEPT ![d] = seen[c]]
  /\ UNCHANGED <<ring, bufferIndex, fifo, received, got, tx, result>>

\* The last reference is closed: ~UARTContext (UART::close does nothing).
Close(c) ==
  /\ c \in contexts
  /\ contexts' = contexts \ {c}
  /\ UNCHANGED <<ring, bufferIndex, fifo, received, pos, seen, got, tx,
                 result>>

Next ==
  \/ Arrive \/ HandleInterrupt
  \/ \E c \in Ctxs :
       \/ Open(c) \/ Close(c)
       \/ \E n \in ReadSizes : Read(c, n)
       \/ \E buf \in WriteBufs : Write(c, buf)
       \/ \E d \in Ctxs : Copy(c, d)

Spec == Init /\ [][Next]_uvars

-----------------------------------------------------------------------------
\* The bytes context c would read next: the ring from pos to bufferIndex.
Pending(c) ==
  [i \in 1..((bufferIndex - pos[c] + BufferSize) % BufferSize) |->
     ring[(pos[c] + i - 1) % BufferSize]]

TypeOK ==
  /\ ring \in [Slots -> 0..MaxRx]
  /\ bufferIndex \in Slots
  /\ fifo \in 0..FifoDepth
  /\ received \in 0..MaxRx
  /\ contexts \subseteq Ctxs
  /\ pos \in [Ctxs -> Slots]
  /\ seen \in [Ctxs -> 0..MaxRx]
  /\ got \in Seq(0..MaxRx)
  /\ result \in Nat

\* A context that has fallen fewer than bufferSize bytes behind the
\* interrupt handler loses nothing: what read would return from its pos is
\* exactly the bytes received after the last one it returned (or after it
\* was opened or copied), oldest first, across every wrap of bufferIndex
\* and pos, and whatever interrupts, reads and copies came between.
NoLossWithinCapacity ==
  \A c \in contexts :
    received - seen[c] < BufferSize =>
      Pending(c) = [i \in 1..(received - seen[c]) |-> seen[c] + i]

\* Every read copies at most the n bytes asked for and returns how many it
\* copied, and they are consecutive received bytes, all newer than the last
\* byte the same context returned: no byte is returned twice or out of
\* order by one context, whether it lagged or not.
ReadsInOrder ==
  [][\A c \in Ctxs, n \in ReadSizes :
       Read(c, n) =>
         /\ Len(got') <= n /\ result' = Len(got')
         /\ got' # <<>> =>
              /\ got' = [i \in 1..Len(got') |-> got'[1] + i - 1]
              /\ got'[1] > seen[c]]_uvars
=============================================================================
