--------------------------------- MODULE Pipe ---------------------------------
(***************************************************************************)
(* One pipe of src/src/fs/pipe.cpp: the ring buffer with readPos and       *)
(* writePos, the reader and writer endpoint counts, and the pipe's life    *)
(* from syscall_create_pipe to the destructor of its last endpoint.        *)
(* Every syscall is atomic (the kernel is uniprocessor and non-reentrant), *)
(* so any process holding an endpoint may read, write, copy it (clone) or  *)
(* drop it (close, terminate) in any order. Bytes are abstracted to their  *)
(* sequence numbers: the i-th byte ever written to this pipe is i.         *)
(***************************************************************************)
EXTENDS Integers, Sequences

CONSTANTS PIPE_SIZE,  \* Pipe::PIPE_SIZE
          Sizes,      \* byte counts n passed to read and write
          MaxSent,    \* bound on the bytes written to one pipe
          MaxEnds     \* bound on the endpoints of each kind

\* error_t, include/types/status.h
ENONE == 0
EEOF  == -3
EPIPE == -9
EFULL == -10

VARIABLES live,        \* the Pipe object exists
          buffer,      \* Pipe::buffer, byte numbers (0: never written)
          writePos, readPos, readerCount, writerCount,
          sent,        \* bytes written so far (the next byte is sent + 1)
          delivered,   \* the bytes readers have received, in order
          ret,         \* the value the last read or write returned
          last         \* the last read or write: [op, n]

vars == <<live, buffer, writePos, readPos, readerCount, writerCount, sent,
          delivered, ret, last>>

Slots == 0..(PIPE_SIZE - 1)

\* A put loop that tests only writePos + 1 == readPos for fullness.
RECURSIVE PutLoopNoWrapFull(_, _)
PutLoopNoWrapFull(st, n) ==
  IF st.c < n /\ st.writePos + 1 # readPos
  THEN PutLoopNoWrapFull([buffer |-> [st.buffer EXCEPT ![st.writePos] = sent + st.c + 1],
                          writePos |-> IF st.writePos + 1 >= PIPE_SIZE
                                       THEN 0 ELSE st.writePos + 1,
                          c |-> st.c + 1], n)
  ELSE st

\* A put loop that never wraps writePos.
RECURSIVE PutLoopNoWrap(_, _)
PutLoopNoWrap(st, n) ==
  IF st.c < n /\ ~(st.writePos = PIPE_SIZE - 1 /\ readPos = 0)
     /\ st.writePos + 1 # readPos
  THEN PutLoopNoWrap([buffer |-> [st.buffer EXCEPT ![st.writePos] = sent + st.c + 1],
                      writePos |-> st.writePos + 1,
                      c |-> st.c + 1], n)
  ELSE st

\* Pipe::put, lines 22-32: copy bytes while the ring is not full, that is
\* neither (writePos at the end and readPos at 0) nor writePos + 1 = readPos.
RECURSIVE PutLoop(_, _)
PutLoop(st, n) ==
  IF st.c < n /\ ~(st.writePos = PIPE_SIZE - 1 /\ readPos = 0)
     /\ st.writePos + 1 # readPos
  THEN PutLoop([buffer |-> [st.buffer EXCEPT ![st.writePos] = sent + st.c + 1],
                writePos |-> IF st.writePos + 1 >= PIPE_SIZE
                             THEN 0 ELSE st.writePos + 1,
                c |-> st.c + 1], n)
  ELSE st

\* Pipe::read, lines 47-57: copy bytes until readPos meets writePos or n
\* bytes were taken.
RECURSIVE ReadLoop(_, _)
ReadLoop(st, n) ==
  IF st.readPos # writePos /\ Len(st.data) < n
  THEN ReadLoop([readPos |-> IF st.readPos + 1 >= PIPE_SIZE
                             THEN 0 ELSE st.readPos + 1,
                 data |-> Append(st.data, buffer[st.readPos])], n)
  ELSE st

Init ==
  /\ live = FALSE
  /\ buffer = [i \in Slots |-> 0]
  /\ writePos = 0 /\ readPos = 0 /\ readerCount = 0 /\ writerCount = 0
  /\ sent = 0 /\ delivered = <<>> /\ ret = ENONE
  /\ last = [op |-> "none", n |-> 0]

\* syscall_create_pipe: new Pipe (positions and counts 0, the buffer holds
\* whatever the heap left there), then createReader and createWriter.
CreatePipe ==
  /\ ~live
  /\ live' = TRUE
  /\ writePos' = 0 /\ readPos' = 0
  /\ readerCount' = 1 /\ writerCount' = 1
  /\ sent' = 0 /\ delivered' = <<>> /\ ret' = ENONE
  /\ UNCHANGED <<buffer, last>>

\* syscall_write on a writer fd: PipeWriter::write, Pipe::put.
Write(n) ==
  /\ live /\ writerCount > 0
  /\ sent + n <= MaxSent
  /\ last' = [op |-> "write", n |-> n]
  /\ IF readerCount = 0
     THEN ret' = EPIPE /\ UNCHANGED <<buffer, writePos, sent>>
     ELSE LET st == PutLoop([buffer |-> buffer, writePos |-> writePos, c |-> 0], n)
          IN /\ buffer' = st.buffer
             /\ writePos' = st.writePos
             /\ sent' = sent + st.c
             /\ ret' = IF n > 0 /\ st.c = 0 THEN EFULL ELSE st.c
  /\ UNCHANGED <<live, readPos, readerCount, writerCount, delivered>>

\* syscall_read on a reader fd: PipeReader::read, Pipe::read; nothing read
\* and no writer left is EEOF.
Read(n) ==
  /\ live /\ readerCount > 0
  /\ last' = [op |-> "read", n |-> n]
  /\ LET st == ReadLoop([readPos |-> readPos, data |-> <<>>], n)
     IN /\ readPos' = st.readPos
        /\ delivered' = delivered \o st.data
        /\ ret' = IF Len(st.data) = 0 /\ writerCount = 0 THEN EEOF
                                                        ELSE Len(st.data)
  /\ UNCHANGED <<live, buffer, writePos, readerCount, writerCount, sent>>

\* PipeReader::copy / PipeWriter::copy (Process::clone): a new endpoint
\* object whose constructor bumps the count.
CopyReader == /\ live /\ readerCount > 0 /\ readerCount < MaxEnds
              /\ readerCount' = readerCount + 1
              /\ UNCHANGED <<live, buffer, writePos, readPos, writerCount,
                             sent, delivered, ret, last>>

CopyWriter == /\ live /\ writerCount > 0 /\ writerCount < MaxEnds
              /\ writerCount' = writerCount + 1
              /\ UNCHANGED <<live, buffer, writePos, readPos, readerCount,
                             sent, delivered, ret, last>>

\* ~PipeReader / ~PipeWriter (the last reference to the endpoint closed):
\* drop the count and delete the pipe when both counts are zero.
DropReader == /\ live /\ readerCount > 0
              /\ readerCount' = readerCount - 1
              /\ live' = (readerCount' # 0 \/ writerCount # 0)
              /\ UNCHANGED <<buffer, writePos, readPos, writerCount, sent,
                             delivered, ret, last>>

DropWriter == /\ live /\ writerCount > 0
              /\ writerCount' = writerCount - 1
              /\ live' = (readerCount # 0 \/ writerCount' # 0)
              /\ UNCHANGED <<buffer, writePos, readPos, readerCount, sent,
                             delivered, ret, last>>

Next ==
  \/ CreatePipe
  \/ \E n \in Sizes : Write(n) \/ Read(n)
  \/ CopyReader \/ CopyWriter \/ DropReader \/ DropWriter

Spec == Init /\ [][Next]_vars

-----------------------------------------------------------------------------
\* The bytes between readPos and writePos, oldest first.
Used == (writePos - readPos + PIPE_SIZE) % PIPE_SIZE
Contents == [i \in 1..Used |-> buffer[(readPos + i - 1) % PIPE_SIZE]]

Abstract == INSTANCE Channel WITH Cap <- PIPE_SIZE - 1, chan <- Contents,
              open <- live, readers <- readerCount, writers <- writerCount

\* The ring implements a FIFO channel of PIPE_SIZE - 1 bytes: no byte is
\* lost, duplicated or reordered across the wrap of either position, a
\* write fills exactly the free space, and EPIPE, EFULL and EEOF are
\* returned exactly when spec 4.8 says.
Refinement == Abstract!Spec

TypeOK ==
  /\ live \in BOOLEAN
  /\ buffer \in [Slots -> 0..MaxSent]
  /\ writePos \in Slots /\ readPos \in Slots
  /\ readerCount \in 0..MaxEnds /\ writerCount \in 0..MaxEnds
  /\ sent \in 0..MaxSent
  /\ ret \in {ENONE, EEOF, EPIPE, EFULL} \cup 0..MaxSent

\* Spec section 9 (3): a pipe read of n = 0 returns 0 in all states.
ReadZeroReturnsZero ==
  (last.op = "read" /\ last.n = 0) => ret = 0
=============================================================================
