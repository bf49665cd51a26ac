----------------------------- MODULE ProgramArgs -----------------------------
(***************************************************************************)
(* Process::storeProgramArgs (sched/process.cpp 233-282): the layout of   *)
(* argv and envp on a new process's user stack, built by                  *)
(* Context::pushString and Context::pushLong (sched/aarch64/context.cpp), *)
(* and what a C program started with x0, x1, x2 reads back from it.       *)
(*                                                                         *)
(* Addresses are byte offsets from the initial stack pointer 0x7FC0000000 *)
(* (Kernel::exec, kernel.cpp 494), so every pushed address is negative.   *)
(* A string is its strlen: its bytes are not zero, and the stack pages    *)
(* are fresh frames (never freed before), so every byte that no push      *)
(* wrote reads as zero.                                                   *)
(***************************************************************************)
EXTENDS Integers, Sequences, SequencesExt, TLC

CONSTANTS Lengths,   \* the strlen an argument or environment string may have
          MaxArgs    \* bound on argc and on envc

VARIABLES argv,      \* the argv the exec syscall copied: a sequence of strlens
          envp,      \* the envp likewise
          frame      \* the stack and registers storeProgramArgs leaves

vars == <<argv, envp, frame>>

Top == 0             \* 0x7FC0000000
NULL == 0
NonZero == 1         \* a word holding some bytes of a string (never an address)
Outside == 2         \* a word above the stack: the first page of the table window

\* The argument vectors syscall_exec can copy (kernel.cpp 103-141): NULL-
\* terminated arrays, so any count, of strings of any length.
ArgVectors == UNION {[1..n -> Lengths] : n \in 0..MaxArgs}

\* pushString's rounding: len += 15; len -= len % 16.
Align16(len) == (len + 15) - ((len + 15) % 16)

\* Context::pushString(str), context.cpp 131-138: move sp down by
\* strlen + 1 rounded to 16 and strcpy the string there.
PushString(st, len) ==
  LET n == Align16(len + 1) IN
  [st EXCEPT !.sp = @ - n, !.strs = Append(@, [at |-> st.sp - n, len |-> len])]

\* Context::pushLong(v), context.cpp 124-129: *--sp = v.
PushLong(st, v) == [st EXCEPT !.sp = @ - 8, !.words = (st.sp - 8 :> v) @@ @]

\* for (i = n - 1; i >= 0; i--) { pushString(ss[i]); arr[i] = sp; }
\* (process.cpp 249-258; sequences here are 1-based).
RECURSIVE PushStringsFrom(_, _, _)
PushStringsFrom(st, ss, i) ==
  IF i = 0 THEN st
  ELSE LET st1 == PushString(st, ss[i]) IN
       PushStringsFrom([st1 EXCEPT !.arr[i] = st1.sp], ss, i - 1)

\* for (i = n - 1; i >= 0; i--) pushLong(vals[i]) (process.cpp 265-278).
RECURSIVE PushLongsFrom(_, _, _)
PushLongsFrom(st, vals, i) ==
  IF i = 0 THEN st ELSE PushLongsFrom(PushLong(st, vals[i]), vals, i - 1)

\* storeProgramArgs(argv, envp), process.cpp 233-282, from the stack
\* pointer exec set: the argv strings, then the envp strings, then for
\* argv an odd-count pad and argc pointers, then for envp an odd-count
\* pad and envc + 1 pointers (the last NULL), and setProcessArgs.
StoreProgramArgs(a, e) ==
  LET s1 == PushStringsFrom([sp |-> Top, words |-> [x \in {} |-> NULL], strs |-> <<>>,
                             arr |-> [i \in 1..Len(a) |-> NULL]], a, Len(a))
      argArray == s1.arr
      s2 == PushStringsFrom([s1 EXCEPT !.arr = [i \in 1..Len(e) |-> NULL]], e, Len(e))
      envArray == Append(s2.arr, NULL)
      s3 == IF Len(a) % 2 = 1 THEN PushLong(s2, 0) ELSE s2
      s4 == PushLongsFrom(s3, argArray, Len(a))
      s5 == IF (Len(e) + 1) % 2 = 1 THEN PushLong(s4, 0) ELSE s4
      s6 == PushLongsFrom(s5, envArray, Len(e) + 1)
  IN [words |-> s6.words, strs |-> s6.strs, sp |-> s6.sp,
      x0 |-> Len(a), x1 |-> s4.sp, x2 |-> s6.sp]

\* The 8-byte word a user load at address A finds.
WordAt(fr, A) ==
  CASE A \in DOMAIN fr.words -> fr.words[A]
    [] A >= Top -> Outside
    [] \E s \in ToSet(fr.strs) : s.at <= A /\ A < s.at + s.len -> NonZero
    [] OTHER -> NULL

Init ==
  \E a, e \in ArgVectors :
    /\ argv = a
    /\ envp = e
    /\ frame = StoreProgramArgs(a, e)

Next == UNCHANGED vars

Spec == Init /\ [][Next]_vars
-----------------------------------------------------------------------------
\* The array at base, as main(argc, argv, envp) walks it: 16-byte aligned,
\* entry i the address of a copy of string i, and a NULL after the last.
ArrayReadsBack(fr, base, ss) ==
  /\ base % 16 = 0
  /\ \A i \in 1..Len(ss) :
       \E s \in ToSet(fr.strs) : s.at = WordAt(fr, base + 8 * (i - 1)) /\ s.len = ss[i]
  /\ WordAt(fr, base + 8 * Len(ss)) = NULL

\* Spec section 4.5 (Exec, step 6, and the marshalling rules): after
\* storeProgramArgs, x0 = argc and x1 and x2 are null-terminated,
\* 16-byte aligned arrays of pointers to copies of argv's and envp's
\* strings, in order.
ArgsMarshalled ==
  /\ frame.x0 = Len(argv)
  /\ ArrayReadsBack(frame, frame.x1, argv)
  /\ ArrayReadsBack(frame, frame.x2, envp)
=============================================================================
