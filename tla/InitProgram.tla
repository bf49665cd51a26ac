---------------------------- MODULE InitProgram ----------------------------
(***************************************************************************)
(* The kernel running the repository's user test program, test/main.c,   *)
(* instead of arbitrary syscalls.  main() installs a SIGCHLD handler and  *)
(* then loops: clone a thread, sigwait.  The thread only terminates; the  *)
(* handler only returns through the trampoline's sigret.                  *)
(*                                                                         *)
(* Each process has a program counter: the next syscall its code issues. *)
(* printk and the initial mmap change no state of Kernel and are left    *)
(* out.  A step is a Kernel action issued by the current process at its  *)
(* counter, or the timer interrupt, which may preempt the program between *)
(* any two syscalls.  When a signal starts a handler the counter is saved *)
(* with the backup context and sigret restores it.                        *)
(***************************************************************************)
EXTENDS Kernel

VARIABLES pc,     \* pid -> the next syscall of its program
          saved   \* pid -> the counter held by backupCtx while in SIGNAL

wvars == <<vars, pc, saved>>

\* main's first syscall after the prints and the mmap; thread()'s only one;
\* the handler's return to the trampoline.
Counters == {"sigaction", "clone", "sigwait", "terminate", "sigret"}

WInit ==
  /\ Init
  /\ pc = [p \in Pids |-> IF p = 0 THEN "sigaction" ELSE "terminate"]
  /\ saved = [p \in Pids |-> "clone"]

At(step) == Running /\ pc[current] = step

\* sigaction(17, handler, trampoline, 0), main.c line 26.
MainSigAction ==
  /\ At("sigaction")
  /\ SigAction
  /\ action' = [action EXCEPT ![current][SIGCHLD] = "HANDLER"]
  /\ pc' = [pc EXCEPT ![current] = "clone"]
  /\ UNCHANGED saved

\* clone(thread, 0x10000, 0, 0), main.c line 29: the child starts in
\* thread(), whose one syscall is terminate (line 17).
MainClone ==
  /\ At("clone")
  /\ Clone
  /\ pc' = [pc EXCEPT ![current] = "sigwait", ![currPid] = "terminate"]
  /\ UNCHANGED saved

\* sigwait(), main.c line 30; when it returns the loop clones again.
MainSigWait ==
  /\ At("sigwait")
  /\ SigWait
  /\ pc' = [pc EXCEPT ![current] = "clone"]
  /\ UNCHANGED saved

\* terminate(), main.c line 17: SIGCHLD on the parent, whose handler
\* starts if signalTrigger moved it to SIGNAL.
ThreadTerminate ==
  /\ At("terminate")
  /\ Terminate
  /\ LET p == parent[current] IN
       IF pstate[p] # "SIGNAL" /\ pstate'[p] = "SIGNAL"
       THEN /\ pc' = [pc EXCEPT ![p] = "sigret"]
            /\ saved' = [saved EXCEPT ![p] = pc[p]]
       ELSE UNCHANGED <<pc, saved>>

\* handler() returns to trampoline(), which calls sigret (main.c 4-7).
HandlerSigRet ==
  /\ At("sigret")
  /\ SigRet
  /\ pc' = [pc EXCEPT ![current] = saved[current]]
  /\ UNCHANGED saved

Preempt == TimerTick /\ UNCHANGED <<pc, saved>>

WNext ==
  \/ MainSigAction
  \/ MainClone
  \/ MainSigWait
  \/ ThreadTerminate
  \/ HandlerSigRet
  \/ Preempt

WSpec == WInit /\ [][WNext]_wvars /\ WF_wvars(Preempt)
=============================================================================
