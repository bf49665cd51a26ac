\* The test program's clone/sigwait loop for three threads, with the
\* timer free to preempt between any two syscalls.  A halted kernel has
\* no successor.
CONSTANTS
  MaxPid = 3
  MaxAS = 1
  MaxQueue = 3
  Signals <- MCSignals
  NoPid = NoPid

SPECIFICATION WSpec

INVARIANT NoSchedulerCrash

CHECK_DEADLOCK FALSE
