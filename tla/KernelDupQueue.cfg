\* Two processes (pid 0 and one clone), two address spaces, signals 17
\* and 64 (out of range). The kernel halts on a null or dangling
\* dereference, so a halted state has no successor.
CONSTANTS
  MaxPid = 1
  MaxAS = 2
  MaxQueue = 3
  Signals <- MCSignals
  NoPid = NoPid

SPECIFICATION Spec

INVARIANT NoDuplicateInRunQueue

CHECK_DEADLOCK FALSE
