\* The kernel halts (hacf or a crash) on a null or dangling dereference,
\* so a halted state has no successor.
CONSTANTS
  MaxPid = 2
  MaxAS = 2
  MaxQueue = 2
  Signals <- MCSignals
  NoPid = NoPid

SPECIFICATION Spec

INVARIANT TypeOK
INVARIANT AddressSpaceSafe

PROPERTY QueuedEventuallyRuns


CHECK_DEADLOCK FALSE
