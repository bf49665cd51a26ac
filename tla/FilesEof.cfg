\* Boot (pid 0 with descriptors 0-2) followed by up to five syscalls of
\* any live process.  A fault (a use of freed memory or a null
\* dereference) halts the kernel, and so does the termination of the
\* last process: such states have no successor.
CONSTANTS
  Procs <- MCProcs
  NodeIds <- MCNodeIds
  CtxIds <- MCCtxIds
  PipeIds <- MCPipeIds
  Fds <- MCFds
  Init0 = 1
  MaxCalls = 5

SPECIFICATION Spec


CHECK_DEADLOCK FALSE
INVARIANT NoWriterMeansEOF
