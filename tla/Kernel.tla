------------------------------- MODULE Kernel -------------------------------
(***************************************************************************)
(* The process, signal and scheduling machine of the kernel: the process  *)
(* table and scheduler queue of Kernel (src/src/kernel.cpp), the per-     *)
(* process state of Process (src/src/sched/process.cpp), the run queue of *)
(* queue (src/src/sched/queue.cpp) and the AddressSpace refcount          *)
(* (src/src/util/hasrefcount.cpp, src/src/memory/mmap.cpp).               *)
(*                                                                         *)
(* The kernel is non-reentrant: every syscall and every timer IRQ runs    *)
(* to completion with interrupts masked, so each is one atomic action.    *)
(* The user program of the current process may issue any syscall at any  *)
(* time; the timer may preempt it at any time.                            *)
(*                                                                         *)
(* Abstracted: register contents and return values (no property here is  *)
(* about them), file descriptors (module FdTable of the plan), the KILL   *)
(* branch of raiseSignal (no code ever sets ActionType::KILL).            *)
(* A null or dangling dereference halts the kernel: `fault` records it    *)
(* and no step follows.                                                   *)
(***************************************************************************)
EXTENDS Integers, Sequences, SequencesExt, FiniteSets

CONSTANTS
  MaxPid,     \* bound on the pids Kernel::nextPid hands out (0..MaxPid)
  MaxAS,      \* bound on the ids createAddressSpace hands out (1..MaxAS)
  Signals,    \* signal numbers user code passes to sigaction / sigraise
  MaxQueue,   \* bound on the run-queue length (double enqueues grow it)
  NoPid       \* model value: a null Process*

ASSUME MaxPid \in Nat /\ MaxAS \in Nat \ {0} /\ MaxQueue \in Nat \ {0}
ASSUME Signals \subseteq Int

Pids == 0..MaxPid
ASIds == 1..MaxAS
MAX_SIGNAL == 64
ValidSignals == Signals \cap 0..(MAX_SIGNAL - 1)
\* The signal syscall_terminate raises on the parent.
SIGCHLD == 17
\* How a halted kernel stopped: a null current process in switchTask, a
\* dangling Process* dequeued, a null AddressSpace* or a null Process*.
Faults == {"none", "nosched", "uaf", "nullas", "nullproc"}
\* The outcomes of Kernel::exec, one per return path.
ExecOutcomes == {"notfound", "eio", "nomem_table", "nomem_heap", "ok"}

VARIABLES
  table,      \* pids of Kernel::processTable
  pstate,     \* Process::state
  parent,     \* Process::parent
  pas,        \* Process::addressSpace (an AddressSpace id)
  backup,     \* Process::backupCtx != nullptr
  action,     \* Process::signalHandlers[sig].type
  queue,      \* queue: the runnable FIFO, front first
  current,    \* queue::cur_Process
  currPid,    \* Kernel::currPid
  idCounter,  \* idCounter of mmap.cpp
  asRefs,     \* HasRefcount::refcount of each AddressSpace
  asLive,     \* AddressSpace objects not yet deleted
  loaded,     \* the AddressSpace in TTBR0_EL1
  fault       \* how the kernel halted, "none" while it runs

vars == <<table, pstate, parent, pas, backup, action, queue, current,
          currPid, idCounter, asRefs, asLive, loaded, fault>>

(***************************************************************************)
(* Reference counting.                                                     *)
(***************************************************************************)
\* HasRefcount::addReference
AddReference(refs, a) == [refs EXCEPT ![a] = @ + 1]

\* Mutant: the reference is dropped twice (as if both ~Process and exec
\* released it).
ReleaseTwice(refs, live, a) ==
  LET r == [refs EXCEPT ![a] = @ - 2]
  IN  [refs |-> r, live |-> IF r[a] <= 0 THEN live \ {a} ELSE live]

\* Mutant: the object is deleted without consulting its refcount.
ReleaseUnchecked(refs, live, a) ==
  [refs |-> [refs EXCEPT ![a] = @ - 1], live |-> live \ {a}]

\* removeReference, then destoryAddressSpace and delete when the count is
\* no longer positive (~Process, Process::exec).
ReleaseAS(refs, live, a) ==
  LET r == [refs EXCEPT ![a] = @ - 1]
  IN  [refs |-> r, live |-> IF r[a] <= 0 THEN live \ {a} ELSE live]

(***************************************************************************)
(* The scheduler queue.                                                    *)
(***************************************************************************)
\* queue::enqueue: link a new node holding p after the back node.
Enqueue(q, p) == Append(q, p)

\* queue::dequeue: unlink the front node and return its Process*, or
\* nullptr when queue_size is 0.
Dequeue(q) ==
  IF q = <<>> THEN [queue |-> q, value |-> NoPid]
              ELSE [queue |-> Tail(q), value |-> Head(q)]

\* Mutant: the preempted process is put back at the front.
SchedNextLifo(q, cur) ==
  LET q1 == IF cur # NoPid THEN <<cur>> \o q ELSE q
  IN  IF q1 = <<>> THEN [queue |-> q1, current |-> cur]
                   ELSE [queue |-> Tail(q1), current |-> Head(q1)]

\* queue::sched_next: requeue the current process at the back, then pop
\* the front; an empty queue leaves cur_Process as it was.
SchedNext(q, cur) ==
  LET q1 == IF cur # NoPid THEN Enqueue(q, cur) ELSE q
      d  == Dequeue(q1)
  IN  IF q1 = <<>> THEN [queue |-> q1, current |-> cur]
                   ELSE [queue |-> d.queue, current |-> d.value]

\* Kernel::switchTask from run queue q and current cur, with the process
\* table tbl as it is after the caller's changes: sched_next, then load
\* the chosen process's address space through a pointer that may be null
\* or dangling.
SwitchTask(q, cur, tbl) ==
  LET s == SchedNext(q, cur)
  IN  /\ queue' = s.queue
      /\ current' = s.current
      /\ CASE s.current = NoPid     -> fault' = "nosched" /\ loaded' = loaded
           [] s.current \notin tbl -> fault' = "uaf" /\ loaded' = loaded
           [] OTHER                -> fault' = fault /\ loaded' = pas[s.current]

(***************************************************************************)
(* Signals.                                                                *)
(***************************************************************************)
\* The guard of Kernel::raiseSignal: the pid names a process that is
\* ACTIVE or SIGWAIT.
CanAccept(pid) == pid \in table /\ pstate[pid] \in {"ACTIVE", "SIGWAIT"}

\* Process::signalTrigger runs a handler: the signal is in range and its
\* action is HANDLER (its nested-signal check cannot fail past CanAccept).
Fires(pid, sig) == sig \in ValidSignals /\ action[pid][sig] = "HANDLER"

\* The run queue after raiseSignal: a SIGWAIT target is enqueued whenever
\* signalTrigger returned 0, whatever the signal's action.
WakeQueue(pid, sig) ==
  IF CanAccept(pid) /\ pstate[pid] = "SIGWAIT" THEN Enqueue(queue, pid)
                                             ELSE queue

\* Process state and backup context after raiseSignal: signalTrigger
\* snapshots the context into backupCtx and enters SIGNAL.
RaisedState(pid, sig) ==
  IF CanAccept(pid) /\ Fires(pid, sig)
  THEN [pstate |-> [pstate EXCEPT ![pid] = "SIGNAL"],
        backup |-> [backup EXCEPT ![pid] = TRUE]]
  ELSE [pstate |-> pstate, backup |-> backup]

(***************************************************************************)
(* Initial state: aarch64_boot has created the first process (pid 0, its  *)
(* own parent, from the default Process constructor), made it current and *)
(* exec'd /bin/init in address space 1.                                   *)
(***************************************************************************)
Init ==
  /\ table = {0}
  /\ pstate = [p \in Pids |-> "ACTIVE"]
  /\ parent = [p \in Pids |-> 0]
  /\ pas = [p \in Pids |-> 1]
  /\ backup = [p \in Pids |-> FALSE]
  /\ action = [p \in Pids |-> [s \in ValidSignals |-> "NONE"]]
  /\ queue = <<>>
  /\ current = 0
  /\ currPid = 1
  /\ idCounter = 2
  /\ asRefs = [a \in ASIds |-> IF a = 1 THEN 1 ELSE 0]
  /\ asLive = {1}
  /\ loaded = 1
  /\ fault = "none"

\* A user process is executing: the kernel has not halted.
Running == fault = "none" /\ current # NoPid

(***************************************************************************)
(* Syscalls of the current process and the timer interrupt.               *)
(***************************************************************************)
\* syscall_clone: Process::clone builds the child with `new Process`
\* (one reference), addProcess copies it into the table (a second one)
\* and enqueues the copy; the object clone returned is never deleted.
\* A failed kernel-stack rmalloc makes clone return nullptr, which
\* addProcess dereferences.
Clone ==
  /\ Running
  /\ currPid <= MaxPid
  /\ LET c == current
         n == currPid
         a == pas[c]
     IN  /\ currPid' = currPid + 1
         /\ \/ /\ table' = table \cup {n}
               /\ pstate' = [pstate EXCEPT ![n] = "ACTIVE"]
               /\ parent' = [parent EXCEPT ![n] = c]
               /\ pas' = [pas EXCEPT ![n] = a]
               /\ backup' = [backup EXCEPT ![n] = FALSE]
               /\ action' = [action EXCEPT ![n] = [s \in ValidSignals |-> "NONE"]]
               /\ asRefs' = AddReference(AddReference(asRefs, a), a)
               /\ queue' = Enqueue(queue, n)
               /\ UNCHANGED <<current, idCounter, asLive, loaded, fault>>
            \/ /\ fault' = "nullproc"
               /\ UNCHANGED <<table, pstate, parent, pas, backup, action, queue,
                              current, idCounter, asRefs, asLive, loaded>>

\* syscall_terminate: raise SIGCHLD on the parent, delete the current
\* process from the table (~Process drops its address-space reference),
\* clear cur_Process and switch. The freed Process's fields, except the
\* address space a dangling pointer would still read, are reset to their
\* defaults so that dead processes do not multiply states.
Terminate ==
  /\ Running
  /\ LET c == current
         r == RaisedState(parent[c], SIGCHLD)
         rel == ReleaseAS(asRefs, asLive, pas[c])
     IN  /\ table' = table \ {c}
         /\ pstate' = [r.pstate EXCEPT ![c] = "ACTIVE"]
         /\ backup' = [r.backup EXCEPT ![c] = FALSE]
         /\ parent' = [parent EXCEPT ![c] = 0]
         /\ action' = [action EXCEPT ![c] = [s \in ValidSignals |-> "NONE"]]
         /\ asRefs' = rel.refs
         /\ asLive' = rel.live
         /\ SwitchTask(WakeQueue(parent[c], SIGCHLD), NoPid, table')
         /\ UNCHANGED <<pas, currPid, idCounter>>

\* syscall_exec / Kernel::exec. Only an ACTIVE process may exec. A missing
\* file or a read error changes nothing. createAddressSpace reserves the
\* top table (NOMEM gives a null AddressSpace* that loadAddressSpace
\* dereferences) and the new space is loaded at once; a failed rmalloc of
\* the kernel stack then returns ENOMEM with that space still loaded.
\* Otherwise Process::exec drops the old space and takes the new one.
Exec ==
  /\ Running
  /\ pstate[current] = "ACTIVE"
  /\ idCounter <= MaxAS
  /\ \E outcome \in ExecOutcomes :
       LET c == current
           new == idCounter
           rel == ReleaseAS(asRefs, asLive, pas[c])
       IN  CASE outcome \in {"notfound", "eio"} ->
                  UNCHANGED vars
             [] outcome = "nomem_table" ->
                  /\ fault' = "nullas"
                  /\ UNCHANGED <<table, pstate, parent, pas, backup, action,
                                 queue, current, currPid, idCounter, asRefs,
                                 asLive, loaded>>
             [] outcome = "nomem_heap" ->
                  /\ idCounter' = idCounter + 1
                  /\ asLive' = asLive \cup {new}
                  /\ loaded' = new
                  /\ UNCHANGED <<table, pstate, parent, pas, backup, action,
                                 queue, current, currPid, asRefs, fault>>
             [] outcome = "ok" ->
                  /\ idCounter' = idCounter + 1
                  /\ asLive' = rel.live \cup {new}
                  /\ asRefs' = AddReference(rel.refs, new)
                  /\ pas' = [pas EXCEPT ![c] = new]
                  /\ loaded' = new
                  /\ UNCHANGED <<table, pstate, parent, backup, action, queue,
                                 current, currPid, fault>>

\* syscall_yield: set the return value, then switchTask.
Yield ==
  /\ Running
  /\ SwitchTask(queue, current, table)
  /\ UNCHANGED <<table, pstate, parent, pas, backup, action, currPid,
                 idCounter, asRefs, asLive>>

\* syscall_sigraise(pid, sig): Kernel::raiseSignal on any pid, the caller
\* itself included.
SigRaise ==
  /\ Running
  /\ Len(queue) < MaxQueue
  /\ \E pid \in Pids, sig \in Signals :
       LET r == RaisedState(pid, sig)
       IN  /\ pstate' = r.pstate
           /\ backup' = r.backup
           /\ queue' = WakeQueue(pid, sig)
           /\ UNCHANGED <<table, parent, pas, action, current, currPid,
                          idCounter, asRefs, asLive, loaded, fault>>

\* syscall_sigret: Process::signalReturn restores the backup context and
\* returns to ACTIVE; outside SIGNAL it returns at once.
SigRet ==
  /\ Running
  /\ pstate[current] = "SIGNAL"
  /\ pstate' = [pstate EXCEPT ![current] = "ACTIVE"]
  /\ backup' = [backup EXCEPT ![current] = FALSE]
  /\ UNCHANGED <<table, parent, pas, action, queue, current, currPid,
                 idCounter, asRefs, asLive, loaded, fault>>

\* syscall_sigwait: enter SIGWAIT whatever the state, clear cur_Process
\* (sleepActiveProcess) and switch.
SigWait ==
  /\ Running
  /\ pstate' = [pstate EXCEPT ![current] = "SIGWAIT"]
  /\ SwitchTask(queue, NoPid, table)
  /\ UNCHANGED <<table, parent, pas, backup, action, currPid, idCounter,
                 asRefs, asLive>>

\* syscall_sigaction: Process::setSignalAction; a null handler resets the
\* action to NONE, an out-of-range signal is ignored.
SigAction ==
  /\ Running
  /\ \E sig \in ValidSignals, type \in {"NONE", "HANDLER"} :
       action' = [action EXCEPT ![current][sig] = type]
  /\ UNCHANGED <<table, pstate, parent, pas, backup, queue, current, currPid,
                 idCounter, asRefs, asLive, loaded, fault>>

\* handle_irq for a timer source: store the context, SystemTimer::
\* handleInterrupt resets the comparator and calls switchTask.
TimerTick ==
  /\ Running
  /\ SwitchTask(queue, current, table)
  /\ UNCHANGED <<table, pstate, parent, pas, backup, action, currPid,
                 idCounter, asRefs, asLive>>

Next ==
  \/ Clone
  \/ Terminate
  \/ Exec
  \/ Yield
  \/ SigRaise
  \/ SigRet
  \/ SigWait
  \/ SigAction
  \/ TimerTick

\* The system timer interrupts user mode every 50 ms while a process runs;
\* nothing obliges the user program to make any syscall.
Fairness == WF_vars(TimerTick)

Spec == Init /\ [][Next]_vars /\ Fairness

(***************************************************************************)
(* Properties.                                                             *)
(***************************************************************************)
TypeOK ==
  /\ table \subseteq Pids
  /\ pstate \in [Pids -> {"ACTIVE", "SIGNAL", "SIGWAIT"}]
  /\ parent \in [Pids -> Pids]
  /\ pas \in [Pids -> ASIds]
  /\ backup \in [Pids -> BOOLEAN]
  /\ action \in [Pids -> [ValidSignals -> {"NONE", "HANDLER"}]]
  /\ queue \in Seq(Pids)
  /\ current \in Pids \cup {NoPid}
  /\ currPid \in 1..(MaxPid + 1)
  /\ idCounter \in 2..(MaxAS + 1)
  /\ asRefs \in [ASIds -> Nat]
  /\ asLive \subseteq ASIds
  /\ loaded \in ASIds
  /\ fault \in Faults

\* No address space is deleted while in use: the space of every process in
\* the table, and the one loaded in TTBR0, is a live AddressSpace object.
\* Breaks if clone, exec or ~Process miscount references.
AddressSpaceSafe ==
  /\ \A p \in table : pas[p] \in asLive
  /\ fault = "none" => loaded \in asLive

\* Round robin: a process waiting in the run queue is eventually chosen by
\* sched_next, unless the kernel has halted first.
QueuedEventuallyRuns ==
  \A p \in Pids : (p \in ToSet(queue)) ~> (current = p \/ fault # "none")

\* Spec section 8: at every quiescent point an address space's refcount is
\* the number of live processes referencing it.
RefcountExact ==
  \A a \in asLive : asRefs[a] = Cardinality({p \in table : pas[p] = a})

\* Spec section 4.4: when no process is runnable the scheduler's current
\* slot is null; switchTask must never dereference it.
NoSchedulerCrash == fault # "nosched"

\* A process is scheduled at most once: it is never both current and
\* queued, nor queued twice (a dangling copy outlives its terminate).
NoDuplicateInRunQueue ==
  /\ current \notin ToSet(queue)
  /\ \A i, j \in 1..Len(queue) : i # j => queue[i] # queue[j]

\* When the kernel returns to user mode, TTBR0 holds the address space of
\* the process that resumes.
LoadedIsCurrent ==
  Running => loaded = pas[current]

\* Spec section 3: backup_ctx is non-empty iff the state is SIGNAL.
BackupIffSignal ==
  \A p \in table : backup[p] <=> pstate[p] = "SIGNAL"

=============================================================================
