-------------------------------- MODULE Files -------------------------------
(***************************************************************************)
(* Per-process file-descriptor tables (Process::files, a                   *)
(* binary_search_tree<int, FileContext *>) composed with the refcounted    *)
(* FileContext objects and the reader/writer counts of the pipes they are  *)
(* ends of.  src/sched/process.cpp (storeFileContext, closeFileContext,    *)
(* clone, the copy constructor, ~Process), src/kernel.cpp (open, close,    *)
(* fddup, create_pipe, clone, terminate, exec's standard streams),         *)
(* src/fs/pipe.cpp (reader/writer construction and destruction), and the   *)
(* process table (Kernel::processTable, a binary_search_tree<pid_t,        *)
(* Process> holding each Process by value), whose insert copy-constructs  *)
(* a Process and whose remove moves Processes by operator=.                *)
(*                                                                         *)
(* Each syscall runs to completion on the single core, so each is one      *)
(* atomic step; which process makes it is left open.  The bytes in a pipe  *)
(* are the business of Pipe.tla: read and write on a descriptor do not     *)
(* change any state modelled here.                                         *)
(***************************************************************************)
EXTENDS Tree, Bags, BagsExt, FiniteSets

Seqs == INSTANCE SequencesExt

CONSTANTS Procs,     \* Process contents (one per live pid)
          CtxIds,    \* heap addresses a FileContext may occupy
          PipeIds,   \* heap addresses a Pipe may occupy
          Fds,       \* descriptor numbers passed to close and fddup
          Init0,     \* the slot of the process running at boot
          MaxCalls   \* bound on the number of syscalls in a behaviour


VARIABLES ptable,    \* Kernel::processTable: pid -> the Process slot it holds
          files,     \* files[p]: the fd table of p, a Tree
          ctx,       \* the live FileContexts: kind, pipe, refcount
          pipe,      \* the live Pipes: readerCount, writerCount
          keys,      \* keys[p]: the descriptors p has stored and not closed
                     \* (a bag: a ghost of what the table should hold)
          fault,     \* "none", or why the kernel halted
          calls      \* syscalls made so far (bounded by MaxCalls)

vars == <<ptable, files, ctx, pipe, keys, fault, calls>>

NoPipe == 0
Kinds  == {"file", "reader", "writer"}

\* The heaps: a FileContext or Pipe slot keeps its last contents after
\* `delete` with live = FALSE (what a stale pointer reads).
FreeCtx  == [live |-> FALSE, kind |-> "file", pipe |-> NoPipe, refs |-> 0]
FreePipe == [live |-> FALSE, readers |-> 0, writers |-> 0]

RECURSIVE Repeat(_, _)
Repeat(x, n) == IF n = 0 THEN <<>> ELSE Repeat(x, n - 1) \o <<x>>

LiveCtx(st)  == {c \in CtxIds : st.ctx[c].live}
LivePipe(st) == {q \in PipeIds : st.pipe[q].live}

\* The record the loops below thread through: one syscall's view.
State == [files |-> files, ctx |-> ctx, pipe |-> pipe, keys |-> keys]

FreshCtx(st)  == CHOOSE c \in CtxIds : ~st.ctx[c].live
FreshPipe(st) == CHOOSE q \in PipeIds : ~st.pipe[q].live

\* Both endpoint constructors bump the reader count.
NewCtxReaderOnly(st, c, kind, pp) ==
  [st EXCEPT !.ctx[c] = [live |-> TRUE, kind |-> kind, pipe |-> pp, refs |-> 0],
             !.pipe = IF kind # "file" THEN [@ EXCEPT ![pp].readers = @ + 1] ELSE @]

\* `new PipeReader(pipe)`, `new PipeWriter(pipe)` (pipe.cpp 101-105,
\* 139-143: the constructor bumps the pipe's count), or a file or stream
\* context; HasRefcount starts at 0.
NewCtx(st, c, kind, pp) ==
  [st EXCEPT !.ctx[c] = [live |-> TRUE, kind |-> kind, pipe |-> pp, refs |-> 0],
             !.pipe = CASE kind = "reader" -> [@ EXCEPT ![pp].readers = @ + 1]
                        [] kind = "writer" -> [@ EXCEPT ![pp].writers = @ + 1]
                        [] OTHER -> @]

\* `delete fc`: ~PipeReader / ~PipeWriter (pipe.cpp 107-114, 145-152) drop
\* the count and delete the pipe once both counts are 0.
DeleteCtx(st, c) ==
  LET k  == st.ctx[c].kind
      pp == st.ctx[c].pipe
      p1 == CASE k = "reader" -> [st.pipe EXCEPT ![pp].readers = @ - 1]
              [] k = "writer" -> [st.pipe EXCEPT ![pp].writers = @ - 1]
              [] OTHER -> st.pipe
  IN [st EXCEPT !.ctx[c].live = FALSE,
                !.pipe = IF k # "file" /\ p1[pp].readers = 0 /\ p1[pp].writers = 0
                         THEN [p1 EXCEPT ![pp].live = FALSE] ELSE p1]

\* The descriptor is inserted without addReference().
PutNoReference(st, pr, fd, c) ==
  [st EXCEPT !.files[pr] = Insert(@, fd, c), !.keys[pr] = BagAdd(@, fd)]

\* files.insert(fd, f) and f->addReference().
Put(st, pr, fd, c) ==
  [st EXCEPT !.files[pr] = Insert(@, fd, c),
             !.ctx[c].refs = @ + 1,
             !.keys[pr] = BagAdd(@, fd)]

\* storeFileContext(f), process.cpp 296-302: the new descriptor is
\* files.size(), whether or not that number is in use.
Store(st, pr, c) == Put(st, pr, st.files[pr].size, c)

\* storeFileContext(f, fd), process.cpp 304-316: EEXISTS when fd is taken.
StoreAt(st, pr, fd, c) == IF Contains(st.files[pr], fd) THEN st ELSE Put(st, pr, fd, c)

\* closeFileContext(fd), process.cpp 318-334: look up, remove from the
\* table, drop a reference, delete the context at refcount <= 0.
CloseFd(st, pr, fd) ==
  IF ~Contains(st.files[pr], fd) THEN st
  ELSE LET c == Get(st.files[pr], fd) IN
       Then([st EXCEPT !.files[pr] = Delete(@, fd),
                       !.ctx[c].refs = @ - 1,
                       !.keys[pr] = BagRemove(@, fd)],
            LAMBDA st1 : IF st1.ctx[c].refs <= 0 THEN DeleteCtx(st1, c) ELSE st1)

\* Kernel::exec after loading, kernel.cpp 497-544: for descriptors 0, 1, 1
\* again and 2, a missing one gets a new log-stream context stored there.
RECURSIVE StdStreams(_, _, _)
StdStreams(st, pr, fds) ==
  IF fds = <<>> THEN st
  ELSE LET fd == Head(fds)
           c  == FreshCtx(st)
       IN Then(IF Contains(st.files[pr], fd) THEN st
               ELSE StoreAt(NewCtx(st, c, "file", NoPipe), pr, fd, c),
               LAMBDA st1 : StdStreams(st1, pr, Tail(fds)))

StdFds == <<0, 1, 1, 2>>

\* Process::clone, process.cpp 129-132: for each fd of the parent, in
\* iteration order, store parent's context's copy() at the same fd of the
\* new Process (EEXISTS, and a leaked copy, when that fd is taken).
RECURSIVE CopyLoop(_, _, _, _)
CopyLoop(st, p, q, fds) ==
  IF fds = <<>> THEN st
  ELSE LET fd == Head(fds)
           c  == Get(st.files[p], fd)
           n  == FreshCtx(st)
       IN Then(StoreAt(NewCtx(st, n, st.ctx[c].kind, st.ctx[c].pipe), q, fd, n),
               LAMBDA st1 : CopyLoop(st1, p, q, Tail(fds)))

\* Process(Process &other), process.cpp 63-66: the same loop storing the
\* other's contexts themselves (one more reference each).
RECURSIVE CtorLoop(_, _, _, _)
CtorLoop(st, q, t, fds) ==
  IF fds = <<>> THEN st
  ELSE Then(StoreAt(st, q, Head(fds), Get(t, Head(fds))),
            LAMBDA st1 : CtorLoop(st1, q, t, Tail(fds)))

\* ~Process, process.cpp 81-84: `for (int fd : files) closeFileContext(fd)`.
\* The iterator is advanced from the node it stood on after that node's key
\* was closed: the node may have been refilled from its successor or
\* deleted, and is then read through a stale pointer.  `stale` records
\* that the loop read a deleted node.
RECURSIVE CloseLoop(_, _, _, _)
CloseLoop(st, pr, it, stale) ==
  IF it = Nil THEN [st |-> st, stale |-> stale]
  ELSE Then(CloseFd(st, pr, At(st.files[pr], it).key),
            LAMBDA st1 : CloseLoop(st1, pr, Advance(st1.files[pr], it),
                                   stale \/ ~st.files[pr].node[it].live
                                         \/ ~st1.files[pr].node[it].live))

\* The Process slots on the successor chain from node n of the process
\* table: node::replace (binary_search_tree.h 154-173) walks it before
\* changing any link.
RECURSIVE ChainFrom(_, _)
ChainFrom(t, n) == IF n = Nil THEN <<>> ELSE <<t.node[n].val>> \o ChainFrom(t, Successor(t, n))

\* node::replace's `value = other->value` down the chain: the Process
\* object whose fd tree is in slot a takes each next Process in `rest` by
\* Process::operator= (process.cpp 336-381): it closes its own
\* descriptors (the loop of ~Process) and stores the other's contexts at
\* their fds (EEXISTS where a skipped descriptor is left).  That object
\* then holds the next slot's contents, and the next object, whose tree
\* moves to slot a, is the one overwritten in turn.
RECURSIVE Overwrite(_, _, _)
Overwrite(r, a, rest) ==
  IF rest = <<>> THEN r
  ELSE LET b == Head(rest) IN
       Then(CloseLoop(r.st, a, Begin(r.st.files[a]), r.stale), LAMBDA c :
       Then(CtorLoop(c.st, a, c.st.files[b], InOrder(c.st.files[b])), LAMBDA s1 :
         Overwrite([st |-> [s1 EXCEPT !.files[a] = s1.files[b], !.files[b] = s1.files[a],
                                      !.keys[a] = s1.keys[b], !.keys[b] = s1.keys[a]],
                    stale |-> c.stale], a, Tail(rest))))

Init ==
  LET empty == [files |-> [p \in Procs |-> EmptyTree],
                ctx   |-> Repeat(FreeCtx, Cardinality(CtxIds)),
                pipe  |-> Repeat(FreePipe, Cardinality(PipeIds)),
                keys  |-> [p \in Procs |-> EmptyBag]]
      st    == StdStreams(empty, Init0, StdFds)
  IN /\ ptable = Insert(EmptyTree, 0, Init0)
     /\ files = st.files
     /\ ctx = st.ctx
     /\ pipe = st.pipe
     /\ keys = st.keys
     /\ fault = "none"
     /\ calls = 0

\* The end of a syscall: its state becomes the next state, with every
\* fd table settled (Tree.Settle: node addresses never outlive a syscall).
Commit(st) ==
  /\ files' = [p \in Procs |-> Settle(st.files[p])]
  /\ ctx' = st.ctx
  /\ pipe' = st.pipe
  /\ keys' = st.keys

ASSUME Procs = 1..Cardinality(Procs) /\ CtxIds = 1..Cardinality(CtxIds)
       /\ PipeIds = 1..Cardinality(PipeIds)

Running == fault = "none"

\* The Process slots the process table holds.
Alive == {ptable.node[n].val : n \in Live(ptable)}

\* The node of the table holding slot p.
PNode(p) == CHOOSE n \in Live(ptable) : ptable.node[n].val = p

\* The process table settled, with each pid replaced by its rank.  Pids
\* come from Kernel::nextPid, which only grows, and are only compared, so
\* a new pid is any number above those in the table: Cardinality(Alive).
RECURSIVE Ranked(_, _)
Ranked(nodes, i) ==
  IF i = 0 THEN <<>>
  ELSE Ranked(nodes, i - 1) \o
       <<IF nodes[i].live THEN [nodes[i] EXCEPT !.key = i - 1] ELSE nodes[i]>>

Canon(t) == Then(Settle(t), LAMBDA s : [s EXCEPT !.node = Ranked(@, Len(@))])

FreeCtxCount == Cardinality(CtxIds \ LiveCtx(State))
Room(p, n)   == Cardinality(NodeIds \ Live(files[p])) >= n

\* syscall_open, kernel.cpp 202-221, for a path that is a file: a new
\* FileContextFAT32 stored at files.size().  (No RAM FS or no such file
\* returns EIO or ENOFILE and changes nothing.)
Open(p) ==
  /\ FreeCtxCount >= 1 /\ Room(p, 1)
  /\ LET c == FreshCtx(State) IN Commit(Store(NewCtx(State, c, "file", NoPipe), p, c))
  /\ UNCHANGED <<ptable, fault>>

\* syscall_close, kernel.cpp 223-226.
Close(p, fd) ==
  /\ Commit(CloseFd(State, p, fd))
  /\ UNCHANGED <<ptable, fault>>

\* syscall_fddup, kernel.cpp 267-290: look up oldfd; close newfd if it is
\* open; store oldfd's context at newfd.  When newfd = oldfd held the last
\* reference, the context was deleted by the close and the pointer stored
\* and addReference()d is dangling: the kernel has used freed memory.
Fddup(p, old, new) ==
  /\ Contains(files[p], old) /\ Room(p, 1)
  /\ LET c == Get(files[p], old) IN
     \E st1 \in {CloseFd(State, p, new)} :
        IF st1.ctx[c].live \/ Contains(st1.files[p], new)
        THEN Commit(StoreAt(st1, p, new, c)) /\ UNCHANGED fault
        ELSE /\ Commit([st1 EXCEPT !.files[p] = Insert(@, new, c),
                                   !.keys[p] = BagAdd(@, new)])
             /\ fault' = "fddup_freed_context"
  /\ UNCHANGED ptable

\* syscall_create_pipe, kernel.cpp 292-322: a Pipe, its reader and its
\* writer, stored at files.size() one after the other.
CreatePipe(p) ==
  /\ FreeCtxCount >= 2 /\ Room(p, 2) /\ LivePipe(State) # PipeIds
  /\ LET q   == FreshPipe(State)
         st0 == [State EXCEPT !.pipe[q] = [live |-> TRUE, readers |-> 0, writers |-> 0]]
         r   == FreshCtx(st0)
         st1 == NewCtx(st0, r, "reader", q)
         w   == FreshCtx(st1)
         st2 == NewCtx(st1, w, "writer", q)
     IN \E st3 \in {Store(st2, p, r)} : Commit(Store(st3, p, w))
  /\ UNCHANGED <<ptable, fault>>

\* syscall_exec's tail (Kernel::exec, kernel.cpp 497-544) on success.
Exec(p) ==
  /\ FreeCtxCount >= 3 /\ Room(p, 3)
  /\ Commit(StdStreams(State, p, StdFds))
  /\ UNCHANGED <<ptable, fault>>

\* syscall_clone, kernel.cpp 79-86: Process::clone (process.cpp 111-135)
\* builds `copy` with copies of every context (CopyLoop); addProcess
\* (kernel.cpp 379-387) inserts it into the process table by value, so
\* the table's Process is copy-constructed from it (process.cpp 36-67,
\* CtorLoop) and `copy` itself is never deleted.
Clone(p, q) ==
  /\ q \notin Alive /\ HasRoom(ptable)
  /\ FreeCtxCount >= files[p].size /\ Room(q, files[p].size)
  /\ LET st0 == [State EXCEPT !.files[q] = EmptyTree, !.keys[q] = EmptyBag] IN
     \E st1 \in {CopyLoop(st0, p, q, InOrder(files[p]))} :
       Commit(CtorLoop([st1 EXCEPT !.files[q] = EmptyTree, !.keys[q] = EmptyBag],
                       q, st1.files[q], InOrder(st1.files[q])))
  /\ ptable' = Canon(Insert(ptable, Cardinality(Alive), q))
  /\ UNCHANGED fault

\* syscall_terminate, kernel.cpp 88-93, as far as descriptors go:
\* deleteActiveProcess (kernel.cpp 399-403) removes the pid from the
\* process table.  remove_rec refills p's node down its successor chain,
\* each node's Process taking the next one's by operator= (Overwrite),
\* and deletes the last node, whose Process is destroyed: ~Process runs
\* CloseLoop on it, then its files tree's destructor calls clear(), whose
\* clear_rec(root) reads root->left even when root is null
\* (binary_search_tree.h 252-258, 518-534; the page-fault handler panics
\* on that read, mmu.cpp 404-408).  Reading a deleted tree node either
\* finds its old contents (the loop goes on from them) or faults.
Terminate(p) ==
  LET n == PNode(p) IN
  \E r0 \in {Overwrite([st |-> State, stale |-> FALSE], p, Tail(ChainFrom(ptable, n)))} :
  \E r \in {CloseLoop(r0.st, p, Begin(r0.st.files[p]), r0.stale)} :
  \/ /\ r.stale
     /\ fault' = "freed_tree_node"
     /\ UNCHANGED <<ptable, files, ctx, pipe, keys>>
  \/ /\ r.st.files[p].root = Nil
     /\ fault' = "clear_null_root"
     /\ UNCHANGED <<ptable, files, ctx, pipe, keys>>
  \/ /\ r.st.files[p].root # Nil
     /\ Commit([r.st EXCEPT !.files[p] = EmptyTree, !.keys[p] = EmptyBag])
     /\ ptable' = Canon(Delete(ptable, ptable.node[n].key))
     /\ UNCHANGED fault

Next ==
  /\ Running /\ calls < MaxCalls
  /\ calls' = calls + 1
  /\ \E p \in Alive :
       \/ Open(p)
       \/ \E fd \in Fds : Close(p, fd)
       \/ \E old, new \in Fds : Fddup(p, old, new)
       \/ CreatePipe(p)
       \/ Exec(p)
       \/ \E q \in Procs : Clone(p, q)
       \/ Terminate(p)

Spec == Init /\ [][Next]_vars

-----------------------------------------------------------------------------
\* The fd-table entries of live processes that point at context c.
Holders(c) == Cardinality({<<p, n>> \in Alive \X NodeIds :
                             files[p].node[n].live /\ files[p].node[n].val = c})

\* The pipes whose writer ends some live process can still reach.
WriterHeld(pp) == \E p \in Alive : \E n \in Live(files[p]) :
                    LET c == files[p].node[n].val IN
                    ctx[c].live /\ ctx[c].kind = "writer" /\ ctx[c].pipe = pp

TypeOK ==
  /\ Alive \subseteq Procs
  /\ ctx \in [CtxIds -> [live : BOOLEAN, kind : Kinds, pipe : PipeIds \cup {NoPipe},
                         refs : Nat]]
  /\ pipe \in [PipeIds -> [live : BOOLEAN, readers : Nat, writers : Nat]]
  /\ \A p \in Procs : \A n \in Live(files[p]) : files[p].node[n].val \in CtxIds
  /\ \A p \in Procs : files[p].size \in 0..Cardinality(NodeIds)
  /\ fault \in {"none", "fddup_freed_context", "freed_tree_node", "clear_null_root"}
  /\ calls \in 0..MaxCalls

\* Every fd table of a live process is a well-formed search tree holding
\* exactly the descriptors stored and not yet closed: parent and child
\* links agree, iteration visits every node once in non-decreasing key
\* order, _size counts the nodes, and the keys are those that
\* storeFileContext inserted minus those closeFileContext removed -- after
\* any sequence of inserts (duplicates included), removals through
\* replace/successor chains and AVL rotations.
FdTablesWellFormed ==
  \A p \in Alive :
    LET t == files[p]
        s == InOrder(t)
    IN /\ t.root = Nil \/ t.node[t.root].parent = Nil
       /\ \A n \in Live(t) : \A side \in {"left", "right"} :
            t.node[n][side] = Nil \/ t.node[t.node[n][side]].parent = n
       /\ Len(s) = Cardinality(Live(t))
       /\ t.size = Len(s)
       /\ Seqs!IsSorted(s, LAMBDA a, b : a <= b)
       /\ Seqs!ToBag(s) = keys[p]

\* A FileContext is never freed, and never has fewer references than
\* there are descriptors of live processes pointing at it
\* (closeFileContext deletes at refcount 0).
RefcountCoversHolders == \A c \in LiveCtx(State) : ctx[c].refs >= Holders(c)

\* The reader and writer counts of every live pipe are the numbers of live
\* PipeReader and PipeWriter objects on it, and no live end points at a
\* deleted pipe (pipe.cpp constructors and destructors).
PipeEndsCounted ==
  /\ \A c \in LiveCtx(State) : ctx[c].kind # "file" => pipe[ctx[c].pipe].live
  /\ \A pp \in LivePipe(State) :
       /\ pipe[pp].readers = Cardinality({c \in LiveCtx(State) : ctx[c].kind = "reader" /\ ctx[c].pipe = pp})
       /\ pipe[pp].writers = Cardinality({c \in LiveCtx(State) : ctx[c].kind = "writer" /\ ctx[c].pipe = pp})

\* No descriptor of a live process refers to a deleted FileContext
\* (fddup, clone and close are meant to keep every stored pointer live).
NoDanglingDescriptor ==
  \A p \in Alive : \A n \in Live(files[p]) : ctx[files[p].node[n].val].live

\* Once no live process holds a writer end of a pipe, its writer count is
\* 0, so PipeReader::read on the drained pipe returns EEOF (pipe.cpp
\* 113-123; spec test 4, "subsequent read returns EEOF after all writers
\* closed").
NoWriterMeansEOF == \A pp \in LivePipe(State) : ~WriterHeld(pp) => pipe[pp].writers = 0
=============================================================================
