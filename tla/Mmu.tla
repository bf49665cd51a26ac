--------------------------------- MODULE Mmu ---------------------------------
(***************************************************************************)
(* The user half of virtual memory: memory/aarch64/mmu.cpp, memory/mmap.cpp *)
(* and the address-space part of Kernel::exec, syscall_mmap and            *)
(* syscall_munmap (kernel.cpp).                                            *)
(*                                                                         *)
(* A translation table is a frame of E entries (E stands for 512).  The   *)
(* walk has three levels; the last entry of a top table is the loopback,  *)
(* so the tables of the loaded space are themselves mapped at the fixed   *)
(* window userTables[0..2].  The code edits a mapping by a store through  *)
(* that window; a store whose window page is not mapped takes a write     *)
(* translation fault, and handlePageFault fills the missing tables with   *)
(* frames from pageAllocator.reserve and returns to retry the store.      *)
(*                                                                         *)
(* Addresses are counted in pages (vpn) and, inside the window, in        *)
(* entries: entry address A is entry A % E of page A \div E.  The code's  *)
(* shifts by 12 + 9 * level become divisions by powers of E.              *)
(*                                                                         *)
(* Frames are the buddy allocator's blocks, reserved by Buddy's own       *)
(* request and split arithmetic; nothing in the kernel frees a frame.     *)
(* hacf() halts the machine, so a halting step records `fault` and keeps  *)
(* the memory of the state before it: nothing can observe the rest.       *)
(***************************************************************************)
EXTENDS Naturals, Sequences, SequencesExt, FiniteSets

CONSTANTS E,            \* entries per translation table (512)
          MaxKVal,      \* the buddy block map has 2^MaxKVal frames
          BlockSize,    \* page_size, the buddy block size in bytes
          WordBits,     \* width of unsigned long in reserve's arithmetic
          AvailBlocks,  \* frames seeded from AVAILABLE memory
          NOMEM,        \* PageAllocator::NOMEM, also the frame NOMEM + p
          MaxSpaces,    \* bound on address spaces created by exec
          Program,      \* the LOAD segments of the exec'd ELF: [vaddr, size] in bytes
          StackPages,   \* pages of the user stack exec maps
          MapArgs,      \* [vpn, size] pairs passed to mmap and munmap
          MaxCalls      \* bound on syscalls

B == INSTANCE Buddy WITH blockMap <- [i \in {} |-> 0], avail <- <<>>,
       freeBlockCount <- 0, held <- <<>>, lastFailed <- 0, ReqSizes <- {}

VARIABLES mem,       \* frame -> entry index -> descriptor
          alloc,     \* the page allocator: [blockMap, avail]
          tops,      \* AddressSpace objects: id -> top table frame
          active,    \* id of the space in TTBR0 (0: the boot tables)
          scratch,   \* the kernel tables behind initializeTopTable's scratch page exist
          kframes,   \* ghost: frames filled into the kernel half
          data,      \* ghost: frames reserved for user memory
          promised,  \* ghost: space -> vpn -> frame map_region was asked for
          fault,     \* why the kernel halted, or NoFault
          calls

vars == <<mem, alloc, tops, active, scratch, kframes, data, promised, fault, calls>>

Frame == 0..(2^MaxKVal - 1)
NoFault == "none"
NoFrame == 0                   \* getPageFrame's "no frame"; frame 0 is never free
Ent == 0..(E - 1)
Pages == 0..(E^3 - 1)
UserPages == 0..((E - 1) * E^2 - 1)      \* below the table window
PageSize == BlockSize

\* userTables[0..2] in entry units: the window of leaf tables, of level-2
\* tables, and of the top table (mmu.cpp 160-163).
TBase == <<(E - 1) * E^3,
           (E - 1) * E^3 + (E - 1) * E^2,
           (E - 1) * E^3 + (E - 1) * E^2 + (E - 1) * E>>
Tables(i) == TBase[3 - i]      \* tables[i], i = 0 the top table

\* PageTableEntry after clear(), makeTableDescriptor and makePageDescriptor
\* (mmu.cpp 106-145).  All three set type = 1 on this half, so no block
\* descriptors exist here; apEL0 is kept, the other permission bits are
\* not observed by anything modelled.
Absent == [p |-> FALSE, user |-> FALSE, out |-> 0]
TableDesc(f) == [p |-> TRUE, user |-> FALSE, out |-> f]
PageDesc(f) == [p |-> TRUE, user |-> TRUE, out |-> f]

\* frame + p of map_region, in frames.  NOMEM is (physaddr_t)~0, so
\* NOMEM + p bytes wraps to p - 1: page p of a region mapped onto NOMEM
\* gets frame p - 1 (physicalAddress keeps addr >> 12), and only page 0
\* keeps the all-ones address, which is not RAM.
PhysPlus(f, p) == IF f = NOMEM THEN (IF p = 0 THEN NOMEM ELSE p - 1) ELSE f + p

Bind(e, Op(_)) == CHOOSE r \in {Op(x) : x \in {e}} : TRUE

\* The index of vpn at level lvl (1 = top).
Digit(v, lvl) == (v \div E^(3 - lvl)) % E

\* The hardware walk of TTBR0 = top for page vpn: the level of the
\* translation fault, or 0 and the descriptor found.
RECURSIVE WalkFrom(_, _, _, _)
WalkFrom(m, t, v, lvl) ==
  LET e == m[t][Digit(v, lvl)] IN
  IF ~e.p THEN [lvl |-> lvl, out |-> NoFrame, user |-> FALSE]
  ELSE IF lvl = 3 THEN [lvl |-> 0, out |-> e.out, user |-> e.user]
  ELSE IF e.out \notin Frame THEN [lvl |-> 4, out |-> NoFrame, user |-> FALSE]
  ELSE WalkFrom(m, e.out, v, lvl + 1)

Walk(m, t, v) == WalkFrom(m, t, v, 1)

\* What a user access to vpn reaches in space s: a frame, or NoFrame.
Translation(m, t, v) == LET w == Walk(m, t, v) IN IF w.lvl = 0 THEN w.out ELSE NoFrame

Halt(st, why) == [st EXCEPT !.fault = why]

\* pageAllocator.reserve(size), pageallocator.cpp 66-92, as Buddy.Reserve.
ReserveIn(al, size) ==
  LET k == B!RequestOrder(size)
      orders == {j \in k..MaxKVal : al.avail[j] # <<>>}
  IN IF orders = {} THEN [al |-> al, block |-> NOMEM, k |-> k]
     ELSE LET j == Min(orders)
              block == Last(al.avail[j])
          IN [al |-> B!SplitLoop([al EXCEPT !.blockMap[block].tag = B!RESERVED,
                                            !.avail[j] = Front(@)], block, j, k),
              block |-> block, k |-> k]

\* A store by the kernel to entry address A with no fault handling: the
\* stores fillTranslationTable makes from inside the fault handler.
StoreRaw(st, A, e) ==
  LET w == Walk(st.mem, st.top, A \div E) IN
  IF w.lvl = 0 /\ w.out \in Frame THEN [st EXCEPT !.mem[w.out][A % E] = e]
  ELSE Halt(st, "nested_fault")

\* A fill that stores the descriptor but keeps the allocator state from
\* before the reserve, so the frame is handed out again.
RECURSIVE FillLoopKeepsAllocator(_, _, _, _)
FillLoopKeepsAllocator(st, i, target, off) ==
  IF i >= target THEN st
  ELSE IF i < 0 THEN Halt(st, "tables_index_negative")
  ELSE LET r == ReserveIn(st.al, PageSize) IN
       IF r.block = NOMEM THEN Halt(st, "nomem_table")
       ELSE Bind(StoreRaw(st, Tables(i) + off \div E^(target - i), TableDesc(r.block)),
                 LAMBDA st1 : IF st1.fault # NoFault THEN st1
                              ELSE FillLoopKeepsAllocator(st1, i + 1, target, off))

\* fillTranslationTable(faultLevel, targetLevel, far), mmu.cpp 312-341:
\* for i from targetLevel + faultLevel - 4 below targetLevel, reserve a
\* frame (NOMEM: hacf) and store a table descriptor for it at
\* tables[i][farOffset >> (12 + 9 * (targetLevel - i - 1))].
RECURSIVE FillLoop(_, _, _, _)
FillLoop(st, i, target, off) ==
  IF i >= target THEN st
  ELSE IF i < 0 THEN Halt(st, "tables_index_negative")
  ELSE LET r == ReserveIn(st.al, PageSize) IN
       IF r.block = NOMEM THEN Halt(st, "nomem_table")
       ELSE Bind(StoreRaw([st EXCEPT !.al = r.al],
                          Tables(i) + off \div E^(target - i), TableDesc(r.block)),
                 LAMBDA st1 : IF st1.fault # NoFault THEN st1
                              ELSE FillLoop(st1, i + 1, target, off))

Fill(st, lvl, target, A) == FillLoop(st, target + lvl - 4, target, A - Tables(target))

\* handlePageFault, mmu.cpp 343-449, for a write translation fault at
\* level lvl on the user half (a walk through a non-RAM descriptor is not a
\* translation fault; the handler ignores it and the store faults forever).
HandlePageFault(st, lvl, A) ==
  CASE lvl = 4            -> Halt(st, "fault_loop")
    [] A >= Tables(0)     -> Halt(st, "unhandled_fault")
    [] A >= Tables(1)     -> Fill(st, lvl, 1, A)
    [] A >= Tables(2)     -> Fill(st, lvl, 2, A)
    [] OTHER              -> Halt(st, "unhandled_fault")

\* A kernel store through the window: on a translation fault the handler
\* runs and the store is retried once it returns.
SetEntry(st, A, e) ==
  LET w == Walk(st.mem, st.top, A \div E) IN
  IF w.lvl = 0 THEN StoreRaw(st, A, e)
  ELSE Bind(HandlePageFault(st, w.lvl, A),
            LAMBDA st1 : CASE st1.fault # NoFault -> st1
                           [] Walk(st1.mem, st1.top, A \div E).lvl = 0 -> StoreRaw(st1, A, e)
                           [] OTHER -> Halt(st1, "fault_loop"))

\* setPageEntry(0, page, frame, flags), mmu.cpp 230-262, on a user page:
\* the entry userTables[2][page >> 12].
SetPageEntry(st, v, f) == SetEntry(st, Tables(2) + v, PageDesc(f))

\* clearEntry(0, page), mmu.cpp 291-310.
ClearEntry(st, v) == SetEntry(st, Tables(2) + v, Absent)

\* A kernel load of entry address A through the window.
ReadEntry(st, A) ==
  LET w == Walk(st.mem, st.top, A \div E) IN
  IF w.lvl = 0 /\ w.out \in Frame THEN [fault |-> FALSE, e |-> st.mem[w.out][A % E]]
  ELSE [fault |-> TRUE, e |-> Absent]

\* A getPageFrame that indexes each level with the next level's index.
RECURSIVE GetLoopShiftOff(_, _, _)
GetLoopShiftOff(st, v, i) ==
  LET r == ReadEntry(st, Tables(i) + (IF i = 2 THEN v ELSE v \div E^(1 - i))) IN
  CASE r.fault -> [fault |-> TRUE, frame |-> NoFrame]
    [] ~r.e.p -> [fault |-> FALSE, frame |-> NoFrame]
    [] i = 2 -> [fault |-> FALSE, frame |-> r.e.out]
    [] OTHER -> GetLoopShiftOff(st, v, i + 1)

\* getPageFrame(page), mmu.cpp 205-227: read tables[i][linear >> (30 - 9i)]
\* for i = 0, 1 and stop at an absent entry, then tables[2][linear >> 12].
\* (Every descriptor here has type 1, so the block case never returns.)
RECURSIVE GetLoop(_, _, _)
GetLoop(st, v, i) ==
  LET r == ReadEntry(st, Tables(i) + v \div E^(2 - i)) IN
  CASE r.fault -> [fault |-> TRUE, frame |-> NoFrame]
    [] ~r.e.p -> [fault |-> FALSE, frame |-> NoFrame]
    [] i = 2 -> [fault |-> FALSE, frame |-> r.e.out]
    [] OTHER -> GetLoop(st, v, i + 1)

GetPageFrame(st, v) == GetLoop(st, v, 0)

\* A map_region that maps every page onto the first frame.
RECURSIVE MapLoopSameFrame(_, _, _, _)
MapLoopSameFrame(st, v, n, f) ==
  IF n = 0 THEN st
  ELSE Bind(SetPageEntry(st, v, f),
            LAMBDA st1 : IF st1.fault # NoFault THEN st1
                         ELSE MapLoopSameFrame(st1, v + 1, n - 1, f))

\* map_region(addr, size, frame, flags), mmap.cpp 29-37: setPageEntry for
\* each page; `promised` records what was asked for.
RECURSIVE MapLoop(_, _, _, _)
MapLoop(st, v, n, f) ==
  IF n = 0 THEN st
  ELSE Bind(SetPageEntry(st, v, f),
            LAMBDA st1 : IF st1.fault # NoFault THEN st1
                         ELSE MapLoop(st1, v + 1, n - 1, PhysPlus(f, 1)))

MapRegion(st, v, n, f) ==
  Bind(MapLoop(st, v, n, f),
       LAMBDA st1 : [st1 EXCEPT !.promised[st.sp] =
                       [u \in UserPages |-> IF u \in v..(v + n - 1)
                                            THEN PhysPlus(f, u - v) ELSE @[u]]])

\* unmap_region(addr, size), mmap.cpp 39-46.
RECURSIVE UnmapLoop(_, _, _)
UnmapLoop(st, v, n) ==
  IF n = 0 THEN st
  ELSE Bind(ClearEntry(st, v),
            LAMBDA st1 : IF st1.fault # NoFault THEN st1 ELSE UnmapLoop(st1, v + 1, n - 1))

UnmapRegion(st, v, n) ==
  Bind(UnmapLoop(st, v, n),
       LAMBDA st1 : [st1 EXCEPT !.promised[st.sp] =
                       [u \in UserPages |-> IF u \in v..(v + n - 1) THEN NoFrame ELSE @[u]]])

\* Pages a loop `for (p = 0; p < size; p += page_size)` visits.
NPages(size) == (size + PageSize - 1) \div PageSize

\* The kernel-half tables behind initializeTopTable's scratch page.  The
\* bootstrap (bootstrap.cpp 228-247) and the boot block mapping
\* (aarch64.cpp 52) leave the scratch page's top entry absent, so the
\* first setPageEntry on it takes a level-2 fault and fills two tables.
ScratchLevels == 2

RECURSIVE ScratchFill(_, _)
ScratchFill(st, n) ==
  IF n = 0 THEN [st EXCEPT !.scratch = TRUE]
  ELSE LET r == ReserveIn(st.al, PageSize) IN
       IF r.block = NOMEM THEN Halt(st, "nomem_table")
       ELSE ScratchFill([st EXCEPT !.al = r.al, !.kframes = @ \cup {r.block}], n - 1)

\* initializeTopTable(frame), mmu.cpp 178-190: map the scratch page to the
\* frame, zero entries 0..510, make entry 511 a table descriptor for the
\* frame itself (the loopback), and map the scratch page back.
InitializeTopTable(st, f) ==
  Bind(IF st.scratch THEN st ELSE ScratchFill(st, ScratchLevels),
       LAMBDA st1 : IF st1.fault # NoFault THEN st1
                    ELSE [st1 EXCEPT !.mem[f] = [i \in Ent |-> IF i = E - 1 THEN TableDesc(f)
                                                                 ELSE Absent]])

\* buildProgramImage(elf), elf.cpp 47-89, per LOAD segment: reserve its
\* memsize (NOMEM: return -1, which exec ignores); diff = dest % page_size;
\* when getPageFrame(dest) is 0 map sectionSize + diff bytes from
\* dest - diff, otherwise sectionSize - (page_size - diff) bytes from the
\* next page (an unsigned subtraction: a segment ending inside dest's page
\* wraps it and map_region runs on into the table window, a halt here);
\* memset(dest, sectionSize, 0) has its arguments swapped and writes
\* nothing; memcpy(dest, src, filesize) halts on an unmapped user page.
\* The file size is the segment's size.
RECURSIVE BuildProgramImage(_, _)
BuildProgramImage(st, secs) ==
  IF secs = <<>> THEN st
  ELSE LET s == Head(secs)
           r == ReserveIn(st.al, s.size)
           vpn == s.vaddr \div PageSize
           diff == s.vaddr % PageSize
           g == GetPageFrame(st, vpn)
           mapPage == IF g.frame = NoFrame THEN vpn ELSE vpn + 1
           mapSize == IF g.frame = NoFrame THEN s.size + diff
                      ELSE s.size - (PageSize - diff)
       IN CASE r.block = NOMEM -> st
            [] g.fault -> Halt(st, "unhandled_fault")
            [] mapSize < 0 -> Halt(st, "map_size_wraps")
            [] OTHER ->
               Bind(MapRegion([st EXCEPT !.al = r.al,
                                         !.data = @ \cup B!BlockFrames(r.block, r.k)],
                              mapPage, NPages(mapSize), r.block),
                    LAMBDA st1 :
                      CASE st1.fault # NoFault -> st1
                        [] \E u \in vpn..((s.vaddr + s.size - 1) \div PageSize) :
                             Translation(st1.mem, st1.top, u) = NoFrame ->
                             Halt(st1, "unhandled_fault")
                        [] OTHER -> BuildProgramImage(st1, Tail(secs)))

\* The first page of the user stack, 0x7FBFFF0000: StackPages below the window.
StackBase == (E - 1) * E^2 - StackPages

\* Kernel::exec, kernel.cpp 480-485: createAddressSpace (mmap.cpp 9-21:
\* reserve a top frame, NOMEM gives nullptr, which loadAddressSpace then
\* dereferences), initializeTopTable, loadAddressSpace, buildProgramImage,
\* and map_region of the stack onto reserve(0x10000), whose NOMEM is not
\* checked.
ExecSt(st) ==
  LET r == ReserveIn(st.al, PageSize)
      id == Len(st.tops) + 1
  IN IF r.block = NOMEM THEN Halt(st, "exec_null_space")
     ELSE Bind(InitializeTopTable([st EXCEPT !.al = r.al], r.block),
       LAMBDA st1 :
         IF st1.fault # NoFault THEN st1
         ELSE Bind(BuildProgramImage(
                     [st1 EXCEPT !.tops = Append(@, r.block), !.top = r.block, !.sp = id,
                                 !.promised = [i \in 1..id |-> IF i < id THEN @[i]
                                                  ELSE [u \in UserPages |-> NoFrame]]],
                     Program),
           LAMBDA st2 :
             IF st2.fault # NoFault THEN st2
             ELSE LET rs == ReserveIn(st2.al, StackPages * PageSize) IN
                  MapRegion([st2 EXCEPT !.al = rs.al,
                                        !.data = @ \cup (IF rs.block = NOMEM THEN {}
                                                         ELSE B!BlockFrames(rs.block, rs.k))],
                            StackBase, StackPages, rs.block)))

State == [mem |-> mem, al |-> alloc, tops |-> tops, sp |-> active,
          top |-> IF active = 0 THEN NoFrame ELSE tops[active],
          scratch |-> scratch, kframes |-> kframes, data |-> data,
          promised |-> promised, fault |-> NoFault]

\* The end of a syscall: its effects, or only the halt.
Finish(st) ==
  IF st.fault # NoFault
  THEN /\ fault' = st.fault
       /\ UNCHANGED <<mem, alloc, tops, active, scratch, kframes, data, promised>>
  ELSE /\ mem' = st.mem
       /\ alloc' = st.al
       /\ tops' = st.tops
       /\ active' = st.sp
       /\ scratch' = st.scratch
       /\ kframes' = st.kframes
       /\ data' = st.data
       /\ promised' = st.promised
       /\ UNCHANGED fault

Init ==
  /\ mem = [f \in Frame |-> [i \in Ent |-> Absent]]
  /\ alloc = [blockMap |-> B!Seeded.blockMap, avail |-> B!Seeded.avail]
  /\ tops = <<>>
  /\ active = 0
  /\ scratch = FALSE
  /\ kframes = {}
  /\ data = {}
  /\ promised = <<>>
  /\ fault = NoFault
  /\ calls = 0

\* exec of a program into a new address space.
Exec == Len(tops) < MaxSpaces /\ \E st \in {ExecSt(State)} : Finish(st)

\* syscall_mmap(ptr, size, flags), kernel.cpp 58-70.
Mmap(a) ==
  /\ active # 0
  /\ LET r == ReserveIn(alloc, a.size) IN
     IF r.block = NOMEM THEN UNCHANGED <<mem, alloc, tops, active, scratch, kframes, data, promised, fault>>
     ELSE \E st \in {MapRegion([State EXCEPT !.al = r.al,
                                             !.data = @ \cup B!BlockFrames(r.block, r.k)],
                               a.vpn, NPages(a.size), r.block)} : Finish(st)

\* syscall_munmap(ptr, size), kernel.cpp 72-77.
Munmap(a) ==
  /\ active # 0
  /\ \E st \in {UnmapRegion(State, a.vpn, NPages(a.size))} : Finish(st)

\* loadAddressSpace(space), mmu.cpp 168-176, when the scheduler switches to
\* a process of another space.
Load(s) ==
  /\ active # 0 /\ s # active
  /\ active' = s
  /\ UNCHANGED <<mem, alloc, tops, scratch, kframes, data, promised, fault>>

Next ==
  /\ fault = NoFault
  /\ calls < MaxCalls
  /\ calls' = calls + 1
  /\ \/ Exec
     \/ \E a \in MapArgs : Mmap(a) \/ Munmap(a)
     \/ \E s \in 1..Len(tops) : Load(s)

Spec == Init /\ [][Next]_vars
-----------------------------------------------------------------------------
\* What a descriptor may point at: a frame of the block map, a frame above
\* it (frame + p past the last frame), or the all-ones NOMEM address.
PhysFrame == Nat \cup {NOMEM}

Entry == [p : BOOLEAN, user : BOOLEAN, out : PhysFrame]

\* The frames on the allocator's free lists.
FreeFrames == UNION {UNION {B!BlockFrames(alloc.avail[k][i], k) : i \in 1..Len(alloc.avail[k])} :
                      k \in 0..MaxKVal}

\* The tables of space s: its top, the level-2 tables its top entries name
\* (the loopback excluded) and the leaf tables those name.
TopEntries(s) == {i \in 0..(E - 2) : mem[tops[s]][i].p}
Level2(s) == {mem[tops[s]][i].out : i \in TopEntries(s)} \cap Frame
Level2Entries(s) == {<<f, j>> \in Level2(s) \X Ent : mem[f][j].p}
Leaves(s) == {mem[x[1]][x[2]].out : x \in Level2Entries(s)} \cap Frame
TableFrames(s) == {tops[s]} \cup Level2(s) \cup Leaves(s)
Mapped(s) == {mem[x[1]][x[2]].out : x \in {x \in Leaves(s) \X Ent : mem[x[1]][x[2]].p}}

TypeOK ==
  /\ mem \in [Frame -> [Ent -> Entry]]
  /\ alloc.avail \in [0..MaxKVal -> Seq(Frame)]
  /\ tops \in Seq(Frame) /\ Len(tops) <= MaxSpaces
  /\ active \in 0..Len(tops)
  /\ scratch \in BOOLEAN
  /\ kframes \subseteq Frame /\ data \subseteq Frame
  /\ promised \in [1..Len(tops) -> [UserPages -> Frame \cup {NOMEM}]]
  /\ fault \in {NoFault, "nomem_table", "exec_null_space", "unhandled_fault",
                "fault_loop", "nested_fault", "tables_index_negative",
                "map_size_wraps"}
  /\ calls \in 0..MaxCalls

\* Spec 8 (VirtualMemory): after map_region(v, s, p) every page v + i
\* translates to p + i, and after unmap_region it translates to nothing,
\* in every address space, however the demand fills of later stores
\* (fillTranslationTable) and the exec of other spaces interleave.
MapRoundTrip ==
  \A s \in 1..Len(tops), v \in UserPages : Translation(mem, tops[s], v) = promised[s][v]

\* Every frame has one use: the free lists, the kernel tables, user memory
\* reserved by mmap and exec, or exactly one table position of exactly one
\* address space.  Frames filled in by the fault handler come from reserve
\* and go nowhere else, whatever the user pages map.
FramesExclusive ==
  /\ FreeFrames \cap (kframes \cup data) = {}
  /\ kframes \cap data = {}
  /\ \A s \in 1..Len(tops) :
       /\ TableFrames(s) \cap (FreeFrames \cup kframes \cup data) = {}
       /\ Cardinality(Level2(s)) = Cardinality(TopEntries(s))
       /\ Cardinality(Leaves(s)) = Cardinality(Level2Entries(s))
       /\ tops[s] \notin Level2(s) \cup Leaves(s)
       /\ Level2(s) \cap Leaves(s) = {}
  /\ \A s, t \in 1..Len(tops) : s # t => TableFrames(s) \cap TableFrames(t) = {}

\* The user pages the tables of space s map, with their frames (a frame
\* of 0, the kernel image, is a mapping too: the walk, not NoFrame, says).
UserMappings ==
  UNION {{<<s, u, Walk(mem, tops[s], u).out>> :
            u \in {v \in UserPages : Walk(mem, tops[s], v).lvl = 0}} :
           s \in 1..Len(tops)}

\* Every mapped user page of every address space has a frame of its own
\* that mmap or exec reserved for user memory (the all-ones NOMEM address,
\* which is not RAM, aside): no user page reaches the kernel image, a
\* translation table, a free frame, or the frame of another user page,
\* whatever exec's segment layout and its unchecked stack reserve.
UserFramesExclusive ==
  \A x \in UserMappings : x[3] # NOMEM =>
    /\ x[3] \in data
    /\ \A y \in UserMappings : y[3] = x[3] => y = x

\* getPageFrame, which reads the loaded space's tables through the loopback
\* window, returns what the hardware walk of that space translates each
\* user page to (elf.cpp decides from it whether a segment's first page is
\* already mapped).
GetPageFrameAgrees ==
  active # 0 =>
    \A v \in UserPages :
      GetPageFrame(State, v) = [fault |-> FALSE, frame |-> Translation(mem, tops[active], v)]
====
