-------------------------------- MODULE Buddy --------------------------------
(***************************************************************************)
(* The binary-buddy physical page allocator, src/memory/pageallocator.cpp. *)
(* The block map is a function from block index to its header {kval,tag}; *)
(* the circular doubly linked free list of order k is the sequence         *)
(* avail[k], read from availList[k].linkf (position 1) to linkb (last).    *)
(* The kernel is uniprocessor and calls the allocator from syscalls and    *)
(* the page-fault path only, so reserve and free are atomic steps.         *)
(* `held` is the callers' side: each reserved block and the size that was  *)
(* asked for, which is what free(location) may legally be given.           *)
(***************************************************************************)
EXTENDS Naturals, Sequences, SequencesExt, FiniteSets, Bitwise

CONSTANTS MaxKVal,      \* maxKVal: the block map has 2^MaxKVal entries
          BlockSize,    \* blockSize, in bytes
          WordBits,     \* width of unsigned long in the size arithmetic
          AvailBlocks,  \* block indices the AVAILABLE regions slice into
          ReqSizes,     \* byte counts passed to reserve
          NOMEM         \* PageAllocator::NOMEM

ASSUME AvailBlocks \subseteq 0..(2^MaxKVal - 1)

Idx    == 0..(2^MaxKVal - 1)
Orders == 0..MaxKVal
Word   == 2^WordBits
RESERVED == 0           \* Block::RESERVED
FREE     == 1           \* Block::FREE
NoFailure == -1         \* the last reserve did not return NOMEM

VARIABLES blockMap, avail, freeBlockCount, held, lastFailed

vars == <<blockMap, avail, freeBlockCount, held, lastFailed>>

\* llog2 of util/math.h (not in the tree): the smallest k with 2^k >= n.
RECURSIVE llog2(_)
llog2(n) == IF n <= 1 THEN 0 ELSE 1 + llog2((n + 1) \div 2)

\* Block sizes rounded down instead of up: too few blocks.
RequestOrderTruncated(size) == llog2(((size % Word) \div BlockSize))

\* reserve, line 68: unsigned (size - 1) / blockSize + 1 blocks.
RequestOrder(size) == llog2((((size - 1) % Word) \div BlockSize) + 1)

\* Op applied to the value of e, computed once (TLC passes operator
\* arguments unevaluated, so a long loop would otherwise nest them).
Forced(e, Op(_)) == CHOOSE r \in {Op(x) : x \in {e}} : TRUE

\* Frames covered by the block at `index` of order k.
BlockFrames(index, k) == index..(index + 2^k - 1)

\* A merge loop that stops one order early.
RECURSIVE InsertLoopStopEarly(_, _, _)
InsertLoopStopEarly(st, index, k) ==
  LET buddy == index ^^ (2^k) IN
  IF k < MaxKVal - 1 /\ st.blockMap[buddy].tag = FREE
     /\ st.blockMap[buddy].kval = k
  THEN InsertLoopStopEarly(
         [st EXCEPT !.blockMap[buddy].tag = RESERVED,
                    !.avail[k] = Remove(@, buddy)],
         IF buddy < index THEN buddy ELSE index, k + 1)
  ELSE [st EXCEPT !.blockMap[index] = [kval |-> k, tag |-> FREE],
                  !.avail[k] = <<index>> \o @]

\* A merge that forgets to unlink the absorbed buddy from its list.
RECURSIVE InsertLoopKeepBuddy(_, _, _)
InsertLoopKeepBuddy(st, index, k) ==
  LET buddy == index ^^ (2^k) IN
  IF k < MaxKVal /\ st.blockMap[buddy].tag = FREE
     /\ st.blockMap[buddy].kval = k
  THEN InsertLoopKeepBuddy(
         [st EXCEPT !.blockMap[buddy].tag = RESERVED],
         IF buddy < index THEN buddy ELSE index, k + 1)
  ELSE [st EXCEPT !.blockMap[index] = [kval |-> k, tag |-> FREE],
                  !.avail[k] = <<index>> \o @]

\* insert, lines 105-124: while the buddy index ^ 2^k is a FREE header of
\* order k, unlink it, mark it RESERVED and merge into the lower index;
\* then link the block at the head (linkf) of avail[k].
RECURSIVE InsertLoop(_, _, _)
InsertLoop(st, index, k) ==
  LET buddy == index ^^ (2^k) IN
  IF k < MaxKVal /\ st.blockMap[buddy].tag = FREE
     /\ st.blockMap[buddy].kval = k
  THEN InsertLoop(
         [st EXCEPT !.blockMap[buddy].tag = RESERVED,
                    !.avail[k] = Remove(@, buddy)],
         IF buddy < index THEN buddy ELSE index, k + 1)
  ELSE [st EXCEPT !.blockMap[index] = [kval |-> k, tag |-> FREE],
                  !.avail[k] = <<index>> \o @]

\* insert, line 104 and the loop.
Insert(st, index, k) ==
  InsertLoop([st EXCEPT !.freeBlockCount = (@ + 2^k) % Word], index, k)

\* A split that places the buddy one order too far right.
RECURSIVE SplitLoopBuddyPastBlock(_, _, _, _)
SplitLoopBuddyPastBlock(st, block, j, k) ==
  IF j > k
  THEN LET buddy == block + 2^j IN
       SplitLoopBuddyPastBlock(
         [st EXCEPT !.blockMap[buddy] = [kval |-> j - 1, tag |-> FREE],
                    !.blockMap[block].kval = j - 1,
                    !.avail[j - 1] = <<buddy>>], block, j - 1, k)
  ELSE st

\* reserve, lines 77-85: halve the popped block down to order k; each
\* right half becomes the only member of the (empty) list of its order.
RECURSIVE SplitLoop(_, _, _, _)
SplitLoop(st, block, j, k) ==
  IF j > k
  THEN LET buddy == block + 2^(j - 1) IN
       SplitLoop(
         [st EXCEPT !.blockMap[buddy] = [kval |-> j - 1, tag |-> FREE],
                    !.blockMap[block].kval = j - 1,
                    !.avail[j - 1] = <<buddy>>], block, j - 1, k)
  ELSE st

\* The constructor's seeding loop, lines 48-63: insert(i, 0) for every
\* available slice in address order, then freeBlockCount++.
RECURSIVE SeedLoop(_, _)
SeedLoop(st, slices) ==
  IF slices = <<>> THEN st
  ELSE Forced([Insert(st, Head(slices), 0) EXCEPT !.freeBlockCount = (@ + 1) % Word],
              LAMBDA st1 : SeedLoop(st1, Tail(slices)))

\* The constructor, lines 29-64, after mapSize fixes 2^MaxKVal entries.
Seeded ==
  SeedLoop([blockMap |-> [i \in Idx |-> [kval |-> 0, tag |-> RESERVED]],
            avail |-> [k \in Orders |-> <<>>],
            freeBlockCount |-> 0],
           SelectSeq([n \in 1..2^MaxKVal |-> n - 1], LAMBDA i : i \in AvailBlocks))

Init ==
  /\ blockMap = Seeded.blockMap
  /\ avail = Seeded.avail
  /\ freeBlockCount = Seeded.freeBlockCount
  /\ held = <<>>
  /\ lastFailed = NoFailure

Current == [blockMap |-> blockMap, avail |-> avail,
            freeBlockCount |-> freeBlockCount]

\* A reserve that finds the block but leaves it on its free list.
ReserveNoUnlink(size) ==
  LET k == RequestOrder(size)
      orders == {j \in k..MaxKVal : avail[j] # <<>>}
  IN IF orders = {}
     THEN /\ lastFailed' = size
          /\ UNCHANGED <<blockMap, avail, freeBlockCount, held>>
     ELSE LET j == Min(orders)
              block == Last(avail[j])
              st == SplitLoop([Current EXCEPT !.blockMap[block].tag = RESERVED],
                              block, j, k)
          IN /\ blockMap' = st.blockMap
             /\ avail' = st.avail
             /\ freeBlockCount' = (freeBlockCount - 2^k) % Word
             /\ held' = held @@ (block :> size)
             /\ lastFailed' = NoFailure

\* reserve(size), lines 66-92: the first non-empty list of order >= k
\* gives up its tail (linkb), which is split down to order k.
Reserve(size) ==
  LET k == RequestOrder(size)
      orders == {j \in k..MaxKVal : avail[j] # <<>>}
  IN IF orders = {}
     THEN /\ lastFailed' = size
          /\ UNCHANGED <<blockMap, avail, freeBlockCount, held>>
     ELSE LET j == Min(orders)
              block == Last(avail[j])
              st == SplitLoop([Current EXCEPT !.blockMap[block].tag = RESERVED,
                                              !.avail[j] = Front(@)],
                              block, j, k)
          IN /\ blockMap' = st.blockMap
             /\ avail' = st.avail
             /\ freeBlockCount' = (freeBlockCount - 2^k) % Word
             /\ held' = held @@ (block :> size)
             /\ lastFailed' = NoFailure

\* free(location), lines 94-100: re-insert the block at its recorded kval.
\* Only a base some reserve returned, and not yet freed, is passed in.
Free(index) ==
  LET st == Insert(Current, index, blockMap[index].kval) IN
  /\ blockMap' = st.blockMap
  /\ avail' = st.avail
  /\ freeBlockCount' = st.freeBlockCount
  /\ held' = Restrict(held, DOMAIN held \ {index})
  /\ lastFailed' = NoFailure

Next ==
  \/ \E size \in ReqSizes : Reserve(size)
  \/ \E index \in DOMAIN held : Free(index)

Spec == Init /\ [][Next]_vars

-----------------------------------------------------------------------------
\* Abstraction: the frames on the free lists, and the frames of each block
\* handed out.
FreeFrames == UNION {UNION {BlockFrames(avail[k][i], k) : i \in 1..Len(avail[k])} :
                      k \in Orders}
AllocFrames == {BlockFrames(b, blockMap[b].kval) : b \in DOMAIN held}

Abstract == INSTANCE PageFrames WITH Frames <- AvailBlocks,
              freeFrames <- FreeFrames, allocs <- AllocFrames

\* The buddy allocator implements PageFrames: no frame is ever handed out
\* while free or while part of another reservation, no seeded frame is lost
\* by a split or a merge, and free returns exactly the reserved frames.
Refinement == Abstract!Spec

\* Every header and list entry stays within the block map.
TypeOK ==
  /\ blockMap \in [Idx -> [kval : Orders, tag : {RESERVED, FREE}]]
  /\ avail \in [Orders -> Seq(Idx)]
  /\ freeBlockCount \in 0..(Word - 1)
  /\ DOMAIN held \subseteq Idx
  /\ lastFailed \in ReqSizes \cup {NoFailure}

\* Every block linked on avail[k] is a FREE header of order k, aligned to
\* 2^k, and linked only once (spec section 8): a block that insert merged
\* away or reserve popped is never left on a list.
FreeListsWellFormed ==
  \A k \in Orders : \A i \in 1..Len(avail[k]) :
    LET b == avail[k][i] IN
    /\ blockMap[b].tag = FREE /\ blockMap[b].kval = k
    /\ b % 2^k = 0
    /\ \A l \in Orders : \A m \in 1..Len(avail[l]) :
         avail[l][m] = b => l = k /\ m = i

\* Coalescing is maximal (spec section 8): after any reserve or free no
\* free block of order k < maxKVal has its buddy free at the same order.
MaximalCoalescing ==
  \A k \in 0..(MaxKVal - 1) : \A i \in 1..Len(avail[k]) :
    (avail[k][i] ^^ (2^k)) \notin {avail[k][m] : m \in 1..Len(avail[k])}

\* The block reserve returns covers the request: 2^k * blockSize >= size
\* for every outstanding reservation (the rounding on line 68).
ReservedBlockFitsRequest ==
  \A b \in DOMAIN held : 2^blockMap[b].kval * BlockSize >= held[b]

\* The order the contract of reserve names: the least k whose block size
\* covers the request.
ContractOrder(size) ==
  CHOOSE k \in 0..WordBits : 2^k * BlockSize >= size
                              /\ \A l \in 0..(k - 1) : 2^l * BlockSize < size

\* reserve returns NOMEM only when no list of the contract's order or
\* above has a block (spec 4.1, "Failure mode").
NomemOnlyWhenExhausted ==
  lastFailed # NoFailure =>
    \A j \in ContractOrder(lastFailed)..MaxKVal : avail[j] = <<>>
=============================================================================
