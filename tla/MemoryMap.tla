------------------------------ MODULE MemoryMap ------------------------------
(***************************************************************************)
(* The boot-time memory map, memory/memorymap.cpp: a sorted array of      *)
(* (type, location, size) regions that aarch64_boot fills with place()    *)
(* calls and the page allocator's constructor then reads.                 *)
(*                                                                         *)
(* The array is a sequence (index i of the code is element i + 1).        *)
(* place() inserts the region in order and then calls trim(i) from 0     *)
(* until it returns -1; one action is one whole place() call.  Writing    *)
(* map[capacity] is outside the array: the model records it as a fault.  *)
(***************************************************************************)
EXTENDS Integers, Sequences

SX == INSTANCE SequencesExt

CONSTANTS Types,       \* MemoryType values placed (AVAILABLE = 1 .. DEFECTIVE = 4)
          Locations,   \* region locations
          Sizes,       \* region sizes
          Capacity,    \* MemoryMap::capacity (16)
          MaxPlaces,   \* bound on place() calls
          MaxTrims     \* bound on trim() calls in one place(), to report a loop

VARIABLES map,         \* map[0 .. mapSize - 1]
          placed,      \* ghost: the regions place() was called with, in order
          fault        \* "none", or how place() went outside the array or looped

vars == <<map, placed, fault>>

Region(t, l, s) == [type |-> t, location |-> l, size |-> s]

\* MemoryRegion::end(), operator<, overlaps(), contains() (lines 136-180).
End(r) == r.location + r.size
Less(a, b) == IF a.location = b.location THEN a.size < b.size ELSE a.location < b.location
Overlaps(a, b) == IF b.location < a.location THEN End(b) > a.location ELSE b.location < End(a)
Contains(a, b) == b.location >= a.location /\ End(b) <= End(a)

\* insert(), lines 110-126: walk the array swapping the carried region
\* with every element it is less than, then store it at map[mapSize].
RECURSIVE InsertLoop(_, _, _)
InsertLoop(m, nr, i) ==
  IF i = Len(m) THEN Append(m, nr)
  ELSE IF Less(nr, m[i + 1]) THEN InsertLoop([m EXCEPT ![i + 1] = nr], m[i + 1], i + 1)
  ELSE InsertLoop(m, nr, i + 1)

Insert(st, r) ==
  IF Len(st.m) >= Capacity THEN [st EXCEPT !.fault = "overflow"]
  ELSE [st EXCEPT !.m = InsertLoop(@, r, 0)]

\* remove(index), lines 98-108 (a no-op outside 0 .. mapSize - 1).
Remove(m, i) == IF i >= 0 /\ i < Len(m) THEN SX!RemoveAt(m, i + 1) ELSE m

\* left.size after cutting it at right.location (lines 61 and 67).
Cut(l, r) == IF r.location > l.location THEN r.location - l.location ELSE 0

\* trim(index), lines 40-96: the map after one call and the index it returns.
Trim(st, i) ==
  LET m == st.m
      l == m[i + 1]
      r == m[i + 2]
      ov == Overlaps(l, r)
      Next1(s1, j) == [s1 EXCEPT !.i = j]
  IN CASE i + 1 >= Len(m) -> Next1(st, -1)
       [] ov /\ l.type = r.type ->
            Next1([st EXCEPT !.m = Remove([m EXCEPT ![i + 1].size =
                                 (IF End(r) > End(l) THEN End(r) ELSE End(l)) - l.location], i + 1)], i)
       [] ov /\ l.type < r.type /\ Contains(r, l) ->
            Next1([st EXCEPT !.m = Remove(m, i)], i)
       [] ov /\ l.type < r.type /\ End(l) <= End(r) ->
            Next1([st EXCEPT !.m = [m EXCEPT ![i + 1].size = Cut(l, r)]], i + 1)
       [] ov /\ l.type < r.type ->
            LET m1 == [m EXCEPT ![i + 1].size = Cut(l, r)]
                m2 == IF Cut(l, r) = 0 THEN Remove(m1, i) ELSE m1
            IN Next1(Insert([st EXCEPT !.m = m2], Region(l.type, End(r), End(l) - End(r))), i + 2)
       [] ov /\ Contains(l, r) ->
            Next1([st EXCEPT !.m = Remove(m, i + 1)], i)
       [] ov ->
            Next1([st EXCEPT !.m = [m EXCEPT ![i + 2].size = End(r) - End(l),
                                             ![i + 2].location = End(l)]], i + 1)
       [] End(l) = r.location /\ l.type = r.type ->
            Next1([st EXCEPT !.m = Remove([m EXCEPT ![i + 1].size = End(r) - l.location], i + 1)], i)
       [] OTHER -> Next1(st, i + 1)

\* int i = 0; while (i >= 0) i = trim(i);  (lines 17-21)
RECURSIVE TrimLoop(_, _)
TrimLoop(st, n) ==
  CASE st.fault # "none" \/ st.i < 0 -> st
    [] n = 0 -> [st EXCEPT !.fault = "trim_loop"]
    [] OTHER -> TrimLoop(Trim(st, st.i), n - 1)

Init ==
  /\ map = <<>>
  /\ placed = <<>>
  /\ fault = "none"

\* place(type, location, size), lines 12-28.  When mapSize > capacity - 2
\* it returns -1 and changes nothing, a step the model leaves out.
Place(t, l, s) ==
  /\ fault = "none"
  /\ Len(placed) < MaxPlaces
  /\ Len(map) <= Capacity - 2
  /\ \E st \in {TrimLoop(Insert([m |-> map, i |-> 0, fault |-> "none"], Region(t, l, s)), MaxTrims)} :
       /\ map' = st.m
       /\ fault' = st.fault
  /\ placed' = Append(placed, Region(t, l, s))

Next == \E t \in Types, l \in Locations, s \in Sizes : Place(t, l, s)

Spec == Init /\ [][Next]_vars
-----------------------------------------------------------------------------
\* Spec section 3 (Memory map: a sorted array of non-overlapping triples)
\* and place()'s contract in memorymap.h: after every place() call,
\* insert() followed by the trim() loop, the regions are sorted by
\* location and no two overlap.
MapSorted ==
  fault = "none" => \A k \in 1..(Len(map) - 1) : End(map[k]) <= map[k + 1].location

\* trim()'s contract in memorymap.h: after the trim() loop of place(),
\* adjacent regions of the same type are merged.
AdjacentMerged ==
  fault = "none" =>
    \A k \in 1..(Len(map) - 1) :
      End(map[k]) = map[k + 1].location => map[k].type # map[k + 1].type

=============================================================================
