----------------------------- MODULE PageFrames -----------------------------
(***************************************************************************)
(* What the physical page allocator promises (pageallocator.h, reserve and *)
(* free): every frame it was seeded with is either free or part of exactly *)
(* one reservation, a reservation is a run of contiguous frames taken from *)
(* the free ones, and freeing a reservation gives all of its frames back.  *)
(* Reservations may fail at any time (fragmentation), so NOMEM is a        *)
(* stuttering step here.                                                   *)
(***************************************************************************)
EXTENDS Naturals

CONSTANT Frames          \* the frames seeded from AVAILABLE regions

VARIABLES freeFrames,    \* frames on some free list
          allocs         \* the frame sets of outstanding reservations

Runs == {lo..hi : lo \in Frames, hi \in Frames} \ {{}}

Init == freeFrames = Frames /\ allocs = {}

\* A contiguous run of free frames becomes one reservation.
Take == \E S \in Runs :
          /\ S \subseteq freeFrames
          /\ freeFrames' = freeFrames \ S
          /\ allocs' = allocs \cup {S}

\* A reservation is returned whole.
Give == \E S \in allocs :
          /\ freeFrames' = freeFrames \cup S
          /\ allocs' = allocs \ {S}

Next == Take \/ Give

Spec == Init /\ [][Next]_<<freeFrames, allocs>>
=============================================================================
