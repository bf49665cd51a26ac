\* place() keeps the regions sorted and disjoint, for every sequence of
\* three placements: violated by a split whose left part is empty.
CONSTANTS
  Types <- MCTypes
  Locations = {0, 1, 2, 3}
  Sizes = {1, 2, 3}
  Capacity = 16
  MaxPlaces = 3
  MaxTrims = 40

SPECIFICATION Spec

INVARIANT MapSorted

CHECK_DEADLOCK FALSE
