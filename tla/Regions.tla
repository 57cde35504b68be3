------------------------------ MODULE Regions ------------------------------
(***************************************************************************)
(* The layout of the object heap: GCRegion is a pool of SURVIVORS_N equal  *)
(* regions followed by one tenured region.  Each region is a bump          *)
(* allocator whose first cell holds its own cursor.  The unit is the cell: *)
(* an object header or one Register takes one cell.  Address 0 is the null *)
(* pointer, and stands too for a register that holds no pointer (a NUM or  *)
(* an ANY): the collector does not tell those apart.                       *)
(***************************************************************************)
EXTENDS Integers

CONSTANTS SURVIVORS_N,      \* number of equal regions (2 in GCRegion)
          SURVIVORS_SIZE,   \* cells in each of them
          TENURED_SIZE      \* cells in the tenured region

ASSUME RegionsAssumption ==
  /\ SURVIVORS_N \in Nat \ {0}
  /\ SURVIVORS_SIZE \in Nat \ {0, 1}
  /\ TENURED_SIZE \in Nat \ {0, 1}

Tenured   == SURVIVORS_N + 1
RegionIds == 1 .. Tenured
Young     == 1               \* the region the program allocates in

START_PTR == 1
CURSOR    == 1               \* sizeof(*GetCursor()), in cells
nullptr   == 0

StartPtr(r)   == START_PTR + (r - 1) * SURVIVORS_SIZE
RegionSize(r) == IF r = Tenured THEN TENURED_SIZE ELSE SURVIVORS_SIZE

HeapSize == SURVIVORS_N * SURVIVORS_SIZE + TENURED_SIZE
Addr     == START_PTR .. (START_PTR + HeapSize - 1)
Ptr      == Addr \cup {nullptr}

RegionContains(r, p) == p >= StartPtr(r) /\ p < StartPtr(r) + RegionSize(r)
MAX_ALLOC_SIZE(r)    == RegionSize(r) - CURSOR
=============================================================================
