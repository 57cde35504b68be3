-------------------------- MODULE CollectorProofs --------------------------
(***************************************************************************)
(* A collection from its first stage to its last step.  On the way down    *)
(* each stage collects exactly the live objects of its region and exactly  *)
(* the places that refer to them; on the way up each stage moves those     *)
(* objects and rebinds those places, while the stages that wait keep       *)
(* naming places that exist.  So the estimated memory suffices, no         *)
(* assertion of the collector fails but those for a heap that is too       *)
(* small, which fail only then, and the program goes on with a safe heap.  *)
(***************************************************************************)
EXTENDS HeapProofs, MarkingProofs, FiniteSetTheorems

----------------------------------------------------------------------------
(* The cells of the objects a stage moves *)

Distinct(q)  == \A j, k \in DOMAIN q : q[j] = q[k] => j = k
Extent(m, a) == a .. a + m[a].allocated_size - 1
Cells(m, q)  == UNION {Extent(m, q[k]) : k \in DOMAIN q}

\* An object in region r, below its cursor, with its header.
Header(r, a) == RegionContains(r, a) /\ Allocated(a) /\ mem[a] # NoObj

\* Objects of a region take cells of the region, each its own.
LEMMA ExtentFacts ==
  ASSUME TypeInv, RegionsTiled, NEW r \in RegionIds, NEW a \in Addr,
         Header(r, a)
  PROVE  /\ Extent(mem, a)
              \subseteq StartPtr(r) + CURSOR .. StartPtr(r) + RegionSize(r) - 1
         /\ IsFiniteSet(Extent(mem, a))
         /\ Cardinality(Extent(mem, a)) = mem[a].allocated_size
         /\ \A b \in Addr : Header(r, b) /\ a # b =>
              Extent(mem, a) \cap Extent(mem, b) = {}
  <1> DEFINE lo == StartPtr(r) + CURSOR
             hi == CursorPtr(r)
  <1>1. /\ StartPtr(r) \in Int /\ RegionSize(r) \in Nat /\ hi \in Int
        /\ lo <= hi /\ hi <= StartPtr(r) + RegionSize(r)
    BY UsedCells
  <1>2. Tiled(mem, lo, hi)
    BY TiledForm
  <1>3. ASSUME NEW b \in Addr, Header(r, b)
        PROVE  /\ b \in Int /\ b >= lo /\ b < hi
               /\ b \in HeadersIn(mem, lo, hi)
               /\ mem[b].allocated_size \in Nat \ {0}
    <2>1. b \in Int
      BY DEF Addr
    <2>2. b >= lo /\ b < hi
      BY <1>3, <2>1, AllocatedBelow DEF Header
    <2>3. mem[b] \in Object
      BY <1>3, CellType DEF Header, TypeInv
    <2> HIDE DEF lo, hi
    <2>4. lo \in Int
      BY <1>1 DEF CURSOR, lo
    <2>5. QED
      BY <1>1, <1>3, <2>1, <2>2, <2>3, <2>4 DEF HeadersIn, Header, Object
  <1>4. a + mem[a].allocated_size <= hi
    <2>1. a \in HeadersIn(mem, lo, hi)
      BY <1>3
    <2>2. \/ a + mem[a].allocated_size = hi
          \/ a + mem[a].allocated_size \in HeadersIn(mem, lo, hi)
      BY <1>2, <2>1 DEF Tiled
    <2> HIDE DEF lo, hi
    <2>3. QED
      BY <1>1, <2>2 DEF HeadersIn
  <1>5. Extent(mem, a)
          \subseteq StartPtr(r) + CURSOR .. StartPtr(r) + RegionSize(r) - 1
    <2>1. a \in Int /\ a >= lo /\ mem[a].allocated_size \in Nat \ {0}
      BY <1>3
    <2>2. lo = StartPtr(r) + CURSOR /\ CURSOR \in Int
      BY DEF CURSOR
    <2> HIDE DEF lo, hi
    <2>3. QED
      BY <1>1, <1>4, <2>1, <2>2 DEF Extent
  <1>6. /\ IsFiniteSet(Extent(mem, a))
        /\ Cardinality(Extent(mem, a)) = mem[a].allocated_size
    <2>1. a \in Int /\ mem[a].allocated_size \in Nat \ {0}
      BY <1>3
    <2> DEFINE z == a + mem[a].allocated_size - 1
    <2>2. z \in Int /\ ~(a > z) /\ z - a + 1 = mem[a].allocated_size
      BY <2>1
    <2>3. Extent(mem, a) = a .. z
      BY DEF Extent
    <2> HIDE DEF z
    <2>4. QED
      BY <2>1, <2>2, <2>3, FS_Interval
  <1>7. ASSUME NEW b \in Addr, Header(r, b), a # b
        PROVE  Extent(mem, a) \cap Extent(mem, b) = {}
    <2>1. /\ a \in Int /\ b \in Int
          /\ a \in HeadersIn(mem, lo, hi) /\ b \in HeadersIn(mem, lo, hi)
          /\ mem[a].allocated_size \in Nat /\ mem[b].allocated_size \in Nat
      BY <1>3, <1>7
    <2>2. \/ a + mem[a].allocated_size <= b
          \/ b + mem[b].allocated_size <= a
      BY <1>2, <1>7, <2>1 DEF Tiled
    <2>3. QED
      BY <2>1, <2>2 DEF Extent
  <1>8. QED
    BY <1>5, <1>6, <1>7

\* Cells depend on the sizes alone.
LEMMA CellsSame ==
  ASSUME NEW q, NEW m, NEW n,
         \A k \in DOMAIN q : n[q[k]].allocated_size = m[q[k]].allocated_size
  PROVE  Cells(n, q) = Cells(m, q)
  BY DEF Cells, Extent

\* The objects q of a region, no two of them the same.
Collected(r, q) == /\ q \in Seq(Addr) /\ Distinct(q)
                   /\ \A k \in DOMAIN q : Header(r, q[k])

\* They fit in a region of that size.
LEMMA CellsFit ==
  ASSUME TypeInv, RegionsTiled, NEW r \in RegionIds, NEW q, Collected(r, q)
  PROVE  /\ IsFiniteSet(Cells(mem, q))
         /\ Cardinality(Cells(mem, q)) \in Nat
         /\ Cardinality(Cells(mem, q)) <= MAX_ALLOC_SIZE(r)
  <1> DEFINE lo == StartPtr(r) + CURSOR
             hi == StartPtr(r) + RegionSize(r) - 1
  <1>1. /\ StartPtr(r) \in Int /\ RegionSize(r) \in Nat
        /\ cursor[r] \in CURSOR .. RegionSize(r)
    BY UsedCells DEF TypeInv, CursorOK
  <1>2. lo \in Int /\ hi \in Int
        /\ (IF lo > hi THEN 0 ELSE hi - lo + 1) = MAX_ALLOC_SIZE(r)
    BY <1>1 DEF CURSOR, MAX_ALLOC_SIZE
  <1>3. Cells(mem, q) \subseteq lo .. hi
    <2>1. \A k \in DOMAIN q : Extent(mem, q[k]) \subseteq lo .. hi
      BY ExtentFacts DEF Collected
    <2> HIDE DEF lo, hi
    <2>2. QED
      BY <2>1 DEF Cells
  <1> HIDE DEF lo, hi
  <1>4. IsFiniteSet(lo .. hi) /\ Cardinality(lo .. hi) = MAX_ALLOC_SIZE(r)
    BY <1>2, FS_Interval
  <1>5. QED
    BY <1>3, <1>4, FS_Subset, FS_CardinalityType

\* One more object takes its size more.
LEMMA CellsMore ==
  ASSUME TypeInv, RegionsTiled, NEW r \in RegionIds,
         NEW q, Collected(r, q), NEW e \in Addr, Header(r, e),
         \A k \in DOMAIN q : q[k] # e,
         NEW C, C = Cells(mem, q) \cup Extent(mem, e)
  PROVE  Cardinality(C) = Cardinality(Cells(mem, q)) + mem[e].allocated_size
  <1>1. Cells(mem, q) \cap Extent(mem, e) = {}
    <2>1. \A k \in DOMAIN q : Extent(mem, e) \cap Extent(mem, q[k]) = {}
      BY ExtentFacts DEF Collected
    <2>2. QED
      BY <2>1 DEF Cells
  <1>2. /\ IsFiniteSet(Extent(mem, e))
        /\ Cardinality(Extent(mem, e)) = mem[e].allocated_size
    BY ExtentFacts
  <1>3. /\ IsFiniteSet(Cells(mem, q)) /\ Cardinality(Cells(mem, q)) \in Nat
    BY CellsFit
  <1>4. mem[e].allocated_size \in Nat
    BY CellType DEF TypeInv
  <1>5. Cardinality(C) = Cardinality(Cells(mem, q))
           + Cardinality(Extent(mem, e)) - Cardinality({})
    BY <1>1, <1>2, <1>3, FS_Union
  <1>6. QED
    BY <1>2, <1>3, <1>4, <1>5, FS_EmptySet

\* AppendAliveObject: the estimate grows by the size of the object.
LEMMA CellsAppend ==
  ASSUME TypeInv, RegionsTiled, NEW r \in RegionIds,
         NEW q, Collected(r, q), NEW e \in Addr, Header(r, e),
         \A k \in DOMAIN q : q[k] # e
  PROVE  /\ Collected(r, Append(q, e))
         /\ Cardinality(Cells(mem, Append(q, e)))
              = Cardinality(Cells(mem, q)) + mem[e].allocated_size
  <1> DEFINE p == Append(q, e)
  <1>1. q \in Seq(Addr)
    BY DEF Collected
  <1>2. /\ p \in Seq(Addr) /\ DOMAIN q = 1 .. Len(q) /\ Len(q) \in Nat
        /\ DOMAIN p = 1 .. Len(q) + 1 /\ p[Len(q) + 1] = e
        /\ \A k \in 1 .. Len(q) : p[k] = q[k]
    BY <1>1
  <1> HIDE DEF p
  <1>3. ASSUME NEW k \in DOMAIN p
        PROVE  \/ k = Len(q) + 1 /\ p[k] = e
               \/ k \in DOMAIN q /\ p[k] = q[k]
    BY <1>2
  <1>4. Collected(r, p)
    <2>1. \A k \in DOMAIN p : Header(r, p[k])
      BY <1>3 DEF Collected
    <2>2. Distinct(p)
      BY <1>3 DEF Distinct, Collected
    <2>3. QED
      BY <1>2, <2>1, <2>2 DEF Collected
  <1>5. Cells(mem, p) = Cells(mem, q) \cup Extent(mem, e)
    <2>1. DOMAIN q \subseteq DOMAIN p /\ Len(q) + 1 \in DOMAIN p
      BY <1>2
    <2>2. \A k \in DOMAIN q : p[k] = q[k]
      BY <1>2
    <2>3. QED
      BY <1>2, <1>3, <2>1, <2>2 DEF Cells
  <1>6. QED
    BY <1>4, <1>5, CellsMore DEF p

\* One object less: what is left needs its size less.
LEMMA CellsFront ==
  ASSUME TypeInv, RegionsTiled, NEW r \in RegionIds,
         NEW q, Collected(r, q), q # <<>>
  PROVE  /\ Collected(r, Front(q))
         /\ \A k \in DOMAIN Front(q) : Front(q)[k] # Last(q)
         /\ \A k \in DOMAIN q :
              q[k] = Last(q) \/ \E j \in DOMAIN Front(q) : Front(q)[j] = q[k]
         /\ \A j \in DOMAIN Front(q) : \E k \in DOMAIN q : Front(q)[j] = q[k]
         /\ Last(q) \in Addr /\ Header(r, Last(q))
         /\ Cardinality(Cells(mem, q))
              = Cardinality(Cells(mem, Front(q))) + mem[Last(q)].allocated_size
  <1> DEFINE p == Front(q)
             e == Last(q)
  <1>1. q \in Seq(Addr) /\ Distinct(q)
    BY DEF Collected
  <1>2. /\ p \in Seq(Addr) /\ Len(p) = Len(q) - 1 /\ e \in Addr
        /\ \A i \in 1 .. Len(q) - 1 : p[i] = q[i]
    BY <1>1, FrontFacts
  <1>3. /\ DOMAIN q = 1 .. Len(q) /\ Len(q) \in Nat \ {0} /\ e = q[Len(q)]
    BY <1>1 DEF Last
  <1>4. DOMAIN p = 1 .. Len(q) - 1
    BY <1>2
  <1> HIDE DEF p, e
  <1>5. ASSUME NEW j \in DOMAIN p
        PROVE  j \in DOMAIN q /\ p[j] = q[j] /\ j # Len(q)
    BY <1>2, <1>3, <1>4
  <1>6. ASSUME NEW k \in DOMAIN q
        PROVE  k = Len(q) \/ (k \in DOMAIN p /\ p[k] = q[k])
    BY <1>2, <1>3, <1>4
  <1>7. Len(q) \in DOMAIN q
    BY <1>3
  <1>8. Collected(r, p)
    BY <1>1, <1>2, <1>5 DEF Collected, Distinct
  <1>9. \A j \in DOMAIN p : p[j] # e
    BY <1>1, <1>3, <1>5, <1>7 DEF Distinct
  <1>10. Header(r, e)
    BY <1>3, <1>7 DEF Collected
  <1>11. Cells(mem, q) = Cells(mem, p) \cup Extent(mem, e)
    BY <1>3, <1>5, <1>6, <1>7 DEF Cells
  <1>12. Cardinality(Cells(mem, q))
              = Cardinality(Cells(mem, p)) + mem[e].allocated_size
    BY <1>2, <1>8, <1>9, <1>10, <1>11, CellsMore
  <1>13. \A k \in DOMAIN q : q[k] = e \/ \E j \in DOMAIN p : p[j] = q[k]
    BY <1>3, <1>6
  <1>14. \A j \in DOMAIN p : \E k \in DOMAIN q : p[j] = q[k]
    BY <1>5
  <1>15. QED
    BY <1>2, <1>8, <1>9, <1>10, <1>12, <1>13, <1>14 DEF p, e

----------------------------------------------------------------------------
(* The places of a set of objects *)

\* The roots of the frames and the registers of the objects of M.
Places(M) == RootSlots \cup SlotsIn(M)

\* A root is a place, and holds what the frame holds.
LEMMA RootPlace ==
  ASSUME TypeInv, NEW M, NEW f \in DOMAIN state_stack, NEW i \in RootIdx
  PROVE  /\ RootSlot(f, i) \in Places(M)
         /\ IsRoot(RootSlot(f, i))
         /\ RootSlot(f, i).frame = f /\ RootSlot(f, i).idx = i
         /\ Load(RootSlot(f, i)) = state_stack[f][i]
  <1>1. /\ RootSlot(f, i).holder = nullptr
        /\ RootSlot(f, i).frame = f /\ RootSlot(f, i).idx = i
    BY DEF RootSlot
  <1>2. RootSlot(f, i) \in RootSlots
    BY DEF RootSlots
  <1>3. QED
    BY <1>1, <1>2 DEF Places, IsRoot, Load

\* So is a register of an object of M.
LEMMA HeapPlace ==
  ASSUME NEW M \in SUBSET Addr, NEW a \in M, NEW i \in DOMAIN mem[a].slots
  PROVE  /\ HeapSlot(a, i) \in Places(M)
         /\ ~IsRoot(HeapSlot(a, i))
         /\ HeapSlot(a, i).frame = 0
         /\ HeapSlot(a, i).holder = a /\ HeapSlot(a, i).idx = i
         /\ Load(HeapSlot(a, i)) = mem[a].slots[i]
  <1>1. /\ HeapSlot(a, i).holder = a /\ HeapSlot(a, i).frame = 0
        /\ HeapSlot(a, i).idx = i
    BY DEF HeapSlot
  <1>2. a # nullptr
    BY RegionsAssumption DEF Addr, START_PTR, nullptr
  <1>3. HeapSlot(a, i) \in SlotsIn(M)
    BY DEF SlotsIn
  <1>4. QED
    BY <1>1, <1>2, <1>3 DEF Places, IsRoot, Load

\* There are no others.
LEMMA PlaceCases ==
  ASSUME TypeInv, NEW M \in SUBSET Addr, NEW s \in Places(M)
  PROVE  /\ IsPlace(s) /\ s \in Slot
         /\ \/ /\ IsRoot(s)
               /\ s.frame \in DOMAIN state_stack /\ s.idx \in RootIdx
               /\ s = RootSlot(s.frame, s.idx)
               /\ Load(s) = state_stack[s.frame][s.idx]
            \/ /\ ~IsRoot(s)
               /\ s.holder \in M /\ s.idx \in DOMAIN mem[s.holder].slots
               /\ s = HeapSlot(s.holder, s.idx)
               /\ Load(s) = mem[s.holder].slots[s.idx]
  <1>1. CASE s \in RootSlots
    <2>1. PICK f \in DOMAIN state_stack, i \in RootIdx : s = RootSlot(f, i)
      BY <1>1 DEF RootSlots
    <2>2. f \in Nat /\ i \in Nat
      BY FrameAssumption DEF TypeInv, FramesOK, RootIdx
    <2>3. s \in Slot
      BY <2>1, <2>2 DEF RootSlot, Slot, Ptr
    <2>4. /\ IsRoot(s) /\ s.frame = f /\ s.idx = i
          /\ Load(s) = state_stack[f][i]
      BY <2>1, RootPlace
    <2>5. QED
      BY <2>1, <2>3, <2>4 DEF IsPlace
  <1>2. CASE s \in SlotsIn(M)
    <2>a. PICK a \in M : \E i \in DOMAIN mem[a].slots : s = HeapSlot(a, i)
      BY <1>2 DEF SlotsIn
    <2>1. PICK i \in DOMAIN mem[a].slots : s = HeapSlot(a, i)
      BY <2>a
    <2>2. i \in Nat /\ a \in Ptr
      BY CellType DEF TypeInv, Ptr
    <2>3. s \in Slot
      BY <2>1, <2>2 DEF HeapSlot, Slot
    <2>4. QED
      BY <2>1, <2>3, HeapPlace DEF IsPlace
  <1>3. QED
    BY <1>1, <1>2 DEF Places

\* What a place leads to now: a moved holder is read where it went.
Now(s) ==
  IF IsRoot(s) THEN state_stack[s.frame][s.idx]
               ELSE mem[CurrentHolder(s.holder)].slots[s.idx]

\* As long as no holder has moved, that is what it holds.
LEMMA NowIsLoad ==
  ASSUME TypeInv, NEW M \in SUBSET Addr, NEW s \in Places(M),
         IsRoot(s) \/ ~WasRelocated(s.holder)
  PROVE  Now(s) = Load(s)
  BY PlaceCases DEF Now, CurrentHolder

\* The frames and the registers of M lead into T.
LEMMA ClosedPlaces ==
  ASSUME TypeInv, NEW M \in SUBSET Addr
  PROVE  Closed(M) <=> \A s \in Places(M) : Load(s) \in Held(M)
  <1>1. ASSUME Closed(M), NEW s \in Places(M)
        PROVE  Load(s) \in Held(M)
    BY <1>1, PlaceCases DEF Closed
  <1>2. ASSUME \A s \in Places(M) : Load(s) \in Held(M)
        PROVE  Closed(M)
    <2>1. ASSUME NEW f \in DOMAIN state_stack, NEW i \in RootIdx
          PROVE  state_stack[f][i] \in Held(M)
      BY <1>2, RootPlace
    <2>2. ASSUME NEW a \in M, NEW i \in DOMAIN mem[a].slots
          PROVE  mem[a].slots[i] \in Held(M)
      BY <1>2, HeapPlace
    <2>3. QED
      BY <2>1, <2>2 DEF Closed
  <1>3. QED
    BY <1>1, <1>2

----------------------------------------------------------------------------
(* The live objects: the least closed set *)

Live == {a \in Addr : \A C \in SUBSET Addr : Closed(C) => a \in C}

\* They are in every closed set, and are one.
LEMMA LiveFacts ==
  ASSUME TypeInv
  PROVE  /\ Live \in SUBSET Addr
         /\ Closed(Live)
         /\ \A C \in SUBSET Addr : Closed(C) => Live \subseteq C
  <1>1. ASSUME NEW p \in Ptr, \A C \in SUBSET Addr : Closed(C) => p \in Held(C)
        PROVE  p \in Held(Live)
    <2>1. nullptr \notin Addr
      BY RegionsAssumption DEF Addr, START_PTR, nullptr
    <2>2. CASE p = nullptr
      BY <2>2 DEF Held
    <2>3. CASE p # nullptr
      BY <1>1, <2>3 DEF Held, Live, Ptr
    <2>4. QED
      BY <2>2, <2>3
  <1>2. ASSUME NEW f \in DOMAIN state_stack, NEW i \in RootIdx
        PROVE  state_stack[f][i] \in Held(Live)
    <2>1. state_stack[f][i] \in Ptr
      BY DEF TypeInv, FramesOK, Frame
    <2>2. QED
      BY <1>1, <2>1 DEF Closed
  <1>3. ASSUME NEW a \in Live, NEW i \in DOMAIN mem[a].slots
        PROVE  mem[a].slots[i] \in Held(Live)
    <2>1. a \in Addr /\ \A C \in SUBSET Addr : Closed(C) => a \in C
      BY DEF Live
    <2>2. mem[a].slots[i] \in Ptr
      BY <2>1, CellType DEF TypeInv
    <2>3. QED
      BY <1>1, <2>1, <2>2 DEF Closed
  <1>4. QED
    BY <1>2, <1>3 DEF Closed, Live

\* They stay the same while no pointer is written.
LEMMA LiveSame ==
  ASSUME UNCHANGED <<mem, state_stack>>
  PROVE  Live' = Live
  <1>1. \A C \in SUBSET Addr : Closed(C)' <=> Closed(C)
    BY DEF Closed
  <1>2. QED
    BY <1>1 DEF Live

\* After as many steps as there are cells nothing new is reached.
LEMMA ReachableSettles ==
  ASSUME TypeInv
  PROVE  /\ Reachable \in SUBSET Addr
         /\ Targets(RootSlots) \subseteq Reachable
         /\ Targets(SlotsIn(Reachable)) \subseteq Reachable
  <1>1. HeapSize \in Nat
    BY ReachableChain
  <1>2. PICK W : /\ \A n \in 0 .. HeapSize : W[n] = Within(W, n)
                 /\ Reachable = W[HeapSize]
    BY ReachableChain
  <1>3. \A M \in SUBSET Addr : Targets(SlotsIn(M)) \subseteq Addr
    <2>1. ASSUME NEW M \in SUBSET Addr, NEW s \in SlotsIn(M), Load(s) # nullptr
          PROVE  Load(s) \in Addr
      <3>1. PICK a \in M : \E i \in DOMAIN mem[a].slots : s = HeapSlot(a, i)
        BY <2>1 DEF SlotsIn
      <3>2. PICK i \in DOMAIN mem[a].slots : s = HeapSlot(a, i)
        BY <3>1
      <3>3. Load(s) = mem[a].slots[i]
        BY <3>2, HeapPlace
      <3>4. mem[a].slots[i] \in Ptr
        BY CellType DEF TypeInv
      <3>5. QED
        BY <2>1, <3>3, <3>4 DEF Ptr
    <2>2. QED
      BY <2>1 DEF Targets
  <1>4. Targets(RootSlots) \subseteq Addr
    <2>1. ASSUME NEW s \in RootSlots, Load(s) # nullptr
          PROVE  Load(s) \in Addr
      <3>1. PICK f \in DOMAIN state_stack, i \in RootIdx : s = RootSlot(f, i)
        BY <2>1 DEF RootSlots
      <3>2. Load(s) = state_stack[f][i]
        BY <3>1, RootPlace
      <3>3. state_stack[f][i] \in Ptr
        BY DEF TypeInv, FramesOK, Frame
      <3>4. QED
        BY <2>1, <3>2, <3>3 DEF Ptr
    <2>2. QED
      BY <2>1 DEF Targets
  <1>5. IsFiniteSet(Addr) /\ Cardinality(Addr) = HeapSize
    <2> DEFINE z == START_PTR + HeapSize - 1
    <2>1. z \in Int /\ START_PTR \in Int
          /\ (IF START_PTR > z THEN 0 ELSE z - START_PTR + 1) = HeapSize
      BY <1>1 DEF START_PTR
    <2>2. Addr = START_PTR .. z
      BY DEF Addr
    <2> HIDE DEF z
    <2>3. QED
      BY <2>1, <2>2, FS_Interval
  <1> DEFINE Stable(M) == Targets(SlotsIn(M)) \subseteq M
             Fine(n) == /\ W[n] \in SUBSET Addr
                        /\ Targets(RootSlots) \subseteq W[n]
                        /\ Stable(W[n]) \/ Cardinality(W[n]) >= n
             Bad == {n \in 0 .. HeapSize : ~Fine(n)}
  <1>6. ASSUME NEW x \in 0 .. HeapSize, x # 0, Fine(x - 1)
        PROVE  Fine(x)
    <2> DEFINE near == W[x - 1]
    <2>1. x \in Nat /\ x - 1 \in Nat
      BY <1>1, <1>6
    <2>2. W[x] = near \cup Targets(SlotsIn(near))
      BY <1>2, <1>6 DEF Within
    <2>3. W[x] \in SUBSET Addr /\ Targets(RootSlots) \subseteq W[x]
      BY <1>3, <1>6, <2>2
    <2>4. CASE Stable(near)
      <3>1. W[x] = near
        BY <2>2, <2>4
      <3>2. QED
        BY <2>3, <2>4, <3>1
    <2>5. CASE ~Stable(near)
      <3>1. near \in SUBSET W[x] /\ near # W[x] /\ Cardinality(near) >= x - 1
        BY <1>6, <2>2, <2>5
      <3>2. IsFiniteSet(W[x])
        BY <1>5, <2>3, FS_Subset
      <3>3. PICK b, t : b = W[x] /\ t = near
        OBVIOUS
      <3> HIDE DEF near
      <3>4. /\ IsFiniteSet(t) /\ Cardinality(t) <= Cardinality(b)
            /\ Cardinality(t) # Cardinality(b)
        BY <3>1, <3>2, <3>3, FS_Subset
      <3>5. Cardinality(b) \in Nat /\ Cardinality(t) \in Nat
        BY <3>2, <3>3, <3>4, FS_CardinalityType
      <3>6. Cardinality(W[x]) >= x
        BY <2>1, <3>1, <3>3, <3>4, <3>5
      <3>7. QED
        BY <2>3, <3>6
    <2>6. QED
      BY <2>4, <2>5
  <1>7. Bad = {}
    <2>1. SUFFICES ASSUME Bad # {}
                   PROVE  FALSE
      OBVIOUS
    <2>2. Bad \in SUBSET Nat
      BY <1>1
    <2>3. PICK x \in Bad : \A y \in Bad : x <= y
      <3> HIDE DEF Bad
      <3>1. QED
        BY <2>1, <2>2, LeastNat
    <2>4. x \in 0 .. HeapSize /\ ~Fine(x)
      OBVIOUS
    <2>5. CASE x = 0
      <3>1. W[x] = Targets(RootSlots)
        BY <1>2, <2>4, <2>5 DEF Within
      <3>2. W[x] \in SUBSET Addr
        BY <1>4, <3>1
      <3>3. Cardinality(W[x]) >= x
        <4>1. IsFiniteSet(W[x])
          BY <1>5, <3>2, FS_Subset
        <4>2. Cardinality(W[x]) \in Nat
          BY <4>1, FS_CardinalityType
        <4>3. QED
          BY <2>5, <4>2
      <3>4. QED
        BY <2>4, <3>1, <3>2, <3>3
    <2>6. CASE x # 0
      <3>1. x - 1 \in 0 .. HeapSize /\ ~(x <= x - 1)
        BY <1>1, <2>4, <2>6
      <3>2. x - 1 \notin Bad
        BY <2>3, <3>1
      <3>3. Fine(x - 1)
        BY <3>1, <3>2
      <3> HIDE DEF Fine, Bad
      <3>4. QED
        BY <1>6, <2>4, <2>6, <3>3
    <2>7. QED
      BY <2>5, <2>6
  <1>8. Fine(HeapSize)
    BY <1>1, <1>7
  <1>9. Stable(W[HeapSize])
    <2>1. CASE Cardinality(W[HeapSize]) >= HeapSize
      <3>1. PICK t \in SUBSET Addr : t = W[HeapSize]
        BY <1>8
      <3>2. Cardinality(t) <= HeapSize /\ IsFiniteSet(t)
        BY <1>5, FS_Subset
      <3>3. Cardinality(t) \in Nat
        BY <3>2, FS_CardinalityType
      <3>4. Cardinality(t) = Cardinality(Addr)
        BY <1>1, <1>5, <2>1, <3>1, <3>2, <3>3
      <3>5. t = Addr
        BY <1>5, <3>4, FS_Subset
      <3>6. QED
        BY <1>3, <3>1, <3>5
    <2>2. QED
      BY <1>8, <2>1
  <1>10. QED
    BY <1>2, <1>8, <1>9

\* So the live objects are the ones the program reaches.
LEMMA LiveIsReachable ==
  ASSUME TypeInv
  PROVE  Live = Reachable
  <1>1. /\ Reachable \in SUBSET Addr
        /\ Targets(RootSlots) \subseteq Reachable
        /\ Targets(SlotsIn(Reachable)) \subseteq Reachable
    BY ReachableSettles
  <1>2. ASSUME NEW s \in Places(Reachable)
        PROVE  Load(s) \in Held(Reachable)
    BY <1>1 DEF Places, Targets, Held
  <1>3. Closed(Reachable)
    BY <1>1, <1>2, ClosedPlaces
  <1>4. Live \subseteq Reachable
    BY <1>1, <1>3, LiveFacts
  <1>5. Reachable \subseteq Live
    BY LiveFacts, ReachableClosed
  <1>6. QED
    BY <1>4, <1>5

----------------------------------------------------------------------------
(* What a stage has collected *)

\* The stage st that cleans region d has recorded the places of M that lead
\* into its region and no others, each once, and the objects of M that lie in
\* it and have not moved.
Covers(st, d, M) ==
  LET refs == st.references_to_targets
      objs == st.target_objects
  IN  /\ Distinct(refs) /\ Distinct(objs)
      /\ \A k \in DOMAIN refs :
           /\ refs[k] \in Places(M) /\ Load(refs[k]) = Now(refs[k])
           /\ Now(refs[k]) \in M /\ RegionContains(d, Now(refs[k]))
      /\ \A s \in Places(M) :
           Now(s) \in M /\ RegionContains(d, Now(s)) =>
             \E k \in DOMAIN refs : refs[k] = s
      /\ \A k \in DOMAIN objs : objs[k] \in M /\ ~WasRelocated(objs[k])
      /\ \A a \in M : RegionContains(d, a) /\ ~WasRelocated(a) =>
           \E k \in DOMAIN objs : objs[k] = a

\* Its estimate is the size of the objects it moves.
Estimated(st) ==
  st.estimating_realloc_size = Cardinality(Cells(mem, st.target_objects))

\* The stages that wait, for the objects M.
Waits(M) == \A d \in 1 .. Depth - 1 : /\ Covers(stages_stack[d], d, M)
                                      /\ Estimated(stages_stack[d])

\* A place the marking of stage st has come to when the objects of M are
\* marked: of a frame it has entered, or of a marked object.
Reached(s, st, M) == s \in Places(M) /\ (IsRoot(s) => s.frame <= st.scanned)

\* The places still to visit (w) and those recorded are places it has come to,
\* none of them twice, and the objects collected are marked, none twice.
Progress(w, st, M) ==
  LET refs == st.references_to_targets
      objs == st.target_objects
  IN  /\ \A k \in DOMAIN w : Reached(w[k].slot, st, M)
      /\ \A j, k \in DOMAIN w : w[j].slot = w[k].slot => j = k
      /\ \A k \in DOMAIN refs : /\ Reached(refs[k], st, M)
                                /\ Load(refs[k]) \in M
                                /\ RegionContains(Depth, Load(refs[k]))
      /\ Distinct(refs) /\ Distinct(objs)
      /\ \A j \in DOMAIN w, k \in DOMAIN refs : w[j].slot # refs[k]
      /\ \A k \in DOMAIN objs : objs[k] \in M
      /\ Estimated(st)

\* The way down: while the innermost stage marks.
Down == /\ \A a \in Live : Good(a)
        /\ marked \subseteq Live
        /\ Progress(work, Top, marked)
        /\ Waits(Live)

\* Where an object of M that was moved went.
Copy(a)  == mem[a].relocated_ptr
Moved(M) == {a \in M : WasRelocated(a)}

\* The objects of M are in place, but for those of region R that were moved
\* to the next one: each has its own copy there.
Forwarded(M, R) ==
  /\ \A a \in M : ~WasRelocated(a) => Good(a)
  /\ \A a \in Moved(M) :
       /\ RegionContains(R, a) /\ RegionContains(R + 1, Copy(a))
       /\ Good(Copy(a)) /\ Copy(a) \notin M
       /\ DOMAIN mem[Copy(a)].slots = DOMAIN mem[a].slots
  /\ \A a, b \in Moved(M) : Copy(a) = Copy(b) => a = b

\* Every place of M is empty or leads to an object of M or a copy.
Leads(M) ==
  \A s \in Places(M) :
    Now(s) \in Held(M) \/ \E b \in Moved(M) : Now(s) = Copy(b)

\* The way up: the innermost stage moves and rebinds ...
UpMove(M) ==
  /\ Forwarded(M, Depth) /\ Leads(M)
  /\ Covers(Top, Depth, M) /\ Waits(M)
  /\ cursor[ToSpace] + Cardinality(Cells(mem, Top.target_objects))
       <= RegionSize(ToSpace)

\* ... or the stage nested in it has just emptied the next region.
UpFix(M) ==
  /\ Forwarded(M, ToSpace) /\ Leads(M)
  /\ Covers(Top, Depth, M) /\ Waits(M) /\ Estimated(Top)
  /\ cursor[ToSpace] = CURSOR /\ ToSpace <= SURVIVORS_N
  /\ \A a \in M : RegionContains(ToSpace, a) => WasRelocated(a)
  /\ \A s \in Places(M) :
       Now(s) \in M => ~RegionContains(ToSpace, Now(s))

CollectorInv ==
  status = "run" =>
    /\ HeapSafe
    /\ InGC /\ Top.phase = "mark" => Down
    /\ InGC /\ Top.phase = "move" => \E M \in SUBSET Addr : UpMove(M)
    /\ InGC /\ Top.phase = "fix"  => \E M \in SUBSET Addr : UpFix(M)

----------------------------------------------------------------------------
(* The way down *)

\* The stages that wait are not concerned by a step that writes no pointer.
LEMMA WaitsSame ==
  ASSUME UNCHANGED <<mem, state_stack>>, Depth' = Depth,
         \A d \in 1 .. Depth - 1 : stages_stack'[d] = stages_stack[d],
         NEW M, Waits(M)
  PROVE  Waits(M)'
  <1>1. /\ Places(M)' = Places(M)
        /\ \A s : Load(s)' = Load(s) /\ Now(s)' = Now(s)
        /\ \A a : WasRelocated(a)' <=> WasRelocated(a)
    BY DEF Places, RootSlots, SlotsIn, Load, Now, CurrentHolder, WasRelocated
  <1>2. ASSUME NEW d \in 1 .. Depth - 1
        PROVE  (Covers(stages_stack[d], d, M) /\ Estimated(stages_stack[d]))'
    <2>1. Covers(stages_stack[d], d, M) /\ Estimated(stages_stack[d])
      BY DEF Waits
    <2>2. Covers(stages_stack[d], d, M)'
      BY <1>1, <2>1 DEF Covers
    <2>3. QED
      BY <2>1, <2>2 DEF Estimated
  <1>3. QED
    BY <1>2 DEF Waits

\* A step of the marking: it is enough to look at the new work, stage and
\* marks.
LEMMA DownNext ==
  ASSUME TypeInv, Down, UNCHANGED <<mem, cursor, state_stack>>,
         Depth' = Depth,
         \A d \in 1 .. Depth - 1 : stages_stack'[d] = stages_stack[d],
         NEW w, NEW st, NEW M, w = work', st = Top', M = marked',
         M \subseteq Live, Progress(w, st, M)
  PROVE  Down'
  <1>1. Live' = Live /\ Waits(Live)'
    <2>1. Live' = Live
      BY LiveSame
    <2>2. PICK L : L = Live
      OBVIOUS
    <2>3. Waits(L)'
      BY <2>2, WaitsSame DEF Down
    <2>4. QED
      BY <2>1, <2>2, <2>3
  <1>2. \A a : Good(a)' <=> Good(a)
    BY DEF Good, Allocated, CursorPtr, WasRelocated
  <1>3. /\ Places(marked)' = Places(M)
        /\ \A s : Load(s)' = Load(s)
    BY DEF Places, RootSlots, SlotsIn, Load
  <1>4. Progress(work, Top, marked)'
    BY <1>3 DEF Progress, Reached, IsRoot, Estimated, Load
  <1>5. QED
    BY <1>1, <1>2, <1>4 DEF Down

\* A place reached stays reached when more is marked and more frames entered.
LEMMA StillReached ==
  ASSUME NEW M, NEW N, M \subseteq N, NEW st, NEW tt,
         st.scanned \in Nat, tt.scanned \in Nat, st.scanned <= tt.scanned,
         NEW s \in Slot, Reached(s, st, M)
  PROVE  Reached(s, tt, N)
  <1>1. s \in Places(N)
    BY DEF Reached, Places, SlotsIn
  <1>2. IsRoot(s) => s.frame <= tt.scanned
    BY DEF Reached, Slot
  <1>3. QED
    BY <1>1, <1>2 DEF Reached

\* A place reached is a place of a live object.
LEMMA ReachedPlace ==
  ASSUME TypeInv, NEW M \in SUBSET Live, NEW st, NEW s, Reached(s, st, M)
  PROVE  /\ s \in Slot /\ IsPlace(s) /\ s \in Places(Live)
         /\ Load(s) \in Held(Live)
         /\ ~IsRoot(s) => s.holder \in M
  <1>1. Live \in SUBSET Addr /\ Closed(Live)
    BY LiveFacts
  <1>2. M \in SUBSET Addr /\ s \in Places(M)
    BY <1>1 DEF Reached
  <1>3. s \in Places(Live)
    BY <1>2 DEF Places, SlotsIn
  <1>4. s \in Slot /\ IsPlace(s) /\ (~IsRoot(s) => s.holder \in M)
    BY <1>2, PlaceCases
  <1>5. QED
    BY <1>1, <1>3, <1>4, ClosedPlaces

\* Entering the next frame of MarkAndFetchTargetObjects.
LEMMA MarkFrameDown ==
  ASSUME TypeInv, Down, MarkFrame
  PROVE  Down' /\ InGC' /\ Top'.phase = "mark" /\ status' = "run"
  <1>a. PICK st : st = [Top EXCEPT !.scanned = @ + 1]
    OBVIOUS
  <1>b. PICK w : w = FrameRoots(Top.scanned + 1)
    OBVIOUS
  <1>c. PICK M : M = marked
    OBVIOUS
  <1>1. /\ InGC /\ status = "run" /\ Top.phase = "mark" /\ work = <<>>
        /\ Top.scanned < Len(state_stack)
        /\ stages_stack' = SetTop(st)
        /\ w = work' /\ M = marked'
        /\ UNCHANGED <<mem, cursor, state_stack, status>>
    BY <1>a, <1>b, <1>c DEF MarkFrame, Marking
  <1>2. Top \in Stage /\ InItsRegion(Top, Depth) /\ Depth \in 1 .. SURVIVORS_N
    BY <1>1, TopType DEF TypeInv
  <1>3. /\ Top.scanned \in Nat /\ st \in Stage /\ st.scanned = Top.scanned + 1
        /\ st.phase = Top.phase
        /\ st.target_objects = Top.target_objects
        /\ st.references_to_targets = Top.references_to_targets
        /\ st.estimating_realloc_size = Top.estimating_realloc_size
    BY <1>a, <1>2 DEF Stage
  <1>4. /\ Depth' = Depth /\ st = Top'
        /\ \A d \in 1 .. Depth - 1 : stages_stack'[d] = stages_stack[d]
    BY <1>1, <1>2, <1>3, SetTopType DEF TypeInv, InItsRegion, Depth, Top
  <1>5. M \in SUBSET Live /\ Progress(work, Top, M)
    BY <1>c DEF Down
  <1>6. ASSUME NEW s, Reached(s, Top, M)
        PROVE  Reached(s, st, M) /\ (IsRoot(s) => s.frame <= Top.scanned)
    <2>1. s \in Slot
      BY <1>5, <1>6, ReachedPlace
    <2>2. Reached(s, st, M)
      BY <1>3, <1>6, <2>1, StillReached
    <2>3. QED
      BY <1>6, <2>2 DEF Reached
  <1>7. ASSUME NEW k \in DOMAIN w
        PROVE  /\ k \in 1 .. NREGS + 2
               /\ w[k].slot = RootSlot(Top.scanned + 1, k - 1)
               /\ IsRoot(w[k].slot)
               /\ w[k].slot.frame = Top.scanned + 1
               /\ w[k].slot.idx = k - 1
    BY <1>b DEF FrameRoots, Item, RootSlot, IsRoot
  <1>8. ASSUME NEW k \in DOMAIN w
        PROVE  Reached(w[k].slot, st, M)
    <2>1. Top.scanned + 1 \in DOMAIN state_stack /\ k - 1 \in RootIdx
      BY <1>1, <1>3, <1>7, FrameAssumption DEF TypeInv, FramesOK, RootIdx
    <2>2. RootSlot(Top.scanned + 1, k - 1) \in RootSlots
      BY <2>1 DEF RootSlots
    <2>3. QED
      BY <1>3, <1>7, <2>2 DEF Reached, Places
  <1>9. ASSUME NEW j \in DOMAIN w, NEW k \in DOMAIN w, w[j].slot = w[k].slot
        PROVE  j = k
    <2>1. j \in Int /\ k \in Int /\ j - 1 = k - 1
      BY <1>7, <1>9, FrameAssumption
    <2>2. QED
      BY <2>1
  <1>10. ASSUME NEW j \in DOMAIN w,
                NEW k \in DOMAIN Top.references_to_targets
         PROVE  w[j].slot # Top.references_to_targets[k]
    <2>1. Reached(Top.references_to_targets[k], Top, M)
      BY <1>5 DEF Progress
    <2>2. IsRoot(Top.references_to_targets[k]) =>
            Top.references_to_targets[k].frame <= Top.scanned
      BY <1>6, <2>1
    <2>3. QED
      BY <1>3, <1>7, <2>2
  <1>11. Progress(w, st, M)
    BY <1>3, <1>5, <1>6, <1>8, <1>9, <1>10 DEF Progress, Estimated
  <1>12. Down'
    BY <1>1, <1>4, <1>5, <1>11, DownNext
  <1>13. QED
    BY <1>1, <1>3, <1>4, <1>12 DEF InGC

\* The slots of the work stay apart when those of an object come before it.
LEMMA ConcatDistinct ==
  ASSUME NEW T, NEW p \in Seq(T), NEW e \in T, NEW q \in Seq(T),
         NEW c, Around(c, p, e, q),
         \A j, k \in DOMAIN p : p[j].slot = p[k].slot => j = k,
         \A j, k \in DOMAIN q : q[j].slot = q[k].slot => j = k,
         \A j \in DOMAIN p : p[j].slot # e.slot,
         \A k \in DOMAIN q : q[k].slot # e.slot,
         \A j \in DOMAIN p, k \in DOMAIN q : p[j].slot # q[k].slot
  PROVE  \A j, k \in DOMAIN c : c[j].slot = c[k].slot => j = k
  <1> DEFINE L == Len(p)
             N == Len(q)
  <1>1. /\ L \in Nat /\ DOMAIN p = 1 .. L /\ N \in Nat /\ DOMAIN q = 1 .. N
    OBVIOUS
  <1>2. /\ DOMAIN c = 1 .. L + 1 + N
        /\ \A k \in 1 .. L : c[k] = p[k]
        /\ c[L + 1] = e
        /\ \A k \in L + 2 .. L + 1 + N : c[k] = q[k - L - 1]
    BY DEF Around
  <1> HIDE DEF L, N
  <1>3. ASSUME NEW j \in DOMAIN c
        PROVE  \/ j \in DOMAIN p /\ c[j] = p[j]
               \/ j = L + 1 /\ c[j] = e
               \/ /\ j \in Int /\ j - L - 1 \in DOMAIN q
                  /\ c[j] = q[j - L - 1]
    BY <1>1, <1>2
  <1> SUFFICES ASSUME NEW j \in DOMAIN c, NEW k \in DOMAIN c,
                      c[j].slot = c[k].slot
               PROVE  j = k
    OBVIOUS
  <1>4. CASE j \in DOMAIN p /\ c[j] = p[j]
    BY <1>3, <1>4
  <1>5. CASE j = L + 1 /\ c[j] = e
    BY <1>3, <1>5
  <1>6. CASE /\ j \in Int /\ j - L - 1 \in DOMAIN q
             /\ c[j] = q[j - L - 1]
    <2>1. CASE /\ k \in Int /\ k - L - 1 \in DOMAIN q
               /\ c[k] = q[k - L - 1]
      <3>1. j - L - 1 = k - L - 1
        BY <1>6, <2>1
      <3>2. QED
        BY <1>1, <1>6, <2>1, <3>1
    <2>2. QED
      BY <1>3, <1>6, <2>1
  <1>7. QED
    BY <1>3, <1>4, <1>5, <1>6

\* The next slot of the recursion and the slots after it.
LEMMA VisitNext ==
  ASSUME NEW w \in Seq(WorkItem), w # <<>>, NEW st, NEW M, Progress(w, st, M),
         NEW s, s = Head(w).slot
  PROVE  /\ Progress(Tail(w), st, M) /\ Tail(w) \in Seq(WorkItem)
         /\ Reached(s, st, M)
         /\ \A k \in DOMAIN Tail(w) : Tail(w)[k].slot # s
         /\ \A k \in DOMAIN st.references_to_targets :
              st.references_to_targets[k] # s
  <1> DEFINE t == Tail(w)
  <1>1. /\ Len(w) \in Nat \ {0} /\ DOMAIN w = 1 .. Len(w) /\ w[1] = Head(w)
        /\ t \in Seq(WorkItem) /\ DOMAIN t = 1 .. Len(w) - 1
        /\ \A k \in 1 .. Len(w) - 1 : t[k] = w[k + 1]
    OBVIOUS
  <1> HIDE DEF t
  <1>2. ASSUME NEW k \in DOMAIN t
        PROVE  k \in Int /\ k + 1 \in DOMAIN w /\ k + 1 # 1 /\ t[k] = w[k + 1]
    BY <1>1
  <1>3. 1 \in DOMAIN w
    BY <1>1
  <1>4. Reached(s, st, M)
    BY <1>1, <1>3 DEF Progress
  <1>5. \A k \in DOMAIN t : t[k].slot # s
    BY <1>1, <1>2, <1>3 DEF Progress
  <1>6. \A k \in DOMAIN st.references_to_targets :
           st.references_to_targets[k] # s
    BY <1>1, <1>3 DEF Progress
  <1>7. Progress(t, st, M)
    <2>1. ASSUME NEW j \in DOMAIN t, NEW k \in DOMAIN t, t[j].slot = t[k].slot
          PROVE  j = k
      <3>1. j + 1 = k + 1
        BY <1>2, <2>1 DEF Progress
      <3>2. QED
        BY <1>2, <3>1
    <2>2. \A k \in DOMAIN t : Reached(t[k].slot, st, M)
      BY <1>2 DEF Progress
    <2>3. \A j \in DOMAIN t, k \in DOMAIN st.references_to_targets :
             t[j].slot # st.references_to_targets[k]
      BY <1>2 DEF Progress
    <2>4. QED
      BY <2>1, <2>2, <2>3 DEF Progress
  <1>8. QED
    BY <1>1, <1>4, <1>5, <1>6, <1>7 DEF t

\* AppendRefToAliveObject records the slot.
LEMMA RecordReference ==
  ASSUME NEW w, NEW st \in Stage, NEW M, Progress(w, st, M),
         NEW s \in Slot, Reached(s, st, M), Load(s) \in M,
         RegionContains(Depth, Load(s)),
         \A k \in DOMAIN w : w[k].slot # s,
         \A k \in DOMAIN st.references_to_targets :
            st.references_to_targets[k] # s,
         NEW tt, tt.scanned = st.scanned,
         tt.references_to_targets = Append(st.references_to_targets, s),
         tt.target_objects = st.target_objects,
         tt.estimating_realloc_size = st.estimating_realloc_size
  PROVE  Progress(w, tt, M)
  <1> DEFINE q == st.references_to_targets
             r == Append(q, s)
  <1>1. q \in Seq(Slot)
    BY DEF Stage
  <1>2. /\ DOMAIN q = 1 .. Len(q) /\ Len(q) \in Nat
        /\ DOMAIN r = 1 .. Len(q) + 1 /\ r[Len(q) + 1] = s
        /\ \A k \in 1 .. Len(q) : r[k] = q[k]
    BY <1>1
  <1> HIDE DEF q, r
  <1>3. ASSUME NEW k \in DOMAIN r
        PROVE  \/ k = Len(q) + 1 /\ r[k] = s
               \/ k \in DOMAIN q /\ r[k] = q[k]
    BY <1>2
  <1>4. tt.references_to_targets = r
    BY DEF q, r
  <1>5. Distinct(r)
    BY <1>3 DEF Progress, Distinct, q
  <1>6. \A x : Reached(x, st, M) => Reached(x, tt, M)
    BY DEF Reached
  <1>7. ASSUME NEW k \in DOMAIN r
        PROVE  /\ Reached(r[k], tt, M) /\ Load(r[k]) \in M
               /\ RegionContains(Depth, Load(r[k]))
    <2>1. \A j \in DOMAIN q : /\ Reached(q[j], st, M) /\ Load(q[j]) \in M
                              /\ RegionContains(Depth, Load(q[j]))
      BY DEF Progress, q
    <2>2. QED
      BY <1>3, <1>6, <2>1
  <1>8. \A j \in DOMAIN w, k \in DOMAIN r : w[j].slot # r[k]
    BY <1>3 DEF Progress, q
  <1>9. QED
    BY <1>4, <1>5, <1>6, <1>7, <1>8 DEF Progress, Estimated

\* An object is marked: its registers come first, then the slot that led to
\* it again.
LEMMA VisitObject ==
  ASSUME TypeInv, NEW w \in Seq(WorkItem), NEW st \in Stage,
         NEW M \in SUBSET Live, Progress(w, st, M),
         NEW s \in Slot, Reached(s, st, M),
         \A k \in DOMAIN w : w[k].slot # s,
         \A k \in DOMAIN st.references_to_targets :
            st.references_to_targets[k] # s,
         NEW obj \in Live, obj \notin M,
         NEW c, NEW e, e = [slot |-> s, post |-> TRUE],
         Around(c, SlotsOf(obj), e, w)
  PROVE  Progress(c, st, M \cup {obj})
  <1> DEFINE p == SlotsOf(obj)
             N == M \cup {obj}
             refs == st.references_to_targets
  <1>1. Live \in SUBSET Addr
    BY LiveFacts
  <1>2. p \in Seq(WorkItem) /\ e \in WorkItem /\ e.slot = s
    BY <1>1, SlotsOfType DEF WorkItem
  <1>3. DOMAIN p = DOMAIN mem[obj].slots
        /\ \A i \in DOMAIN p : p[i].slot = HeapSlot(obj, i)
    <2>1. mem[obj].slots \in Seq(Ptr)
      BY <1>1, CellType DEF TypeInv
    <2>2. QED
      BY <2>1 DEF SlotsOf, Item
  <1> HIDE DEF p
  <1>4. ASSUME NEW i \in DOMAIN p
        PROVE  /\ p[i].slot \in Places(N) /\ ~IsRoot(p[i].slot)
               /\ p[i].slot.holder = obj /\ p[i].slot.idx = i
    <2>1. N \in SUBSET Addr /\ obj \in N
      BY <1>1
    <2> HIDE DEF N
    <2>2. i \in DOMAIN mem[obj].slots /\ p[i].slot = HeapSlot(obj, i)
      BY <1>3
    <2>3. QED
      BY <2>1, <2>2, HeapPlace
  <1>5. ASSUME NEW x, Reached(x, st, M)
        PROVE  Reached(x, st, N) /\ \A i \in DOMAIN p : p[i].slot # x
    <2>1. x \in Slot /\ (~IsRoot(x) => x.holder \in M)
      BY <1>5, ReachedPlace
    <2>2. Reached(x, st, N)
      BY <1>5 DEF Reached, Places, SlotsIn
    <2>3. QED
      BY <1>4, <2>1, <2>2
  <1>6. \A i \in DOMAIN p : Reached(p[i].slot, st, N)
    BY <1>4 DEF Reached
  <1>7. \A k \in DOMAIN w : Reached(w[k].slot, st, M)
    BY DEF Progress
  <1>8. /\ \A j, k \in DOMAIN p : p[j].slot = p[k].slot => j = k
        /\ \A j \in DOMAIN p : p[j].slot # e.slot
        /\ \A j \in DOMAIN p, k \in DOMAIN w : p[j].slot # w[k].slot
        /\ \A k \in DOMAIN w : w[k].slot # e.slot
        /\ \A j, k \in DOMAIN w : w[j].slot = w[k].slot => j = k
    <2>1. \A j, k \in DOMAIN p : p[j].slot = p[k].slot => j = k
      BY <1>4
    <2>2. \A j, k \in DOMAIN w : w[j].slot = w[k].slot => j = k
      BY DEF Progress
    <2>3. QED
      BY <1>2, <1>5, <1>7, <2>1, <2>2
  <1>9. Around(c, p, e, w)
    BY DEF p
  <1>10. \A j, k \in DOMAIN c : c[j].slot = c[k].slot => j = k
    BY <1>2, <1>8, <1>9, ConcatDistinct
  <1>11. \A j \in DOMAIN c : \/ \E k \in DOMAIN p : c[j] = p[k]
                             \/ c[j] = e
                             \/ \E k \in DOMAIN w : c[j] = w[k]
    BY <1>2, <1>9, ConcatKeeps
  <1>12. \A j \in DOMAIN c : Reached(c[j].slot, st, N)
    BY <1>2, <1>5, <1>6, <1>7, <1>11
  <1>13. \A k \in DOMAIN refs : /\ Reached(refs[k], st, M)
                                /\ Load(refs[k]) \in M
                                /\ RegionContains(Depth, Load(refs[k]))
    BY DEF Progress
  <1>14. \A j \in DOMAIN c, k \in DOMAIN refs : c[j].slot # refs[k]
    <2>1. \A j \in DOMAIN w, k \in DOMAIN refs : w[j].slot # refs[k]
      BY DEF Progress
    <2>2. QED
      BY <1>2, <1>5, <1>11, <1>13, <2>1
  <1>15. QED
    BY <1>5, <1>10, <1>12, <1>13, <1>14 DEF Progress

\* AppendAliveObject: a marked object of the region, not collected before.
LEMMA CollectObject ==
  ASSUME TypeInv, RegionsTiled, NEW r \in RegionIds,
         NEW w, NEW st \in Stage, NEW M \in SUBSET Addr, Progress(w, st, M),
         NEW obj \in M, Header(r, obj),
         \A k \in DOMAIN st.target_objects :
            /\ st.target_objects[k] # obj
            /\ Header(r, st.target_objects[k]),
         NEW tt, tt.scanned = st.scanned,
         tt.references_to_targets = st.references_to_targets,
         tt.target_objects = Append(st.target_objects, obj),
         tt.estimating_realloc_size =
            st.estimating_realloc_size + mem[obj].allocated_size
  PROVE  Progress(w, tt, M)
  <1> DEFINE q == st.target_objects
             p == Append(q, obj)
  <1>1. q \in Seq(Addr)
    BY DEF Stage
  <1>2. Collected(r, q)
    BY <1>1 DEF Progress, Collected
  <1>3. /\ Collected(r, p)
        /\ Cardinality(Cells(mem, p))
             = Cardinality(Cells(mem, q)) + mem[obj].allocated_size
    <2> HIDE DEF q
    <2>1. obj \in Addr /\ \A k \in DOMAIN q : q[k] # obj
      BY DEF q
    <2>2. QED
      BY <1>2, <2>1, CellsAppend
  <1>4. Estimated(tt)
    BY <1>3 DEF Estimated, Progress
  <1>5. \A x : Reached(x, st, M) => Reached(x, tt, M)
    BY DEF Reached
  <1>6. \A k \in DOMAIN p : p[k] \in M
    <2>1. \A k \in DOMAIN q : q[k] \in M
      BY DEF Progress
    <2>2. /\ DOMAIN q = 1 .. Len(q) /\ Len(q) \in Nat
          /\ DOMAIN p = 1 .. Len(q) + 1 /\ p[Len(q) + 1] = obj
          /\ \A k \in 1 .. Len(q) : p[k] = q[k]
      BY <1>1
    <2> HIDE DEF q, p
    <2>3. QED
      BY <2>1, <2>2
  <1> HIDE DEF p
  <1>7. tt.target_objects = p
    BY DEF p
  <1>8. Distinct(p)
    BY <1>3 DEF Collected
  <1>9. QED
    BY <1>4, <1>5, <1>6, <1>7, <1>8 DEF Progress

\* A step of MarkAndFetchRecursively: its checks hold, and the marking goes on.
LEMMA MarkDown ==
  ASSUME MarkInv, RegionsTiled, Down, MarkAndFetchRecursively
  PROVE  Down' /\ InGC' /\ Top'.phase = "mark" /\ status' = "run"
  <1>a. PICK s : s = Head(work).slot
    OBVIOUS
  <1>b. PICK obj : obj = Load(s)
    OBVIOUS
  <1>c. PICK M : M = marked
    OBVIOUS
  <1>d. PICK withRef :
          withRef = [Top EXCEPT !.references_to_targets = Append(@, s)]
    OBVIOUS
  <1>e. PICK withAlive :
          withAlive = [Top EXCEPT !.target_objects = Append(@, obj),
                                  !.estimating_realloc_size =
                                     @ + mem[obj].allocated_size]
    OBVIOUS
  <1> DEFINE hit == obj # nullptr /\ RegionContains(Depth, obj)
             check == IsPlace(s) /\ (obj # nullptr => mem[obj] # NoObj)
             same  == UNCHANGED <<mem, cursor, state_stack,
                                  is_trigger_forbidden, status>>
             t == Tail(work)
  <1>1. /\ TypeInv /\ ComeBack /\ Marking /\ InGC /\ work # <<>>
        /\ status = "run" /\ Top.phase = "mark" /\ work \in Seq(WorkItem)
    BY DEF MarkAndFetchRecursively, Marking, MarkInv, TypeInv
  <1>2. Top \in Stage /\ InItsRegion(Top, Depth) /\ Depth \in RegionIds
    BY <1>1, TopType, RegionsAssumption DEF TypeInv, RegionIds, Tenured
  <1>3. /\ M \in SUBSET Live /\ Live \in SUBSET Addr /\ Progress(work, Top, M)
        /\ \A a \in Live : Good(a)
    BY <1>c, <1>1, LiveFacts DEF Down
  <1>4. /\ Progress(t, Top, M) /\ t \in Seq(WorkItem)
        /\ Reached(s, Top, M)
        /\ \A k \in DOMAIN t : t[k].slot # s
        /\ \A k \in DOMAIN Top.references_to_targets :
             Top.references_to_targets[k] # s
    BY <1>a, <1>1, <1>3, VisitNext
  <1> HIDE DEF t
  <1>5. s \in Slot /\ IsPlace(s) /\ obj \in Held(Live)
    BY <1>b, <1>1, <1>3, <1>4, ReachedPlace
  <1>6. obj # nullptr => obj \in Live /\ Good(obj)
    BY <1>3, <1>5 DEF Held
  <1>7. check
    BY <1>5, <1>6 DEF Good
  <1>8. CASE obj = nullptr /\ work' = t /\ UNCHANGED <<stages_stack, marked>>
             /\ same
    <2>1. Depth' = Depth /\ Top' = Top
      BY <1>8 DEF Depth, Top
    <2>2. Down'
      <3>1. PICK st, w : st = Top /\ w = t
        OBVIOUS
      <3>2. Progress(w, st, M)
        BY <1>4, <3>1
      <3>3. w = work' /\ st = Top' /\ M = marked'
        BY <1>c, <1>8, <2>1, <3>1
      <3>4. QED
        BY <1>1, <1>3, <1>8, <2>1, <3>2, <3>3, DownNext
    <2>3. QED
      BY <1>1, <1>8, <2>1, <2>2 DEF InGC
  <1>9. CASE obj # nullptr /\ (Head(work).post \/ obj \in marked)
             /\ work' = t
             /\ stages_stack' = (IF hit THEN SetTop(withRef) ELSE stages_stack)
             /\ UNCHANGED marked /\ same
    <2>1. obj \in M
      <3>1. Head(work) = work[1] /\ 1 \in DOMAIN work
        BY <1>1
      <3>2. QED
        BY <1>a, <1>b, <1>c, <1>1, <1>9, <3>1 DEF ComeBack
    <2>2. PICK w : w = t
      OBVIOUS
    <2>3. CASE hit
      <3>1. /\ withRef \in Stage /\ withRef.phase = Top.phase
            /\ withRef.target_objects = Top.target_objects
            /\ withRef.scanned = Top.scanned
            /\ withRef.references_to_targets
                 = Append(Top.references_to_targets, s)
            /\ withRef.estimating_realloc_size = Top.estimating_realloc_size
        <4>1. Top.references_to_targets \in Seq(Slot)
          BY <1>2 DEF Stage
        <4>2. Append(Top.references_to_targets, s) \in Seq(Slot)
          BY <1>5, <4>1
        <4>3. QED
          BY <1>d, <1>2, <4>2 DEF Stage
      <3>2. InItsRegion(withRef, Depth)
        BY <1>2, <3>1 DEF InItsRegion
      <3>3. /\ Depth' = Depth /\ withRef = Top'
            /\ \A d \in 1 .. Depth - 1 : stages_stack'[d] = stages_stack[d]
        BY <1>1, <1>9, <2>3, <3>1, <3>2, SetTopType DEF TypeInv, Depth, Top
      <3>4. Progress(w, withRef, M)
        BY <1>b, <1>2, <1>4, <1>5, <2>1, <2>2, <2>3, <3>1, RecordReference
      <3>5. Down'
        BY <1>c, <1>1, <1>3, <1>9, <2>2, <3>3, <3>4, DownNext
      <3>6. QED
        BY <1>1, <1>9, <3>1, <3>3, <3>5 DEF InGC
    <2>4. CASE ~hit
      <3>1. Depth' = Depth /\ Top' = Top /\ stages_stack' = stages_stack
        BY <1>9, <2>4 DEF Depth, Top
      <3>2. PICK st : st = Top
        OBVIOUS
      <3>3. Progress(w, st, M)
        BY <1>4, <2>2, <3>2
      <3>4. w = work' /\ st = Top' /\ M = marked'
        BY <1>c, <1>9, <2>2, <3>1, <3>2
      <3>5. Down'
        BY <1>1, <1>3, <1>9, <3>1, <3>3, <3>4, DownNext
      <3>6. QED
        BY <1>1, <1>9, <3>1, <3>5 DEF InGC
    <2>5. QED
      BY <2>3, <2>4
  <1>10. CASE obj # nullptr /\ obj \notin marked
             /\ marked' = marked \cup {obj}
             /\ work' = SlotsOf(obj) \o <<[slot |-> s, post |-> TRUE]>> \o t
             /\ stages_stack' = (IF hit THEN SetTop(withAlive)
                                        ELSE stages_stack)
             /\ same
    <2>1. PICK c, N : /\ c = SlotsOf(obj) \o <<[slot |-> s, post |-> TRUE]>> \o t
                      /\ N = M \cup {obj}
      OBVIOUS
    <2>2. obj \in Live /\ Good(obj) /\ obj \notin M /\ N \in SUBSET Live
          /\ obj \in N
      BY <1>c, <1>3, <1>6, <1>10, <2>1
    <2>3. Progress(c, Top, N)
      <3>1. PICK w, e : w = t /\ e = [slot |-> s, post |-> TRUE]
        OBVIOUS
      <3>2. Around(c, SlotsOf(obj), e, w)
        BY <2>1, <3>1 DEF Around
      <3>3. Progress(c, Top, M \cup {obj})
        BY <1>1, <1>2, <1>3, <1>4, <1>5, <2>2, <3>1, <3>2, VisitObject
      <3>4. QED
        BY <2>1, <3>3
    <2>4. CASE hit
      <3>1. /\ withAlive \in Stage /\ withAlive.phase = Top.phase
            /\ withAlive.target_objects = Append(Top.target_objects, obj)
            /\ withAlive.scanned = Top.scanned
            /\ withAlive.references_to_targets = Top.references_to_targets
            /\ withAlive.estimating_realloc_size
                 = Top.estimating_realloc_size + mem[obj].allocated_size
        <4>1. Top.target_objects \in Seq(Addr)
              /\ Top.estimating_realloc_size \in Nat
          BY <1>2 DEF Stage
        <4>2. obj \in Addr /\ mem[obj].allocated_size \in Nat
          BY <1>1, <1>3, <2>2, CellType DEF TypeInv
        <4>3. /\ Append(Top.target_objects, obj) \in Seq(Addr)
              /\ Top.estimating_realloc_size + mem[obj].allocated_size \in Nat
          BY <4>1, <4>2
        <4>4. QED
          BY <1>e, <1>2, <4>3 DEF Stage
      <3>2. InItsRegion(withAlive, Depth)
        <4>1. Top.target_objects \in Seq(Addr)
          BY <1>2 DEF Stage
        <4> DEFINE q == Top.target_objects
        <4>2. /\ DOMAIN q = 1 .. Len(q) /\ Len(q) \in Nat
              /\ DOMAIN Append(q, obj) = 1 .. Len(q) + 1
              /\ Append(q, obj)[Len(q) + 1] = obj
              /\ \A k \in 1 .. Len(q) : Append(q, obj)[k] = q[k]
          BY <4>1
        <4>3. \A k \in DOMAIN q : RegionContains(Depth, q[k])
          BY <1>2 DEF InItsRegion
        <4> HIDE DEF q
        <4>4. \A k \in DOMAIN Append(q, obj) :
                 RegionContains(Depth, Append(q, obj)[k])
          BY <2>4, <4>2, <4>3
        <4>5. QED
          BY <3>1, <4>4 DEF InItsRegion, q
      <3>3. /\ Depth' = Depth /\ withAlive = Top'
            /\ \A d \in 1 .. Depth - 1 : stages_stack'[d] = stages_stack[d]
        BY <1>1, <1>10, <2>4, <3>1, <3>2, SetTopType DEF TypeInv, Depth, Top
      <3>4. Progress(c, withAlive, N)
        <4>1. ASSUME NEW k \in DOMAIN Top.target_objects
              PROVE  /\ Top.target_objects[k] # obj
                     /\ Header(Depth, Top.target_objects[k])
          <5>1. Top.target_objects[k] \in M
            BY <1>3 DEF Progress
          <5>2. Good(Top.target_objects[k])
            BY <1>3, <5>1
          <5>3. RegionContains(Depth, Top.target_objects[k])
            BY <1>2 DEF InItsRegion
          <5>4. QED
            BY <2>2, <5>1, <5>2, <5>3 DEF Header, Good
        <4>2. Header(Depth, obj)
          BY <2>2, <2>4 DEF Header, Good
        <4>3. N \in SUBSET Addr
          BY <1>3, <2>2
        <4>4. QED
          BY <1>1, <1>2, <2>2, <2>3, <3>1, <4>1, <4>2, <4>3, CollectObject
      <3>5. Down'
        <4>1. c = work' /\ N = marked'
          BY <1>c, <1>10, <2>1
        <4>2. QED
          BY <1>1, <1>10, <2>2, <3>3, <3>4, <4>1, DownNext
      <3>6. QED
        BY <1>1, <1>10, <3>1, <3>3, <3>5 DEF InGC
    <2>5. CASE ~hit
      <3>1. Depth' = Depth /\ Top' = Top /\ stages_stack' = stages_stack
        BY <1>10, <2>5 DEF Depth, Top
      <3>2. PICK st : st = Top
        OBVIOUS
      <3>3. Progress(c, st, N)
        BY <2>3, <3>2
      <3>4. c = work' /\ st = Top' /\ N = marked'
        BY <1>c, <1>10, <2>1, <3>1, <3>2
      <3>5. Down'
        BY <1>1, <1>10, <2>2, <3>1, <3>3, <3>4, DownNext
      <3>6. QED
        BY <1>1, <1>10, <3>1, <3>5 DEF InGC
    <2>6. QED
      BY <2>4, <2>5
  <1>11. QED
    BY <1>a, <1>b, <1>d, <1>e, <1>7, <1>8, <1>9, <1>10
       DEF MarkAndFetchRecursively, t

\* Nothing that was collected changes in a step that writes no pointer.
LEMMA CoversSame ==
  ASSUME UNCHANGED <<mem, state_stack>>, NEW st, NEW d, NEW M,
         NEW tt, tt.references_to_targets = st.references_to_targets,
         tt.target_objects = st.target_objects,
         tt.estimating_realloc_size = st.estimating_realloc_size
  PROVE  /\ Covers(st, d, M) => Covers(tt, d, M)'
         /\ Estimated(st) => Estimated(tt)'
  <1>1. /\ Places(M)' = Places(M)
        /\ \A s : Load(s)' = Load(s) /\ Now(s)' = Now(s)
        /\ \A a : WasRelocated(a)' <=> WasRelocated(a)
    BY DEF Places, RootSlots, SlotsIn, Load, Now, CurrentHolder, WasRelocated
  <1>2. Covers(st, d, M) => Covers(tt, d, M)'
    BY <1>1 DEF Covers
  <1>3. Estimated(st) => Estimated(tt)'
    BY DEF Estimated
  <1>4. QED
    BY <1>2, <1>3

\* PrepareNewStage: a stage that follows stages st which wait.
LEMMA BeginDown ==
  ASSUME TypeInv, NEW st \in Seq(Stage), \A a \in Live : Good(a),
         \A d \in 1 .. Len(st) : Covers(st[d], d, Live) /\ Estimated(st[d]),
         BeginStage(st)
  PROVE  Down' /\ InGC' /\ Top'.phase = "mark" /\ status' = status
  <1>1. NewStage \in Stage
    BY DEF NewStage, Stage
  <1>2. /\ Depth' = Len(st) + 1 /\ Len(st) \in Nat /\ Top' = NewStage
        /\ \A d \in 1 .. Len(st) : stages_stack'[d] = st[d]
        /\ marked' = {} /\ work' = <<>>
        /\ UNCHANGED <<mem, cursor, state_stack, status>>
    <2>1. stages_stack' = Append(st, NewStage)
      BY DEF BeginStage
    <2>2. /\ Len(Append(st, NewStage)) = Len(st) + 1 /\ Len(st) \in Nat
          /\ Append(st, NewStage)[Len(st) + 1] = NewStage
          /\ \A d \in 1 .. Len(st) : Append(st, NewStage)[d] = st[d]
      BY <1>1
    <2>3. QED
      BY <2>1, <2>2 DEF BeginStage, Depth, Top
  <1>3. Live' = Live
    BY <1>2, LiveSame
  <1>4. Waits(Live)'
    <2>1. PICK L : L = Live
      OBVIOUS
    <2>2. ASSUME NEW d \in 1 .. Depth' - 1
          PROVE  (Covers(stages_stack[d], d, L) /\ Estimated(stages_stack[d]))'
      <3>1. d \in 1 .. Len(st)
        BY <1>2
      <3>2. PICK one : one = st[d]
        OBVIOUS
      <3>3. Covers(one, d, L) /\ Estimated(one)
        BY <2>1, <3>1, <3>2
      <3>4. Covers(one, d, L)' /\ Estimated(one)'
        BY <1>2, <3>3, CoversSame
      <3>5. one = stages_stack'[d]
        BY <1>2, <3>1, <3>2
      <3>6. QED
        BY <3>4, <3>5 DEF Covers, Estimated
    <2>3. QED
      BY <1>3, <2>1, <2>2 DEF Waits
  <1>5. \A a : Good(a)' <=> Good(a)
    BY <1>2 DEF Good, Allocated, CursorPtr, WasRelocated
  <1>6. Progress(work, Top, marked)'
    <2>1. Cells(mem', <<>>) = {}
      BY DEF Cells
    <2>2. /\ NewStage.references_to_targets = <<>>
          /\ NewStage.target_objects = <<>>
          /\ NewStage.estimating_realloc_size = 0
      BY DEF NewStage
    <2>3. Estimated(Top)'
      BY <1>2, <2>1, <2>2, FS_EmptySet DEF Estimated
    <2>4. QED
      BY <1>2, <2>2, <2>3 DEF Progress, Distinct
  <1>7. Down'
    BY <1>2, <1>3, <1>4, <1>5, <1>6 DEF Down
  <1>8. QED
    BY <1>2, <1>7 DEF InGC, NewStage

\* A cleanup of the program's request starts with a safe heap.
LEMMA CleanupDown ==
  ASSUME TypeInv, HeapSafe, status = "run", ~InGC, BeginStage(stages_stack)
  PROVE  Down' /\ InGC' /\ Top'.phase = "mark"
  <1>1. stages_stack \in Seq(Stage) /\ Len(stages_stack) = 0
    BY DEF TypeInv, StagesOK, InGC, Depth
  <1>2. \A a \in Live : Good(a)
    <2>1. PICK S \in SUBSET Addr : SafeSet(S)
      BY DEF HeapSafe
    <2>2. QED
      BY <2>1, LiveFacts DEF SafeSet
  <1>3. PICK st : st = stages_stack
    OBVIOUS
  <1>4. BeginStage(st) /\ st \in Seq(Stage) /\ Len(st) = 0
    BY <1>1, <1>3
  <1>5. \A d \in 1 .. Len(st) : Covers(st[d], d, Live) /\ Estimated(st[d])
    BY <1>4
  <1>6. QED
    BY <1>2, <1>4, <1>5, BeginDown

\* When the marking ends, exactly the live objects are marked, and the stage
\* has collected what it has to move and to rebind.
LEMMA MarkingEnds ==
  ASSUME MarkInv, Down, Marked
  PROVE  marked = Live /\ Covers(Top, Depth, Live)
  <1>1. /\ TypeInv /\ Complete /\ InGC /\ work = <<>>
        /\ Top.scanned = Len(state_stack)
    BY CompleteForm DEF MarkInv, Marked, Marking
  <1>2. marked \subseteq Live /\ Live \in SUBSET Addr /\ Closed(Live)
    BY <1>1, LiveFacts DEF Down
  <1>3. \A s : ~Pending(s)
    BY <1>1 DEF Pending
  <1>4. \A f \in DOMAIN state_stack : f <= Top.scanned
    BY <1>1 DEF TypeInv, FramesOK
  <1>5. ASSUME NEW s \in Places(marked)
        PROVE  Settled(s)
    <2>1. marked \in SUBSET Addr
      BY <1>2
    <2>2. \/ /\ IsRoot(s)
             /\ s.frame \in DOMAIN state_stack /\ s.idx \in RootIdx
             /\ s = RootSlot(s.frame, s.idx)
          \/ /\ ~IsRoot(s)
             /\ s.holder \in marked /\ s.idx \in DOMAIN mem[s.holder].slots
             /\ s = HeapSlot(s.holder, s.idx)
      BY <1>1, <2>1, PlaceCases
    <2>3. QED
      BY <1>1, <1>4, <2>2 DEF Complete
  <1>6. marked = Live
    <2>1. \A s \in Places(marked) : Load(s) \in Held(marked)
      BY <1>3, <1>5 DEF Settled, Held
    <2>2. Closed(marked) /\ marked \in SUBSET Addr
      BY <1>1, <1>2, <2>1, ClosedPlaces
    <2>3. QED
      BY <1>1, <1>2, <2>2, LiveFacts
  <1>7. \A a \in Live : ~WasRelocated(a)
    BY DEF Down, Good
  <1>8. ASSUME NEW s \in Places(Live)
        PROVE  Now(s) = Load(s)
    <2>1. IsRoot(s) \/ s.holder \in Live
      BY <1>1, <1>2, PlaceCases
    <2>2. QED
      BY <1>1, <1>2, <1>7, <2>1, NowIsLoad
  <1>9. Progress(work, Top, Live)
    BY <1>6 DEF Down
  <1>10. Covers(Top, Depth, Live)
    <2> DEFINE refs == Top.references_to_targets
               objs == Top.target_objects
    <2>1. Distinct(refs) /\ Distinct(objs)
      BY <1>9 DEF Progress
    <2>2. ASSUME NEW k \in DOMAIN refs
          PROVE  /\ refs[k] \in Places(Live) /\ Load(refs[k]) = Now(refs[k])
                 /\ Now(refs[k]) \in Live /\ RegionContains(Depth, Now(refs[k]))
      BY <1>8, <1>9 DEF Progress, Reached
    <2>3. ASSUME NEW s \in Places(Live),
                 Now(s) \in Live, RegionContains(Depth, Now(s))
          PROVE  \E k \in DOMAIN refs : refs[k] = s
      <3>1. Settled(s) /\ Load(s) # nullptr
        BY <1>2, <1>5, <1>6, <1>8, <2>3, RegionsAssumption
           DEF Addr, START_PTR, nullptr
      <3>2. QED
        BY <1>3, <1>8, <2>3, <3>1 DEF Settled
    <2>4. \A k \in DOMAIN objs : objs[k] \in Live /\ ~WasRelocated(objs[k])
      BY <1>7, <1>9 DEF Progress
    <2>5. \A a \in Live : RegionContains(Depth, a) =>
             \E k \in DOMAIN objs : objs[k] = a
      BY <1>1, <1>6 DEF Complete
    <2>6. QED
      BY <2>1, <2>2, <2>3, <2>4, <2>5 DEF Covers
  <1>11. QED
    BY <1>6, <1>10

\* MoveObjects that cleans the next region first: the stage waits, with what it
\* has collected.
LEMMA CleanupNextDown ==
  ASSUME MarkInv, RequestInv, Down, CleanupNextRegion
  PROVE  Down' /\ InGC' /\ Top'.phase = "mark" /\ status' = "run"
  <1>1. /\ TypeInv /\ InGC /\ status = "run" /\ Marked
        /\ CleanupThis(SetTop([Top EXCEPT !.phase = "fix"]))
    BY DEF CleanupNextRegion, Marked, Marking, MarkInv
  <1>2. ~is_trigger_forbidden
    BY <1>1, InCollection
  <1>3. PICK one : one = [Top EXCEPT !.phase = "fix"]
    OBVIOUS
  <1>4. PICK st : st = SetTop(one)
    OBVIOUS
  <1>5. BeginStage(st)
    BY <1>1, <1>2, <1>3, <1>4 DEF CleanupThis
  <1>6. Top \in Stage /\ InItsRegion(Top, Depth) /\ Depth \in 1 .. SURVIVORS_N
    BY <1>1, TopType DEF TypeInv
  <1>7. /\ one \in Stage
        /\ one.references_to_targets = Top.references_to_targets
        /\ one.target_objects = Top.target_objects
        /\ one.estimating_realloc_size = Top.estimating_realloc_size
    BY <1>3, <1>6 DEF Stage
  <1>8. /\ st \in Seq(Stage) /\ Len(st) = Depth /\ st[Depth] = one
        /\ \A d \in 1 .. Depth - 1 : st[d] = stages_stack[d]
    <2>1. InItsRegion(one, Depth)
      BY <1>6, <1>7 DEF InItsRegion
    <2>2. QED
      BY <1>1, <1>4, <1>7, <2>1, SetTopType DEF TypeInv, StagesOK
  <1>9. ASSUME NEW d \in 1 .. Len(st)
        PROVE  Covers(st[d], d, Live) /\ Estimated(st[d])
    <2>1. CASE d \in 1 .. Depth - 1
      BY <1>8, <2>1 DEF Down, Waits
    <2>2. CASE d = Depth
      <3>1. Covers(Top, Depth, Live) /\ Estimated(Top)
        BY <1>1, MarkingEnds DEF Down, Progress
      <3>2. Covers(one, Depth, Live) /\ Estimated(one)
        BY <1>7, <3>1 DEF Covers, Estimated
      <3>3. QED
        BY <1>8, <2>2, <3>2
    <2>3. QED
      BY <1>6, <1>8, <2>1, <2>2
  <1>10. QED
    BY <1>1, <1>5, <1>8, <1>9, BeginDown DEF Down

----------------------------------------------------------------------------
(* The way up *)

\* MoveObjects, when there is room: nothing has moved yet.
LEMMA StartMovingUp ==
  ASSUME MarkInv, RegionsTiled, Down, StartMoving
  PROVE  /\ InGC' /\ Top'.phase = "move" /\ status' = "run"
         /\ \E M \in SUBSET Addr : UpMove(M)'
  <1>1. /\ TypeInv /\ InGC /\ status = "run" /\ Marked
        /\ RemainingSpace(ToSpace) >= Top.estimating_realloc_size
        /\ stages_stack' = SetTop([Top EXCEPT !.phase = "move"])
        /\ UNCHANGED <<mem, cursor, state_stack, status>>
    BY DEF StartMoving, Marked, Marking, MarkInv
  <1>2. PICK st : st = [Top EXCEPT !.phase = "move"]
    OBVIOUS
  <1>3. /\ Top \in Stage /\ InItsRegion(Top, Depth) /\ Depth \in 1 .. SURVIVORS_N
        /\ ToSpace \in RegionIds
    BY <1>1, TopType DEF TypeInv
  <1>4. /\ st \in Stage /\ st.phase = "move"
        /\ st.references_to_targets = Top.references_to_targets
        /\ st.target_objects = Top.target_objects
        /\ st.estimating_realloc_size = Top.estimating_realloc_size
    BY <1>2, <1>3 DEF Stage
  <1>5. /\ Depth' = Depth /\ st = Top'
        /\ \A d \in 1 .. Depth - 1 : stages_stack'[d] = stages_stack[d]
    BY <1>1, <1>2, <1>3, <1>4, SetTopType DEF TypeInv, InItsRegion, Depth, Top
  <1>6. PICK M : M = Live
    OBVIOUS
  <1>7. /\ M \in SUBSET Addr /\ Closed(M) /\ Covers(Top, Depth, M)
        /\ Waits(M) /\ \A a \in M : Good(a)
    BY <1>1, <1>6, LiveFacts, MarkingEnds DEF Down
  <1>8. /\ \A a : WasRelocated(a)' <=> WasRelocated(a)
        /\ \A a : Good(a)' <=> Good(a)
    BY <1>1 DEF Good, Allocated, CursorPtr, WasRelocated
  <1>9. Moved(M)' = {}
    BY <1>7, <1>8 DEF Moved, Good
  <1>10. Forwarded(M, Depth)'
    BY <1>7, <1>8, <1>9 DEF Forwarded
  <1>11. Leads(M)'
    <2>1. ASSUME NEW s \in Places(M)
          PROVE  Now(s) \in Held(M)
      <3>1. IsRoot(s) \/ s.holder \in M
        BY <1>1, <1>7, PlaceCases
      <3>2. Now(s) = Load(s)
        BY <1>1, <1>7, <3>1, NowIsLoad DEF Good
      <3>3. QED
        BY <1>1, <1>7, <3>2, ClosedPlaces
    <2>2. Places(M)' = Places(M) /\ \A s : Now(s)' = Now(s)
      BY <1>1 DEF Places, RootSlots, SlotsIn, Now, CurrentHolder, WasRelocated
    <2>3. QED
      BY <2>1, <2>2 DEF Leads
  <1>12. Covers(Top, Depth, M)'
    <2>1. PICK tt, d : tt = Top /\ d = Depth
      OBVIOUS
    <2>2. Covers(st, d, M)'
      BY <1>1, <1>4, <1>7, <2>1, CoversSame
    <2>3. QED
      BY <1>5, <2>1, <2>2 DEF Covers
  <1>13. Waits(M)'
    BY <1>1, <1>5, <1>7, WaitsSame
  <1>14. (cursor[ToSpace] + Cardinality(Cells(mem, Top.target_objects))
            <= RegionSize(ToSpace))'
    <2>1. Estimated(Top) /\ Top.estimating_realloc_size \in Nat
      BY <1>3 DEF Down, Progress, Stage
    <2>2. cursor[ToSpace] + Top.estimating_realloc_size <= RegionSize(ToSpace)
      <3>1. cursor[ToSpace] \in Nat /\ RegionSize(ToSpace) \in Nat
        BY <1>1, <1>3, UsedCells
      <3>2. QED
        BY <1>1, <2>1, <3>1 DEF RemainingSpace
    <2>3. QED
      BY <1>1, <1>4, <1>5, <2>1, <2>2 DEF Estimated, ToSpace
  <1>15. UpMove(M)'
    BY <1>10, <1>11, <1>12, <1>13, <1>14 DEF UpMove
  <1>16. QED
    BY <1>1, <1>4, <1>5, <1>7, <1>15 DEF InGC

\* Places, what they hold and what they lead to are the same after a step.
SamePlaces(M) == /\ Places(M)' = Places(M)
                 /\ \A s \in Places(M) : Load(s)' = Load(s) /\ Now(s)' = Now(s)

\* Such a step leaves the recorded places of a stage as they were; its objects
\* are looked at on their own.
LEMMA CoversKeep ==
  ASSUME NEW M, SamePlaces(M), NEW st, NEW d, Covers(st, d, M),
         NEW tt, tt.references_to_targets = st.references_to_targets,
         Distinct(tt.target_objects),
         \A k \in DOMAIN tt.target_objects :
            tt.target_objects[k] \in M /\ ~WasRelocated(tt.target_objects[k])',
         \A a \in M : RegionContains(d, a) /\ ~WasRelocated(a)' =>
            \E k \in DOMAIN tt.target_objects : tt.target_objects[k] = a
  PROVE  Covers(tt, d, M)'
  BY DEF SamePlaces, Covers

\* The objects of a stage, for the sizes that were estimated.
LEMMA StageCollected ==
  ASSUME TypeInv, NEW d \in 1 .. Depth, NEW M \in SUBSET Addr,
         \A a \in M : ~WasRelocated(a) => Good(a),
         Covers(stages_stack[d], d, M)
  PROVE  /\ Collected(d, stages_stack[d].target_objects)
         /\ \A k \in DOMAIN stages_stack[d].target_objects :
              /\ stages_stack[d].target_objects[k] \in M
              /\ RegionContains(d, stages_stack[d].target_objects[k])
         /\ d \in RegionIds /\ d < Tenured
  <1> DEFINE q == stages_stack[d].target_objects
  <1>1. /\ stages_stack[d] \in Stage /\ InItsRegion(stages_stack[d], d)
        /\ Depth \in Nat /\ Depth <= SURVIVORS_N
    BY DEF TypeInv, StagesOK, Depth
  <1>2. q \in Seq(Addr) /\ Distinct(q)
    BY <1>1 DEF Stage, Covers
  <1>3. ASSUME NEW k \in DOMAIN q
        PROVE  q[k] \in M /\ RegionContains(d, q[k]) /\ Header(d, q[k])
    <2>1. q[k] \in M /\ ~WasRelocated(q[k])
      BY DEF Covers
    <2>2. RegionContains(d, q[k])
      BY <1>1 DEF InItsRegion
    <2>3. QED
      BY <2>1, <2>2 DEF Header, Good
  <1>4. d \in RegionIds /\ d < Tenured
    BY <1>1, RegionsAssumption DEF RegionIds, Tenured
  <1> HIDE DEF q
  <1>5. Collected(d, q)
    BY <1>2, <1>3 DEF Collected
  <1>6. QED
    BY <1>3, <1>4, <1>5 DEF q

\* What one round of MoveObjects writes: the copy, and where it is.
MoveWritten(obj, p) ==
  /\ mem'[p] = mem[obj]
  /\ mem'[obj] # NoObj
  /\ mem'[obj].relocated_ptr = p
  /\ mem'[obj].slots = mem[obj].slots
  /\ mem'[obj].allocated_size = mem[obj].allocated_size
  /\ \A a \in Addr : a # obj /\ (Allocated(a) \/ RegionContains(Depth, a)) =>
       mem'[a] = mem[a]

\* It writes nothing else that is in use.
LEMMA MoveFacts ==
  ASSUME TypeInv, InGC, NEW obj \in Addr, Good(obj),
         RegionContains(Depth, obj), NEW p, p = CursorPtr(ToSpace),
         cursor[ToSpace] + mem[obj].allocated_size <= RegionSize(ToSpace),
         cursor' = [cursor EXCEPT ![ToSpace] = @ + mem[obj].allocated_size],
         mem' = [Overwrite(mem, p, mem[obj]) EXCEPT ![obj].relocated_ptr = p]
  PROVE  /\ MoveWritten(obj, p)
         /\ \A a \in Addr : Allocated(a) => Allocated(a)' /\ a # p
         /\ \A a \in Addr : RegionContains(Depth, a) => a # p
         /\ Allocated(p)' /\ RegionContains(ToSpace, p) /\ p \in Addr
  <1> DEFINE n == Overwrite(mem, p, mem[obj])
  <1>1. ToSpace \in RegionIds /\ mem[obj] \in Object
    BY TopType, CellType DEF TypeInv, Good
  <1>2. mem[obj].allocated_size \in Nat \ {0}
    BY <1>1 DEF Object
  <1>3. /\ \A a \in Addr : Allocated(a) => Allocated(a)'
        /\ Allocated(p)' /\ RegionContains(ToSpace, p) /\ p \in Addr
    BY <1>1, <1>2, GrowAllocated
  <1>4. ASSUME NEW a \in Addr, Allocated(a)
        PROVE  n[a] = mem[a] /\ a # p
    BY <1>1, <1>4, OverwriteKeeps
  <1>5. ASSUME NEW a \in Addr, RegionContains(Depth, a)
        PROVE  n[a] = mem[a] /\ a # p
    <2>1. a < StartPtr(ToSpace) /\ a \in Int
      BY <1>5, BelowToSpace DEF Addr
    <2>2. StartPtr(ToSpace) + CURSOR <= p /\ p \in Int /\ StartPtr(ToSpace) \in Int
      BY <1>1, UsedCells
    <2>3. a < p
      BY <2>1, <2>2 DEF CURSOR
    <2>4. QED
      BY <2>1, <2>2, <2>3 DEF Overwrite
  <1>6. n[p] = mem[obj] /\ n \in [Addr -> Object \cup {NoObj}]
    BY <1>1, <1>3, OverwriteType DEF Overwrite, TypeInv, MemOK
  <1>7. n[obj] = mem[obj] /\ obj # p
    BY <1>5
  <1>8. mem' = [n EXCEPT ![obj].relocated_ptr = p]
    OBVIOUS
  <1>9. p # nullptr
    BY <1>3, RegionsAssumption DEF Addr, START_PTR, nullptr
  <1> HIDE DEF n
  <1>10. /\ mem'[obj] = [mem[obj] EXCEPT !.relocated_ptr = p]
         /\ \A a \in Addr : a # obj => mem'[a] = n[a]
    BY <1>6, <1>7, <1>8
  <1>11. /\ mem'[obj].relocated_ptr = p
         /\ mem'[obj].slots = mem[obj].slots
         /\ mem'[obj].allocated_size = mem[obj].allocated_size
    BY <1>1, <1>10 DEF Object
  <1>12. mem'[obj] # NoObj
    BY <1>9, <1>11 DEF NoObj
  <1>13. MoveWritten(obj, p)
    BY <1>3, <1>4, <1>5, <1>6, <1>7, <1>10, <1>11, <1>12 DEF MoveWritten
  <1>14. QED
    BY <1>3, <1>4, <1>5, <1>13

\* The heap after an object was moved: its copy stands for it.
LEMMA MoveForwarded ==
  ASSUME TypeInv, InGC, NEW M \in SUBSET Addr, Forwarded(M, Depth), Leads(M),
         NEW obj \in M, ~WasRelocated(obj), RegionContains(Depth, obj),
         NEW p, MoveWritten(obj, p), p \in Addr, p # nullptr,
         \A a \in Addr : Allocated(a) => Allocated(a)' /\ a # p,
         \A a \in Addr : RegionContains(Depth, a) => a # p,
         Allocated(p)', RegionContains(ToSpace, p),
         UNCHANGED state_stack, Depth' = Depth
  PROVE  /\ SamePlaces(M) /\ Forwarded(M, Depth)' /\ Leads(M)'
         /\ \A a \in M : WasRelocated(a)' <=> (WasRelocated(a) \/ a = obj)
         /\ \A a \in M : mem'[a].allocated_size = mem[a].allocated_size
  <1>1. /\ \A a \in M : ~WasRelocated(a) => Good(a)
        /\ \A a \in Moved(M) :
             /\ RegionContains(Depth, a) /\ RegionContains(Depth + 1, Copy(a))
             /\ Good(Copy(a)) /\ Copy(a) \notin M
             /\ DOMAIN mem[Copy(a)].slots = DOMAIN mem[a].slots
        /\ \A a, b \in Moved(M) : Copy(a) = Copy(b) => a = b
    BY DEF Forwarded
  <1>2. ASSUME NEW a \in M
        PROVE  /\ a # p
               /\ a # obj => mem'[a] = mem[a]
               /\ mem'[a].slots = mem[a].slots
               /\ mem'[a].allocated_size = mem[a].allocated_size
    <2>1. a \in Addr /\ (Allocated(a) \/ RegionContains(Depth, a))
      BY <1>1 DEF Moved, Good
    <2>2. QED
      BY <2>1 DEF MoveWritten
  <1>3. p \notin M
    BY <1>2
  <1>4. ASSUME NEW a \in Moved(M)
        PROVE  /\ Copy(a) \in Addr /\ Copy(a) # p /\ Copy(a) # obj
               /\ mem'[Copy(a)] = mem[Copy(a)]
               /\ a # obj
               /\ mem'[a].relocated_ptr = Copy(a)
    <2>1. a \in M /\ WasRelocated(a)
      BY DEF Moved
    <2>2. Copy(a) \in Addr
      BY <2>1, CellType DEF Copy, WasRelocated, TypeInv, Ptr
    <2>3. Allocated(Copy(a)) /\ Copy(a) \notin M
      BY <1>1 DEF Good
    <2>4. a # obj /\ Copy(a) # obj
      BY <2>1, <2>3
    <2>5. mem'[a].relocated_ptr = Copy(a)
      BY <1>2, <2>1, <2>4 DEF Copy
    <2>6. QED
      BY <2>2, <2>3, <2>4, <2>5 DEF MoveWritten
  <1>5. \A a \in M : WasRelocated(a)' <=> (WasRelocated(a) \/ a = obj)
    BY <1>2 DEF WasRelocated, MoveWritten
  <1>6. Moved(M)' = Moved(M) \cup {obj}
    BY <1>5 DEF Moved
  <1>7. /\ \A a \in Moved(M) : Copy(a)' = Copy(a)
        /\ Copy(obj)' = p
    BY <1>4 DEF Copy, MoveWritten
  <1>8. SamePlaces(M)
    <2>1. Places(M)' = Places(M)
      BY <1>2 DEF Places, RootSlots, SlotsIn
    <2>2. ASSUME NEW s \in Places(M)
          PROVE  Load(s)' = Load(s) /\ Now(s)' = Now(s)
      <3>1. CASE IsRoot(s)
        BY <3>1 DEF Load, Now, IsRoot
      <3>2. CASE ~IsRoot(s)
        <4>1. s.holder \in M
          BY <3>2, PlaceCases
        <4>2. Load(s)' = Load(s)
          BY <1>2, <3>2, <4>1 DEF Load, IsRoot
        <4>3. PICK h : h = s.holder
          OBVIOUS
        <4>4. mem'[CurrentHolder(h)'].slots = mem[CurrentHolder(h)].slots
          <5>1. CASE h = obj
            <6>1. CurrentHolder(h)' = p /\ CurrentHolder(h) = obj
              BY <4>1, <4>3, <5>1 DEF CurrentHolder, WasRelocated, MoveWritten
            <6>2. QED
              BY <6>1 DEF MoveWritten
          <5>2. CASE h # obj /\ ~WasRelocated(h)
            <6>1. CurrentHolder(h)' = h /\ CurrentHolder(h) = h
              BY <1>5, <4>1, <4>3, <5>2 DEF CurrentHolder
            <6>2. QED
              BY <1>2, <4>1, <4>3, <6>1
          <5>3. CASE h # obj /\ WasRelocated(h)
            <6>1. h \in Moved(M)
              BY <4>1, <4>3, <5>3 DEF Moved
            <6>2. CurrentHolder(h)' = Copy(h) /\ CurrentHolder(h) = Copy(h)
              BY <1>4, <1>5, <4>1, <4>3, <5>3, <6>1 DEF CurrentHolder, Copy
            <6>3. QED
              BY <1>4, <6>1, <6>2
          <5>4. QED
            BY <5>1, <5>2, <5>3
        <4>5. Now(s)' = Now(s)
          BY <3>2, <4>3, <4>4 DEF Now, IsRoot
        <4>6. QED
          BY <4>2, <4>5
      <3>3. QED
        BY <3>1, <3>2
    <2>3. QED
      BY <2>1, <2>2 DEF SamePlaces
  <1>9. Leads(M)'
    <2>1. ASSUME NEW s \in Places(M)
          PROVE  (Now(s) \in Held(M) \/ \E b \in Moved(M) : Now(s) = Copy(b))'
      <3>1. Now(s)' = Now(s)
        BY <1>8 DEF SamePlaces
      <3>2. CASE Now(s) \in Held(M)
        BY <3>1, <3>2 DEF Held
      <3>3. CASE \E b \in Moved(M) : Now(s) = Copy(b)
        BY <1>6, <1>7, <3>1, <3>3
      <3>4. QED
        BY <3>2, <3>3 DEF Leads
    <2>2. QED
      BY <1>8, <2>1 DEF Leads, SamePlaces
  <1>10. Forwarded(M, Depth)'
    <2>1. ASSUME NEW a \in M, ~WasRelocated(a)'
          PROVE  Good(a)'
      <3>1. Good(a) /\ mem'[a] = mem[a]
        BY <1>1, <1>2, <1>5, <2>1
      <3>2. QED
        BY <2>1, <3>1 DEF Good
    <2>2. ASSUME NEW a \in Moved(M)
          PROVE  /\ RegionContains(Depth', a) /\ RegionContains(Depth' + 1, Copy(a)')
                 /\ Good(Copy(a))' /\ Copy(a)' \notin M
                 /\ DOMAIN mem'[Copy(a)'].slots = DOMAIN mem'[a].slots
      <3>1. PICK c : c = Copy(a)
        OBVIOUS
      <3>2. c = Copy(a)' /\ c \in Addr /\ mem'[c] = mem[c] /\ a \in M
        BY <1>4, <1>7, <3>1 DEF Moved
      <3>3. Good(c)'
        <4>1. Good(c)
          BY <1>1, <3>1
        <4>2. QED
          BY <3>2, <4>1 DEF Good, WasRelocated
      <3>4. Good(Copy(a))'
        BY <3>2, <3>3 DEF Good, Allocated, WasRelocated
      <3>5. DOMAIN mem'[c].slots = DOMAIN mem'[a].slots
        BY <1>1, <1>2, <3>1, <3>2
      <3>6. QED
        BY <1>1, <3>1, <3>2, <3>4, <3>5
    <2>3. /\ RegionContains(Depth', obj) /\ RegionContains(Depth' + 1, Copy(obj)')
          /\ Good(Copy(obj))' /\ Copy(obj)' \notin M
          /\ DOMAIN mem'[Copy(obj)'].slots = DOMAIN mem'[obj].slots
      <3>1. Good(p)'
        <4>1. mem'[p] = mem[obj] /\ mem[obj] # NoObj /\ ~WasRelocated(obj)
          BY <1>1 DEF MoveWritten, Good
        <4>2. QED
          BY <4>1 DEF Good, WasRelocated
      <3>2. Good(Copy(obj))'
        BY <1>7, <3>1 DEF Good, Allocated, WasRelocated
      <3>3. DOMAIN mem'[p].slots = DOMAIN mem'[obj].slots
        BY DEF MoveWritten
      <3>4. QED
        BY <1>3, <1>7, <3>2, <3>3 DEF ToSpace
    <2>4. ASSUME NEW a \in Moved(M)', NEW b \in Moved(M)', Copy(a)' = Copy(b)'
          PROVE  a = b
      BY <1>1, <1>4, <1>6, <1>7, <2>4
    <2>5. \A a \in Moved(M)' :
             /\ RegionContains(Depth', a) /\ RegionContains(Depth' + 1, Copy(a)')
             /\ Good(Copy(a))' /\ Copy(a)' \notin M
             /\ DOMAIN mem'[Copy(a)'].slots = DOMAIN mem'[a].slots
      BY <1>6, <2>2, <2>3
    <2>6. QED
      BY <2>1, <2>4, <2>5 DEF Forwarded
  <1>11. QED
    BY <1>2, <1>5, <1>8, <1>9, <1>10

\* A round of MoveObjects finds its object in place and the room for it.
LEMMA MoveChecked ==
  ASSUME TypeInv, RegionsTiled, NEW M \in SUBSET Addr, UpMove(M), MoveObject,
         NEW obj, obj = Last(Top.target_objects),
         NEW p, p = CursorPtr(ToSpace)
  PROVE  /\ obj \in M /\ ~WasRelocated(obj) /\ Good(obj)
         /\ RegionContains(Depth, obj)
         /\ MoveWritten(obj, p)
         /\ \A a \in Addr : Allocated(a) => Allocated(a)' /\ a # p
         /\ \A a \in Addr : RegionContains(Depth, a) => a # p
         /\ Allocated(p)' /\ RegionContains(ToSpace, p) /\ p \in Addr
         /\ cursor' = [cursor EXCEPT ![ToSpace] = @ + mem[obj].allocated_size]
         /\ stages_stack' =
              SetTop([Top EXCEPT !.target_objects = Front(@)])
         /\ UNCHANGED <<state_stack, status>>
  <1>a. PICK q : q = Top.target_objects
    OBVIOUS
  <1>b. obj = Last(q)
    BY <1>a
  <1>1. /\ InGC /\ status = "run" /\ Top.phase = "move" /\ q # <<>>
    BY <1>a DEF MoveObject, Moving
  <1>2. /\ Depth \in 1 .. SURVIVORS_N /\ Top \in Stage
        /\ InItsRegion(Top, Depth) /\ ToSpace \in RegionIds
    BY <1>1, TopType DEF TypeInv
  <1>3. /\ Forwarded(M, Depth) /\ Leads(M) /\ Covers(Top, Depth, M)
        /\ Waits(M)
        /\ cursor[ToSpace] + Cardinality(Cells(mem, q)) <= RegionSize(ToSpace)
        /\ \A a \in M : ~WasRelocated(a) => Good(a)
    BY <1>a DEF UpMove, Forwarded
  <1>4. /\ Collected(Depth, q) /\ Depth \in RegionIds
        /\ \A k \in DOMAIN q : q[k] \in M /\ RegionContains(Depth, q[k])
    <2>1. Depth \in 1 .. Depth /\ stages_stack[Depth] = Top
      BY <1>2 DEF Top
    <2>2. QED
      BY <1>a, <1>3, <2>1, StageCollected
  <1>5. /\ Collected(Depth, Front(q))
        /\ \A k \in DOMAIN Front(q) : Front(q)[k] # obj
        /\ \A k \in DOMAIN q :
             q[k] = obj \/ \E j \in DOMAIN Front(q) : Front(q)[j] = q[k]
        /\ \A j \in DOMAIN Front(q) : \E k \in DOMAIN q : Front(q)[j] = q[k]
        /\ Cardinality(Cells(mem, q))
             = Cardinality(Cells(mem, Front(q))) + mem[obj].allocated_size
    BY <1>b, <1>1, <1>4, CellsFront
  <1>6. \E k \in DOMAIN q : obj = q[k]
    <2>1. q \in Seq(Addr)
      BY <1>4 DEF Collected
    <2>2. QED
      BY <1>b, <1>1, <2>1 DEF Last
  <1>7. /\ obj \in M /\ obj \in Addr /\ ~WasRelocated(obj) /\ Good(obj)
        /\ RegionContains(Depth, obj)
    BY <1>a, <1>3, <1>4, <1>6 DEF Covers
  <1>8. /\ cursor[ToSpace] + mem[obj].allocated_size
             + Cardinality(Cells(mem, Front(q))) <= RegionSize(ToSpace)
        /\ cursor[ToSpace] + mem[obj].allocated_size <= RegionSize(ToSpace)
        /\ mem[obj].allocated_size \in Nat /\ cursor[ToSpace] \in Nat
        /\ RegionSize(ToSpace) \in Nat
        /\ Cardinality(Cells(mem, Front(q))) \in Nat
    <2>1. Cardinality(Cells(mem, Front(q))) \in Nat
      BY <1>4, <1>5, CellsFit
    <2>2. mem[obj].allocated_size \in Nat
      BY <1>7, CellType DEF TypeInv
    <2>3. cursor[ToSpace] \in Nat /\ RegionSize(ToSpace) \in Nat
      BY <1>2, UsedCells
    <2>4. QED
      BY <1>3, <1>5, <2>1, <2>2, <2>3
  <1>9. /\ cursor' = [cursor EXCEPT ![ToSpace] = @ + mem[obj].allocated_size]
        /\ mem' = [Overwrite(mem, p, mem[obj]) EXCEPT ![obj].relocated_ptr = p]
        /\ stages_stack' =
             SetTop([Top EXCEPT !.target_objects = Front(@)])
        /\ UNCHANGED <<state_stack, status>>
    <2>1. mem[obj] # NoObj /\ ~WasRelocated(obj)
      BY <1>7 DEF Good
    <2>2. ~(cursor[ToSpace] + mem[obj].allocated_size > RegionSize(ToSpace))
      BY <1>8
    <2>3. QED
      BY <1>a, <1>b, <2>1, <2>2 DEF MoveObject
  <1>10. /\ MoveWritten(obj, p)
         /\ \A a \in Addr : Allocated(a) => Allocated(a)' /\ a # p
         /\ \A a \in Addr : RegionContains(Depth, a) => a # p
         /\ Allocated(p)' /\ RegionContains(ToSpace, p) /\ p \in Addr
    BY <1>1, <1>7, <1>8, <1>9, MoveFacts
  <1>11. QED
    BY <1>7, <1>9, <1>10

\* It leaves the stage one object fewer to move.
LEMMA MoveObjectUp ==
  ASSUME TypeInv, RegionsTiled, NEW M \in SUBSET Addr, UpMove(M), MoveObject
  PROVE  InGC' /\ Top'.phase = "move" /\ status' = "run" /\ UpMove(M)'
  <1>a. PICK q : q = Top.target_objects
    OBVIOUS
  <1>b. PICK obj : obj = Last(q)
    OBVIOUS
  <1>c. PICK p : p = CursorPtr(ToSpace)
    OBVIOUS
  <1>d. PICK st : st = [Top EXCEPT !.target_objects = Front(@)]
    OBVIOUS
  <1>1. /\ InGC /\ status = "run" /\ Top.phase = "move" /\ q # <<>>
    BY <1>a DEF MoveObject, Moving
  <1>2. /\ Depth \in 1 .. SURVIVORS_N /\ Top \in Stage
        /\ InItsRegion(Top, Depth) /\ ToSpace \in RegionIds
    BY <1>1, TopType DEF TypeInv
  <1>3. /\ Forwarded(M, Depth) /\ Leads(M) /\ Covers(Top, Depth, M)
        /\ Waits(M)
        /\ cursor[ToSpace] + Cardinality(Cells(mem, q)) <= RegionSize(ToSpace)
        /\ \A a \in M : ~WasRelocated(a) => Good(a)
    BY <1>a DEF UpMove, Forwarded
  <1>4. /\ Collected(Depth, q) /\ Depth \in RegionIds
        /\ \A k \in DOMAIN q : q[k] \in M /\ RegionContains(Depth, q[k])
    <2>1. Depth \in 1 .. Depth /\ stages_stack[Depth] = Top
      BY <1>2 DEF Top
    <2>2. QED
      BY <1>a, <1>3, <2>1, StageCollected
  <1>5. /\ Collected(Depth, Front(q))
        /\ \A k \in DOMAIN Front(q) : Front(q)[k] # obj
        /\ \A k \in DOMAIN q :
             q[k] = obj \/ \E j \in DOMAIN Front(q) : Front(q)[j] = q[k]
        /\ \A j \in DOMAIN Front(q) : \E k \in DOMAIN q : Front(q)[j] = q[k]
        /\ Cardinality(Cells(mem, q))
             = Cardinality(Cells(mem, Front(q))) + mem[obj].allocated_size
    BY <1>b, <1>1, <1>4, CellsFront
  <1>6. /\ obj \in M /\ obj \in Addr /\ ~WasRelocated(obj) /\ Good(obj)
        /\ RegionContains(Depth, obj)
    BY <1>a, <1>b, <1>c, MoveChecked
  <1>7. /\ cursor[ToSpace] + mem[obj].allocated_size
             + Cardinality(Cells(mem, Front(q))) <= RegionSize(ToSpace)
        /\ cursor[ToSpace] + mem[obj].allocated_size <= RegionSize(ToSpace)
        /\ mem[obj].allocated_size \in Nat /\ cursor[ToSpace] \in Nat
        /\ RegionSize(ToSpace) \in Nat
        /\ Cardinality(Cells(mem, Front(q))) \in Nat
    <2>1. Cardinality(Cells(mem, Front(q))) \in Nat
      BY <1>4, <1>5, CellsFit
    <2>2. mem[obj].allocated_size \in Nat
      BY <1>6, CellType DEF TypeInv
    <2>3. cursor[ToSpace] \in Nat /\ RegionSize(ToSpace) \in Nat
      BY <1>2, UsedCells
    <2>4. QED
      BY <1>3, <1>5, <2>1, <2>2, <2>3
  <1>8. /\ cursor' = [cursor EXCEPT ![ToSpace] = @ + mem[obj].allocated_size]
        /\ stages_stack' = SetTop(st)
        /\ UNCHANGED <<state_stack, status>>
    BY <1>a, <1>b, <1>c, <1>d, MoveChecked
  <1>9. /\ st \in Stage /\ InItsRegion(st, Depth) /\ st.phase = "move"
         /\ st.target_objects = Front(q)
         /\ st.references_to_targets = Top.references_to_targets
    <2>1. /\ st.target_objects = Front(q)
          /\ st.references_to_targets = Top.references_to_targets
          /\ st.phase = "move"
      BY <1>a, <1>d, <1>1, <1>2 DEF Stage
    <2>2. Front(q) \in Seq(Addr)
      BY <1>5 DEF Collected
    <2>3. st \in Stage
      BY <1>a, <1>d, <1>2, <2>2 DEF Stage
    <2>4. InItsRegion(st, Depth)
      BY <1>4, <1>5, <2>1 DEF InItsRegion
    <2>5. QED
      BY <2>1, <2>3, <2>4
  <1>10. /\ Depth' = Depth /\ Top' = st
         /\ \A d \in 1 .. Depth - 1 : stages_stack'[d] = stages_stack[d]
    BY <1>1, <1>8, <1>9, SetTopType DEF TypeInv, Depth, Top
  <1>11. /\ MoveWritten(obj, p)
         /\ \A a \in Addr : Allocated(a) => Allocated(a)' /\ a # p
         /\ \A a \in Addr : RegionContains(Depth, a) => a # p
         /\ Allocated(p)' /\ RegionContains(ToSpace, p) /\ p \in Addr
    BY <1>a, <1>b, <1>c, MoveChecked
  <1>12. p # nullptr
    BY <1>11, RegionsAssumption DEF Addr, START_PTR, nullptr
  <1>13. /\ SamePlaces(M) /\ Forwarded(M, Depth)' /\ Leads(M)'
         /\ \A a \in M : WasRelocated(a)' <=> (WasRelocated(a) \/ a = obj)
         /\ \A a \in M : mem'[a].allocated_size = mem[a].allocated_size
    BY <1>1, <1>3, <1>6, <1>8, <1>10, <1>11, <1>12, MoveForwarded
  <1>14. Covers(Top, Depth, M)'
    <2>1. PICK d : d = Depth
      OBVIOUS
    <2>2. PICK tt : tt = Top
      OBVIOUS
    <2>3. Distinct(st.target_objects)
      BY <1>5, <1>9 DEF Collected
    <2>4. \A k \in DOMAIN st.target_objects :
            st.target_objects[k] \in M /\ ~WasRelocated(st.target_objects[k])'
      <3>1. ASSUME NEW k \in DOMAIN Front(q)
            PROVE  Front(q)[k] \in M /\ ~WasRelocated(Front(q)[k])'
        <4>1. PICK a : a = Front(q)[k]
          OBVIOUS
        <4>2. a \in M /\ ~WasRelocated(a) /\ a # obj
          BY <1>a, <1>3, <1>5, <4>1 DEF Covers
        <4>3. ~WasRelocated(a)'
          BY <1>13, <4>2
        <4>4. QED
          BY <4>1, <4>2, <4>3 DEF WasRelocated
      <3>2. QED
        BY <1>9, <3>1
    <2>5. \A a \in M : RegionContains(d, a) /\ ~WasRelocated(a)' =>
            \E k \in DOMAIN st.target_objects : st.target_objects[k] = a
      <3>1. ASSUME NEW a \in M, RegionContains(d, a), ~WasRelocated(a)'
            PROVE  \E k \in DOMAIN Front(q) : Front(q)[k] = a
        <4>1. ~WasRelocated(a) /\ a # obj
          BY <1>13, <3>1
        <4>2. PICK k \in DOMAIN q : q[k] = a
          BY <1>a, <1>3, <2>1, <3>1, <4>1 DEF Covers
        <4>3. QED
          BY <1>5, <4>1, <4>2
      <3>2. QED
        BY <1>9, <3>1
    <2>6. Covers(tt, d, M) /\ st.references_to_targets = tt.references_to_targets
      BY <1>3, <1>9, <2>1, <2>2
    <2>7. Covers(st, d, M)'
      BY <1>13, <2>3, <2>4, <2>5, <2>6, CoversKeep
    <2>8. st = Top' /\ d = Depth'
      BY <1>10, <2>1
    <2>9. QED
      BY <2>7, <2>8 DEF Covers
  <1>15. Waits(M)'
    <2>1. ASSUME NEW d \in 1 .. Depth - 1
          PROVE  (Covers(stages_stack[d], d, M) /\ Estimated(stages_stack[d]))'
      <3>1. PICK tt : tt = stages_stack[d]
        OBVIOUS
      <3>2. /\ Covers(tt, d, M) /\ Estimated(tt)
            /\ d \in 1 .. Depth /\ d # Depth
        BY <1>2, <1>3, <3>1 DEF Waits
      <3>3. /\ Collected(d, tt.target_objects) /\ d \in RegionIds
            /\ \A k \in DOMAIN tt.target_objects :
                 /\ tt.target_objects[k] \in M
                 /\ RegionContains(d, tt.target_objects[k])
        BY <1>3, <3>1, <3>2, StageCollected
      <3>4. ~RegionContains(d, obj)
        BY <1>4, <1>6, <3>2, <3>3, OneRegion DEF Addr
      <3>5. \A a \in M : RegionContains(d, a) =>
               (WasRelocated(a)' <=> WasRelocated(a))
        BY <1>13, <3>4
      <3>6. \A k \in DOMAIN tt.target_objects :
              /\ tt.target_objects[k] \in M
              /\ ~WasRelocated(tt.target_objects[k])'
        <4>1. ASSUME NEW k \in DOMAIN tt.target_objects
              PROVE  ~WasRelocated(tt.target_objects[k])'
          <5>1. PICK a : a = tt.target_objects[k]
            OBVIOUS
          <5>2. a \in M /\ RegionContains(d, a) /\ ~WasRelocated(a)
            BY <3>2, <3>3, <5>1 DEF Covers
          <5>3. ~WasRelocated(a)'
            BY <3>5, <5>2
          <5>4. QED
            BY <5>1, <5>3 DEF WasRelocated
        <4>2. QED
          BY <3>3, <4>1
      <3>7. \A a \in M : RegionContains(d, a) /\ ~WasRelocated(a)' =>
              \E k \in DOMAIN tt.target_objects : tt.target_objects[k] = a
        BY <3>2, <3>5 DEF Covers
      <3>8. Covers(tt, d, M)'
        <4>1. Distinct(tt.target_objects)
          BY <3>2 DEF Covers
        <4>2. QED
          BY <1>13, <3>2, <3>6, <3>7, <4>1, CoversKeep
      <3>9. Estimated(tt)'
        <4>1. Cells(mem', tt.target_objects) = Cells(mem, tt.target_objects)
          BY <1>13, <3>3, CellsSame
        <4>2. QED
          BY <3>2, <4>1 DEF Estimated
      <3>10. tt = stages_stack'[d]
        BY <1>10, <3>1
      <3>11. QED
        BY <3>8, <3>9, <3>10 DEF Covers, Estimated
    <2>2. QED
      BY <1>10, <2>1 DEF Waits
  <1>16. (cursor[ToSpace] + Cardinality(Cells(mem, Top.target_objects))
            <= RegionSize(ToSpace))'
    <2>1. Cells(mem', Front(q)) = Cells(mem, Front(q))
      <3>1. \A k \in DOMAIN Front(q) : Front(q)[k] \in M
        BY <1>4, <1>5
      <3>2. QED
        BY <1>13, <3>1, CellsSame
    <2>2. cursor'[ToSpace] = cursor[ToSpace] + mem[obj].allocated_size
      BY <1>2, <1>8 DEF TypeInv, CursorOK
    <2>3. ToSpace' = ToSpace /\ Top'.target_objects = Front(q)
      BY <1>9, <1>10 DEF ToSpace
    <2>4. cursor'[ToSpace] + Cardinality(Cells(mem, Front(q)))
             <= RegionSize(ToSpace)
      BY <1>7, <2>2
    <2>5. QED
      BY <2>1, <2>3, <2>4
  <1>17. UpMove(M)'
    BY <1>10, <1>13, <1>14, <1>15, <1>16 DEF UpMove
  <1>18. QED
    BY <1>1, <1>8, <1>9, <1>10, <1>17 DEF InGC

\* Where an object of M is now: its own place, or a copy that is no object of M
\* and no other's copy.
LEMMA CurrentFacts ==
  ASSUME TypeInv, NEW M \in SUBSET Addr, NEW R, Forwarded(M, R), NEW h \in M
  PROVE  /\ CurrentHolder(h) \in Addr /\ Good(CurrentHolder(h))
         /\ DOMAIN mem[CurrentHolder(h)].slots = DOMAIN mem[h].slots
         /\ CurrentHolder(h) \in M => CurrentHolder(h) = h
         /\ \A b \in M : CurrentHolder(b) = CurrentHolder(h) => b = h
         /\ \A b \in Moved(M) : CurrentHolder(b) = Copy(b) /\ Copy(b) \in Addr
         /\ h \notin Moved(M) => CurrentHolder(h) = h
  <1>1. /\ \A a \in M : ~WasRelocated(a) => Good(a)
        /\ \A a \in Moved(M) :
             /\ Good(Copy(a)) /\ Copy(a) \notin M
             /\ DOMAIN mem[Copy(a)].slots = DOMAIN mem[a].slots
        /\ \A a, b \in Moved(M) : Copy(a) = Copy(b) => a = b
    BY DEF Forwarded
  <1>2. \A b \in M : /\ b \in Moved(M) => CurrentHolder(b) = Copy(b)
                     /\ b \notin Moved(M) => CurrentHolder(b) = b
                     /\ b \notin Moved(M) => ~WasRelocated(b)
    BY DEF Moved, CurrentHolder, Copy
  <1>3. ASSUME NEW b \in Moved(M)
        PROVE  Copy(b) \in Addr /\ b \in M
    <2>1. b \in M /\ b \in Addr /\ mem[b].relocated_ptr # nullptr
      BY DEF Moved, WasRelocated
    <2>2. QED
      BY <2>1, CellType DEF Copy, TypeInv, Ptr
  <1>4. CASE h \in Moved(M)
    BY <1>1, <1>2, <1>3, <1>4
  <1>5. CASE h \notin Moved(M)
    <2>1. CurrentHolder(h) = h /\ Good(h)
      BY <1>1, <1>2, <1>5
    <2>2. \A b \in M : CurrentHolder(b) = h => b = h
      BY <1>1, <1>2
    <2>3. Good(CurrentHolder(h))
      BY <2>1
    <2>4. QED
      BY <1>2, <1>3, <1>5, <2>1, <2>2, <2>3
  <1>6. QED
    BY <1>4, <1>5

\* A step that writes registers leaves the headers alone.
SameHeads ==
  \A a \in Addr : /\ mem'[a] = NoObj <=> mem[a] = NoObj
                  /\ mem'[a].allocated_size = mem[a].allocated_size
                  /\ mem'[a].relocated_ptr = mem[a].relocated_ptr
                  /\ DOMAIN mem'[a].slots = DOMAIN mem[a].slots

\* Of the places of M, s alone leads elsewhere after the step: to p.
Rebound(M, s, p) ==
  /\ Places(M)' = Places(M)
  /\ \A u \in Places(M) : u # s => Load(u)' = Load(u) /\ Now(u)' = Now(u)
  /\ Now(s)' = p
  /\ SameHeads

\* DanglingReference::Fix of a root.
LEMMA RootRebound ==
  ASSUME TypeInv, NEW M \in SUBSET Addr, NEW s \in Places(M), IsRoot(s), NEW p,
         state_stack' = [state_stack EXCEPT ![s.frame][s.idx] = p], mem' = mem
  PROVE  Rebound(M, s, p)
  <1>1. /\ s.frame \in DOMAIN state_stack /\ s.idx \in RootIdx
        /\ s = RootSlot(s.frame, s.idx)
    BY PlaceCases
  <1>2. /\ DOMAIN state_stack' = DOMAIN state_stack
        /\ \A f \in DOMAIN state_stack : DOMAIN state_stack[f] = RootIdx
    BY DEF TypeInv, FramesOK, Frame
  <1>3. ASSUME NEW f \in DOMAIN state_stack, NEW i \in RootIdx
        PROVE  state_stack'[f][i] = IF f = s.frame /\ i = s.idx THEN p
                                    ELSE state_stack[f][i]
    BY <1>1, <1>2
  <1>4. Places(M)' = Places(M)
    BY <1>2 DEF Places, RootSlots, SlotsIn
  <1>5. Now(s)' = p
    BY <1>1, <1>3 DEF Now, IsRoot
  <1>6. ASSUME NEW u \in Places(M), u # s
        PROVE  Load(u)' = Load(u) /\ Now(u)' = Now(u)
    <2>1. CASE IsRoot(u)
      <3>1. /\ u.frame \in DOMAIN state_stack /\ u.idx \in RootIdx
            /\ u = RootSlot(u.frame, u.idx)
        BY <2>1, PlaceCases
      <3>2. ~(u.frame = s.frame /\ u.idx = s.idx)
        BY <1>1, <1>6, <3>1
      <3>3. state_stack'[u.frame][u.idx] = state_stack[u.frame][u.idx]
        BY <1>3, <3>1, <3>2
      <3>4. QED
        BY <2>1, <3>3 DEF Load, Now, IsRoot
    <2>2. CASE ~IsRoot(u)
      BY <2>2 DEF Load, Now, IsRoot, CurrentHolder, WasRelocated
    <2>3. QED
      BY <2>1, <2>2
  <1>7. QED
    BY <1>4, <1>5, <1>6 DEF Rebound, SameHeads

\* DanglingReference::Fix of a register: it is written where its holder is now.
LEMMA SlotRebound ==
  ASSUME TypeInv, NEW M \in SUBSET Addr, NEW R, Forwarded(M, R),
         NEW s \in Places(M), ~IsRoot(s), NEW p,
         mem' = [mem EXCEPT ![CurrentHolder(s.holder)].slots[s.idx] = p],
         state_stack' = state_stack
  PROVE  Rebound(M, s, p)
  <1>a. PICK h : h = s.holder
    OBVIOUS
  <1>b. PICK c : c = CurrentHolder(h)
    OBVIOUS
  <1>c. PICK i : i = s.idx
    OBVIOUS
  <1>d. PICK n : n = mem'
    OBVIOUS
  <1>1. h \in M /\ i \in DOMAIN mem[h].slots /\ s = HeapSlot(h, i)
    BY <1>a, <1>c, PlaceCases
  <1>2. /\ c \in Addr /\ DOMAIN mem[c].slots = DOMAIN mem[h].slots
        /\ c \in M => c = h
        /\ \A b \in M : CurrentHolder(b) = c => b = h
    BY <1>b, <1>1, CurrentFacts
  <1>3. SlotWritten(mem, n, c, i, p)
    <2>1. n = [mem EXCEPT ![c].slots[i] = p] /\ MemOK(mem)
      BY <1>a, <1>b, <1>c, <1>d DEF TypeInv
    <2>2. QED
      BY <2>1, SlotWriteFacts
  <1>4. SameHeads
    BY <1>3, <1>d DEF SameHeads, SlotWritten
  <1>5. ASSUME NEW x \in Addr, NEW j \in DOMAIN mem[x].slots
        PROVE  mem'[x].slots[j] = IF x = c /\ j = i THEN p ELSE mem[x].slots[j]
    BY <1>3, <1>d DEF SlotWritten
  <1>6. Places(M)' = Places(M)
    BY <1>4 DEF SameHeads, Places, RootSlots, SlotsIn
  <1>7. \A b \in Addr : CurrentHolder(b)' = CurrentHolder(b)
    BY <1>4 DEF SameHeads, CurrentHolder, WasRelocated
  <1>8. Now(s)' = p
    <2>1. CurrentHolder(h)' = c
      BY <1>b, <1>1, <1>7
    <2>2. mem'[c].slots[i] = p
      BY <1>1, <1>2, <1>5
    <2>3. QED
      BY <1>a, <1>c, <2>1, <2>2 DEF Now, IsRoot
  <1>9. ASSUME NEW u \in Places(M), u # s
        PROVE  Load(u)' = Load(u) /\ Now(u)' = Now(u)
    <2>1. CASE IsRoot(u)
      BY <2>1 DEF Load, Now, IsRoot
    <2>2. CASE ~IsRoot(u)
      <3>a. PICK b : b = u.holder
        OBVIOUS
      <3>b. PICK j : j = u.idx
        OBVIOUS
      <3>1. b \in M /\ j \in DOMAIN mem[b].slots /\ u = HeapSlot(b, j)
        BY <2>2, <3>a, <3>b, PlaceCases
      <3>2. b # h \/ j # i
        BY <1>1, <1>9, <3>1
      <3>3. mem'[b].slots[j] = mem[b].slots[j]
        <4>1. ~(b = c /\ j = i)
          BY <1>2, <3>1, <3>2
        <4>2. QED
          BY <1>5, <3>1, <4>1
      <3>4. PICK e : e = CurrentHolder(b)
        OBVIOUS
      <3>5. mem'[e].slots[j] = mem[e].slots[j]
        <4>1. e \in Addr /\ j \in DOMAIN mem[e].slots
          BY <3>1, <3>4, CurrentFacts
        <4>2. ~(e = c /\ j = i)
          BY <1>2, <3>1, <3>2, <3>4
        <4>3. QED
          BY <1>5, <4>1, <4>2
      <3>6. CurrentHolder(b)' = e
        BY <1>7, <3>1, <3>4
      <3>7. Load(u)' = Load(u)
        BY <2>2, <3>a, <3>b, <3>3 DEF Load, IsRoot
      <3>8. Now(u)' = Now(u)
        BY <2>2, <3>a, <3>b, <3>4, <3>5, <3>6 DEF Now, IsRoot
      <3>9. QED
        BY <3>7, <3>8
    <2>3. QED
      BY <2>1, <2>2
  <1>10. QED
    BY <1>4, <1>6, <1>8, <1>9 DEF Rebound

\* The references qs are those of rs but for the place s, each once.
AllBut(qs, rs, s) ==
  /\ Distinct(qs)
  /\ \A k \in DOMAIN qs : /\ qs[k] # s
                          /\ \E j \in DOMAIN rs : rs[j] = qs[k]
  /\ \A j \in DOMAIN rs : rs[j] = s \/ \E k \in DOMAIN qs : qs[k] = rs[j]

\* What a stage has recorded, but for the place that was rebound.
LEMMA ReboundCovers ==
  ASSUME NEW M \in SUBSET Addr, NEW s, NEW p, Rebound(M, s, p), p \notin M,
         NEW st, NEW d, Covers(st, d, M), NEW tt,
         tt.target_objects = st.target_objects,
         AllBut(tt.references_to_targets, st.references_to_targets, s)
  PROVE  Covers(tt, d, M)'
  <1> DEFINE refs == tt.references_to_targets
             objs == tt.target_objects
  <1>1. ASSUME NEW k \in DOMAIN refs
        PROVE  (/\ refs[k] \in Places(M) /\ Load(refs[k]) = Now(refs[k])
                /\ Now(refs[k]) \in M /\ RegionContains(d, Now(refs[k])))'
    <2>1. PICK u : u = refs[k]
      OBVIOUS
    <2>2. /\ u \in Places(M) /\ Load(u) = Now(u) /\ u # s
          /\ Now(u) \in M /\ RegionContains(d, Now(u))
      BY <2>1 DEF Covers, AllBut
    <2>3. /\ u \in Places(M)' /\ Load(u)' = Now(u)'
          /\ Now(u)' \in M /\ RegionContains(d, Now(u)')
      BY <2>2 DEF Rebound
    <2>4. Load(refs[k])' = Load(u)' /\ Now(refs[k])' = Now(u)'
      BY <2>1 DEF Load, Now, IsRoot
    <2> HIDE DEF refs
    <2>5. QED
      BY <2>1, <2>3, <2>4
  <1>2. ASSUME NEW u \in Places(M)', Now(u)' \in M, RegionContains(d, Now(u)')
        PROVE  \E k \in DOMAIN refs : refs[k] = u
    <2>1. u # s /\ u \in Places(M) /\ Now(u)' = Now(u)
      BY <1>2 DEF Rebound
    <2>2. PICK j \in DOMAIN st.references_to_targets :
             st.references_to_targets[j] = u
      BY <1>2, <2>1 DEF Covers
    <2>3. QED
      BY <2>1, <2>2 DEF AllBut
  <1>3. \A a \in M : WasRelocated(a)' <=> WasRelocated(a)
    BY DEF Rebound, SameHeads, WasRelocated
  <1>4. ASSUME NEW k \in DOMAIN objs
        PROVE  objs[k] \in M /\ ~WasRelocated(objs[k])'
    <2>1. PICK a : a = objs[k]
      OBVIOUS
    <2>2. a \in M /\ ~WasRelocated(a)
      BY <2>1 DEF Covers
    <2>3. ~WasRelocated(a)'
      BY <1>3, <2>2
    <2>4. QED
      BY <2>1, <2>2, <2>3 DEF WasRelocated
  <1>5. ASSUME NEW a \in M, RegionContains(d, a), ~WasRelocated(a)'
        PROVE  \E k \in DOMAIN objs : objs[k] = a
    BY <1>3, <1>5 DEF Covers
  <1>6. Distinct(objs)
    BY DEF Covers
  <1>7. QED
    BY <1>1, <1>2, <1>4, <1>5, <1>6 DEF AllBut, Covers

\* Headers tell what has moved and where, and which objects are in place.
LEMMA SameHeadsForwarded ==
  ASSUME NEW M \in SUBSET Addr, TypeInv, SameHeads, UNCHANGED cursor,
         NEW R, Forwarded(M, R)
  PROVE  /\ Forwarded(M, R)' /\ Moved(M)' = Moved(M)
         /\ \A a \in M : Copy(a)' = Copy(a)
  <1>1. /\ \A a \in Addr : WasRelocated(a)' <=> WasRelocated(a)
        /\ \A a \in Addr : Copy(a)' = Copy(a)
    BY DEF SameHeads, WasRelocated, Copy
  <1>2. ASSUME NEW a \in Addr, Good(a)
        PROVE  Good(a)'
    BY <1>1, <1>2 DEF Good, Allocated, CursorPtr, SameHeads
  <1>3. Moved(M)' = Moved(M)
    BY <1>1 DEF Moved
  <1>4. ASSUME NEW a \in M, ~WasRelocated(a)'
        PROVE  Good(a)'
    BY <1>1, <1>2, <1>4 DEF Forwarded
  <1>5. ASSUME NEW a \in Moved(M)
        PROVE  (/\ RegionContains(R, a) /\ RegionContains(R + 1, Copy(a))
                /\ Good(Copy(a)) /\ Copy(a) \notin M
                /\ DOMAIN mem[Copy(a)].slots = DOMAIN mem[a].slots)'
    <2>1. PICK c : c = Copy(a)
      OBVIOUS
    <2>2. a \in M /\ c \in Addr
      BY <2>1, CurrentFacts DEF Moved
    <2>3. /\ RegionContains(R, a) /\ RegionContains(R + 1, c)
          /\ Good(c) /\ c \notin M
          /\ DOMAIN mem[c].slots = DOMAIN mem[a].slots
      BY <2>1 DEF Forwarded
    <2>4. Copy(a)' = c /\ Good(c)' /\ DOMAIN mem'[c].slots = DOMAIN mem'[a].slots
      BY <1>1, <1>2, <2>1, <2>2, <2>3 DEF SameHeads
    <2>5. Good(Copy(a))'
      BY <2>4 DEF Good, Allocated, WasRelocated
    <2>6. QED
      BY <2>3, <2>4, <2>5
  <1>6. \A a, b \in Moved(M) : Copy(a)' = Copy(b)' => a = b
    BY <1>1 DEF Forwarded, Moved
  <1>7. Forwarded(M, R)'
    BY <1>3, <1>4, <1>5, <1>6 DEF Forwarded
  <1>8. QED
    BY <1>1, <1>3, <1>7

\* What the last recorded place leads to was moved, and the place is still there:
\* every assertion of RebindLinks and DanglingReference::Fix holds.
LEMMA RebindChecked ==
  ASSUME TypeInv, NEW M \in SUBSET Addr, UpMove(M), RebindLink,
         NEW s, s = Last(Top.references_to_targets),
         NEW t, t = Load(s), NEW p, p = Copy(t)
  PROVE  /\ s \in Places(M) /\ t \in Moved(M) /\ p \notin M /\ p \in Ptr
         /\ Now(s) = t /\ RegionContains(Depth, t)
         /\ Rebound(M, s, p)
         /\ stages_stack' =
              SetTop([Top EXCEPT !.references_to_targets = Front(@)])
         /\ UNCHANGED <<cursor, status>>
  <1>a. PICK refs : refs = Top.references_to_targets
    OBVIOUS
  <1>b. PICK c : c = CurrentHolder(s.holder)
    OBVIOUS
  <1>1. /\ InGC /\ Top.target_objects = <<>> /\ refs # <<>>
    BY <1>a DEF RebindLink, Moving
  <1>2. Top \in Stage
    BY <1>1, TopType DEF TypeInv
  <1>3. Covers(Top, Depth, M) /\ Forwarded(M, Depth)
    BY DEF UpMove
  <1>4. \E k \in DOMAIN refs : refs[k] = s
    <2>1. refs \in Seq(Slot)
      BY <1>a, <1>2 DEF Stage
    <2>2. Len(refs) \in DOMAIN refs /\ s = refs[Len(refs)]
      BY <1>a, <1>1, <2>1 DEF Last
    <2>3. QED
      BY <2>2
  <1>5. /\ s \in Places(M) /\ Now(s) = t /\ t \in M /\ RegionContains(Depth, t)
    BY <1>a, <1>3, <1>4 DEF Covers
  <1>6. WasRelocated(t)
    BY <1>1, <1>3, <1>5 DEF Covers
  <1>7. t \in Moved(M)
    BY <1>5, <1>6 DEF Moved
  <1>8. p \notin M /\ p \in Ptr /\ p # nullptr
    BY <1>3, <1>5, <1>6, <1>7, CellType
       DEF Forwarded, Copy, WasRelocated, TypeInv
  <1>9. t # nullptr
    BY <1>5, RegionsAssumption DEF Addr, START_PTR, nullptr
  <1>10. IsPlace(s)
    BY <1>5, PlaceCases
  <1>11. ASSUME ~IsRoot(s)
         PROVE  LET copy == HeapSlot(c, s.idx)
                IN  IsPlace(copy) /\ Load(copy) = t
    <2> DEFINE copy == HeapSlot(c, s.idx)
    <2>1. s.holder \in M /\ s.idx \in DOMAIN mem[s.holder].slots
      BY <1>5, <1>11, PlaceCases
    <2>2. c \in Addr /\ s.idx \in DOMAIN mem[c].slots
      BY <1>b, <1>3, <2>1, CurrentFacts
    <2>3. c # nullptr
      BY <2>2, RegionsAssumption DEF Addr, START_PTR, nullptr
    <2>4. copy.holder = c /\ copy.idx = s.idx
      BY DEF HeapSlot
    <2>5. mem[c].slots[s.idx] = t
      BY <1>b, <1>5, <1>11 DEF Now
    <2> HIDE DEF copy
    <2>6. IsPlace(copy) /\ Load(copy) = t
      BY <2>2, <2>3, <2>4, <2>5 DEF IsPlace, IsRoot, Load
    <2>7. QED
      BY <2>6 DEF copy
  <1>12. /\ IF IsRoot(s)
            THEN /\ state_stack' = [state_stack EXCEPT ![s.frame][s.idx] = p]
                 /\ mem' = mem
            ELSE /\ mem' = [mem EXCEPT ![c].slots[s.idx] = p]
                 /\ state_stack' = state_stack
         /\ stages_stack' =
              SetTop([Top EXCEPT !.references_to_targets = Front(@)])
         /\ UNCHANGED <<cursor, status>>
    <2>1. p = mem[t].relocated_ptr
      BY DEF Copy
    <2>2. ~IsRoot(s) => LET copy == HeapSlot(c, s.idx)
                        IN  /\ IsPlace(copy) /\ Load(copy) # nullptr
                            /\ mem[Load(copy)].relocated_ptr = p
      BY <1>9, <1>11, <2>1
    <2>3. QED
      BY <1>b, <1>8, <1>9, <1>10, <2>1, <2>2 DEF RebindLink
  <1>13. Rebound(M, s, p)
    <2>1. CASE IsRoot(s)
      BY <1>5, <1>12, <2>1, RootRebound
    <2>2. CASE ~IsRoot(s)
      BY <1>b, <1>3, <1>5, <1>12, <2>2, SlotRebound
    <2>3. QED
      BY <2>1, <2>2
  <1>14. QED
    BY <1>5, <1>7, <1>8, <1>12, <1>13

\* A round of RebindLinks.
LEMMA RebindLinkUp ==
  ASSUME TypeInv, NEW M \in SUBSET Addr, UpMove(M), RebindLink
  PROVE  InGC' /\ Top'.phase = "move" /\ status' = "run" /\ UpMove(M)'
  <1>a. PICK s : s = Last(Top.references_to_targets)
    OBVIOUS
  <1>b. PICK t : t = Load(s)
    OBVIOUS
  <1>c. PICK p : p = Copy(t)
    OBVIOUS
  <1>d. PICK st : st = [Top EXCEPT !.references_to_targets = Front(@)]
    OBVIOUS
  <1>e. PICK refs : refs = Top.references_to_targets
    OBVIOUS
  <1>1. /\ InGC /\ status = "run" /\ Top.phase = "move" /\ refs # <<>>
        /\ Top.target_objects = <<>>
    BY <1>e DEF RebindLink, Moving
  <1>2. /\ Depth \in 1 .. SURVIVORS_N /\ Top \in Stage
        /\ InItsRegion(Top, Depth)
    BY <1>1, TopType DEF TypeInv
  <1>3. /\ s \in Places(M) /\ t \in Moved(M) /\ p \notin M
        /\ Now(s) = t /\ RegionContains(Depth, t)
        /\ Rebound(M, s, p)
        /\ stages_stack' = SetTop(st)
        /\ UNCHANGED <<cursor, status>>
    BY <1>a, <1>b, <1>c, <1>d, RebindChecked
  <1>4. /\ Forwarded(M, Depth) /\ Leads(M) /\ Covers(Top, Depth, M) /\ Waits(M)
        /\ cursor[ToSpace] + Cardinality(Cells(mem, Top.target_objects))
             <= RegionSize(ToSpace)
    BY DEF UpMove
  <1>5. /\ Front(refs) \in Seq(Slot) /\ Distinct(Front(refs))
        /\ \A k \in DOMAIN Front(refs) :
             /\ Front(refs)[k] # s
             /\ \E j \in DOMAIN refs : refs[j] = Front(refs)[k]
        /\ \A j \in DOMAIN refs :
             \/ refs[j] = s
             \/ \E k \in DOMAIN Front(refs) : Front(refs)[k] = refs[j]
    <2>1. refs \in Seq(Slot) /\ Distinct(refs) /\ s = Last(refs)
      BY <1>a, <1>e, <1>2, <1>4 DEF Stage, Covers
    <2>2. PICK q : q = Front(refs)
      OBVIOUS
    <2>3. /\ q \in Seq(Slot) /\ Len(q) = Len(refs) - 1
          /\ \A i \in 1 .. Len(refs) - 1 : q[i] = refs[i]
      BY <1>1, <2>1, <2>2, FrontFacts
    <2>4. /\ DOMAIN refs = 1 .. Len(refs) /\ Len(refs) \in Nat \ {0}
          /\ s = refs[Len(refs)] /\ DOMAIN q = 1 .. Len(refs) - 1
      BY <1>1, <2>1, <2>3 DEF Last
    <2>5. \A k \in DOMAIN q : k \in DOMAIN refs /\ q[k] = refs[k] /\ k # Len(refs)
      BY <2>3, <2>4
    <2>6. \A j \in DOMAIN refs : j = Len(refs) \/ (j \in DOMAIN q /\ q[j] = refs[j])
      BY <2>3, <2>4
    <2>7. Len(refs) \in DOMAIN refs
      BY <2>4
    <2>8. QED
      BY <2>1, <2>2, <2>3, <2>4, <2>5, <2>6, <2>7 DEF Distinct
  <1>6. /\ st \in Stage /\ InItsRegion(st, Depth) /\ st.phase = "move"
        /\ st.target_objects = Top.target_objects
        /\ st.references_to_targets = Front(refs)
    <2>1. /\ st.target_objects = Top.target_objects
          /\ st.references_to_targets = Front(refs) /\ st.phase = "move"
      BY <1>d, <1>e, <1>1, <1>2 DEF Stage
    <2>2. st \in Stage
      BY <1>d, <1>e, <1>2, <1>5 DEF Stage
    <2>3. QED
      BY <1>2, <2>1, <2>2 DEF InItsRegion
  <1>7. /\ Depth' = Depth /\ Top' = st
        /\ \A d \in 1 .. Depth - 1 : stages_stack'[d] = stages_stack[d]
    BY <1>1, <1>3, <1>6, SetTopType DEF TypeInv, Depth, Top
  <1>8. SameHeads
    BY <1>3 DEF Rebound
  <1>9. /\ Forwarded(M, Depth)' /\ Moved(M)' = Moved(M)
        /\ \A a \in M : Copy(a)' = Copy(a)
    <2>1. PICK R : R = Depth
      OBVIOUS
    <2>2. /\ Forwarded(M, R)' /\ Moved(M)' = Moved(M)
          /\ \A a \in M : Copy(a)' = Copy(a)
      BY <1>3, <1>4, <1>8, <2>1, SameHeadsForwarded
    <2>3. R = Depth'
      BY <1>7, <2>1
    <2>4. QED
      BY <2>2, <2>3 DEF Forwarded
  <1>10. Leads(M)'
    <2>1. ASSUME NEW u \in Places(M)
          PROVE  (Now(u) \in Held(M) \/ \E b \in Moved(M) : Now(u) = Copy(b))'
      <3>1. CASE u = s
        <4>1. Now(s)' = Copy(t)' /\ t \in Moved(M)'
          BY <1>c, <1>3, <1>9 DEF Rebound, Moved
        <4>2. QED
          BY <3>1, <4>1
      <3>2. CASE u # s
        <4>1. Now(u)' = Now(u)
          BY <1>3, <3>2 DEF Rebound
        <4>2. CASE Now(u) \in Held(M)
          BY <4>1, <4>2 DEF Held
        <4>3. CASE \E b \in Moved(M) : Now(u) = Copy(b)
          <5>1. PICK b \in Moved(M) : Now(u) = Copy(b)
            BY <4>3
          <5>2. b \in Moved(M)' /\ Now(u)' = Copy(b)'
            BY <1>9, <4>1, <5>1 DEF Moved
          <5>3. QED
            BY <5>2
        <4>4. QED
          BY <1>4, <4>2, <4>3 DEF Leads
      <3>3. QED
        BY <3>1, <3>2
    <2>2. Places(M)' = Places(M)
      BY <1>3 DEF Rebound
    <2>3. QED
      BY <2>1, <2>2 DEF Leads
  <1>11. Covers(Top, Depth, M)'
    <2>1. PICK d : d = Depth
      OBVIOUS
    <2>2. PICK tt : tt = Top
      OBVIOUS
    <2>3. /\ Covers(tt, d, M) /\ tt.references_to_targets = refs
          /\ st.target_objects = tt.target_objects
      BY <1>e, <1>4, <1>6, <2>1, <2>2
    <2>4. Covers(st, d, M)'
      <3>1. AllBut(Front(refs), refs, s)
        BY <1>5 DEF AllBut
      <3>2. AllBut(st.references_to_targets, tt.references_to_targets, s)
        BY <1>6, <2>3, <3>1
      <3>3. QED
        BY <1>3, <2>3, <3>2, ReboundCovers
    <2>5. st = Top' /\ d = Depth'
      BY <1>7, <2>1
    <2>6. QED
      BY <2>4, <2>5 DEF Covers
  <1>12. Waits(M)'
    <2>1. ASSUME NEW d \in 1 .. Depth - 1
          PROVE  (Covers(stages_stack[d], d, M) /\ Estimated(stages_stack[d]))'
      <3>1. PICK tt : tt = stages_stack[d]
        OBVIOUS
      <3>2. Covers(tt, d, M) /\ Estimated(tt) /\ d # Depth
        BY <1>2, <1>4, <3>1 DEF Waits
      <3>3. ~RegionContains(d, t)
        <4>1. d \in RegionIds /\ Depth \in RegionIds
          BY <1>2, RegionsAssumption DEF RegionIds, Tenured
        <4>2. t \in Int
          BY <1>3 DEF Moved, Addr
        <4>3. QED
          BY <1>3, <3>2, <4>1, <4>2, OneRegion
      <3>4. \A k \in DOMAIN tt.references_to_targets :
               tt.references_to_targets[k] # s
        BY <1>3, <3>2, <3>3 DEF Covers
      <3>5. Covers(tt, d, M)'
        <4>1. Distinct(tt.references_to_targets)
          BY <3>2 DEF Covers
        <4>2. AllBut(tt.references_to_targets, tt.references_to_targets, s)
          BY <3>4, <4>1 DEF AllBut
        <4>3. QED
          BY <1>3, <3>2, <4>2, ReboundCovers
      <3>6. Estimated(tt)'
        <4>1. \A k \in DOMAIN tt.target_objects : tt.target_objects[k] \in Addr
          BY <3>2 DEF Covers
        <4>2. Cells(mem', tt.target_objects) = Cells(mem, tt.target_objects)
          BY <1>8, <4>1, CellsSame DEF SameHeads
        <4>3. QED
          BY <3>2, <4>2 DEF Estimated
      <3>7. tt = stages_stack'[d]
        BY <1>7, <3>1
      <3>8. QED
        BY <3>5, <3>6, <3>7 DEF Covers, Estimated
    <2>2. QED
      BY <1>7, <2>1 DEF Waits
  <1>13. (cursor[ToSpace] + Cardinality(Cells(mem, Top.target_objects))
            <= RegionSize(ToSpace))'
    <2>1. Cells(mem', Top.target_objects) = Cells(mem, Top.target_objects)
      BY <1>1 DEF Cells
    <2>2. ToSpace' = ToSpace /\ Top'.target_objects = Top.target_objects
      BY <1>6, <1>7 DEF ToSpace
    <2>3. QED
      BY <1>3, <1>4, <2>1, <2>2
  <1>14. UpMove(M)'
    BY <1>7, <1>9, <1>10, <1>11, <1>12, <1>13 DEF UpMove
  <1>15. QED
    BY <1>1, <1>3, <1>6, <1>7, <1>14 DEF InGC

\* When a stage has moved and rebound everything, nothing is left in its region.
LEMMA NothingLeft ==
  ASSUME NEW M, Covers(Top, Depth, M),
         Top.target_objects = <<>>, Top.references_to_targets = <<>>
  PROVE  /\ \A a \in M : RegionContains(Depth, a) => WasRelocated(a)
         /\ \A s \in Places(M) :
              Now(s) \in M => ~RegionContains(Depth, Now(s))
  BY DEF Covers

\* The reset of a region frees nothing elsewhere.
LEMMA ResetAllocated ==
  ASSUME TypeInv, InGC,
         cursor' = [cursor EXCEPT ![Depth] = CURSOR],
         NEW a \in Addr, Allocated(a), ~RegionContains(Depth, a)
  PROVE  Allocated(a)'
  <1>1. PICK r \in RegionIds : /\ RegionContains(r, a)
                               /\ a >= StartPtr(r) + CURSOR /\ a < CursorPtr(r)
    BY DEF Allocated
  <1>2. r # Depth
    BY <1>1
  <1>3. cursor'[r] = cursor[r]
    BY <1>2 DEF TypeInv, CursorOK
  <1>4. QED
    BY <1>1, <1>3 DEF Allocated, CursorPtr

\* FinalizeStage of a nested stage: the stage around it goes on.
LEMMA FinalizeNestedUp ==
  ASSUME MarkInv, NEW M \in SUBSET Addr, UpMove(M), FinalizeStage, Depth > 1
  PROVE  InGC' /\ Top'.phase = "fix" /\ status' = "run" /\ UpFix(M)'
  <1>1. /\ TypeInv /\ InGC /\ status = "run"
        /\ Top.target_objects = <<>> /\ Top.references_to_targets = <<>>
        /\ cursor' = [cursor EXCEPT ![Depth] = CURSOR]
        /\ stages_stack' = Front(stages_stack)
        /\ UNCHANGED <<mem, state_stack, status>>
    BY DEF FinalizeStage, Moving, MarkInv
  <1>2. Depth \in 1 .. SURVIVORS_N
    BY <1>1, TopType DEF TypeInv
  <1>3. Depth \in RegionIds /\ Depth + 1 \in RegionIds
    BY <1>2, RegionsAssumption DEF RegionIds, Tenured
  <1>4. /\ Depth' = Depth - 1 /\ ToSpace' = Depth /\ Depth' \in 1 .. Depth - 1
        /\ Top' = stages_stack[Depth']
        /\ \A d \in 1 .. Depth - 1 : stages_stack'[d] = stages_stack[d]
    <2>1. stages_stack \in Seq(Stage) /\ stages_stack # <<>>
      BY <1>1 DEF TypeInv, StagesOK, InGC, Depth
    <2>2. /\ Len(stages_stack') = Depth - 1
          /\ \A d \in 1 .. Depth - 1 : stages_stack'[d] = stages_stack[d]
      BY <1>1, <2>1, FrontFacts DEF Depth
    <2>3. Depth' = Depth - 1 /\ Top' = stages_stack'[Depth']
      BY <2>2 DEF Depth, Top
    <2>4. Depth' \in 1 .. Depth - 1 /\ ToSpace' = Depth
      BY <1>2, <2>3 DEF ToSpace
    <2>5. QED
      BY <2>2, <2>3, <2>4
  <1>5. /\ Forwarded(M, Depth) /\ Leads(M) /\ Covers(Top, Depth, M) /\ Waits(M)
    BY DEF UpMove
  <1>6. /\ \A a \in M : RegionContains(Depth, a) => WasRelocated(a)
        /\ \A s \in Places(M) : Now(s) \in M => ~RegionContains(Depth, Now(s))
    BY <1>1, <1>5, NothingLeft
  <1>7. /\ Places(M)' = Places(M) /\ Moved(M)' = Moved(M)
        /\ \A s : Now(s)' = Now(s)
        /\ \A a : WasRelocated(a)' <=> WasRelocated(a)
        /\ \A a : Copy(a)' = Copy(a)
    BY <1>1 DEF Places, RootSlots, SlotsIn, Now, CurrentHolder, WasRelocated,
                Moved, Copy
  <1>8. ASSUME NEW a \in Addr, Good(a), ~RegionContains(Depth, a)
        PROVE  Good(a)'
    BY <1>1, <1>7, <1>8, ResetAllocated DEF Good
  <1>9. Forwarded(M, ToSpace)'
    <2>1. ASSUME NEW a \in M, ~WasRelocated(a)
          PROVE  Good(a)'
      BY <1>5, <1>6, <1>8, <2>1 DEF Forwarded
    <2>2. ASSUME NEW a \in Moved(M)
          PROVE  (/\ RegionContains(ToSpace, a)
                  /\ RegionContains(ToSpace + 1, Copy(a))
                  /\ Good(Copy(a)) /\ Copy(a) \notin M
                  /\ DOMAIN mem[Copy(a)].slots = DOMAIN mem[a].slots)'
      <3>1. PICK c : c = Copy(a)
        OBVIOUS
      <3>2. /\ RegionContains(Depth, a) /\ RegionContains(Depth + 1, c)
            /\ Good(c) /\ c \notin M
            /\ DOMAIN mem[c].slots = DOMAIN mem[a].slots
        BY <1>5, <3>1 DEF Forwarded
      <3>3. a \in M /\ c \in Addr
        BY <1>1, <1>5, <3>1, CurrentFacts DEF Moved
      <3>4. ~RegionContains(Depth, c)
        BY <1>2, <1>3, <3>2, <3>3, OneRegion DEF Addr
      <3>5. Good(c)' /\ Copy(a)' = c
        BY <1>7, <1>8, <3>1, <3>2, <3>3, <3>4
      <3>6. Good(Copy(a))'
        BY <3>5 DEF Good, Allocated, WasRelocated
      <3>7. QED
        BY <1>1, <1>4, <3>2, <3>5, <3>6
    <2>3. \A a, b \in Moved(M) : Copy(a)' = Copy(b)' => a = b
      BY <1>5, <1>7 DEF Forwarded
    <2>4. QED
      BY <1>7, <2>1, <2>2, <2>3 DEF Forwarded
  <1>10. Leads(M)'
    BY <1>5, <1>7 DEF Leads, Held
  <1>11. ASSUME NEW d \in 1 .. Depth - 1
         PROVE  (Covers(stages_stack[d], d, M) /\ Estimated(stages_stack[d]))'
    <2>1. PICK tt : tt = stages_stack[d]
      OBVIOUS
    <2>2. Covers(tt, d, M) /\ Estimated(tt)
      BY <1>5, <2>1 DEF Waits
    <2>3. Covers(tt, d, M)' /\ Estimated(tt)'
      BY <1>1, <2>2, CoversSame
    <2>4. tt = stages_stack'[d]
      BY <1>4, <2>1
    <2>5. QED
      BY <2>3, <2>4 DEF Covers, Estimated
  <1>12. Waits(M)'
    BY <1>2, <1>4, <1>11 DEF Waits
  <1>13. Covers(Top, Depth, M)' /\ Estimated(Top)'
    BY <1>4, <1>11 DEF Top
  <1>14. /\ cursor'[ToSpace'] = CURSOR /\ ToSpace' <= SURVIVORS_N
    BY <1>1, <1>2, <1>3, <1>4 DEF TypeInv, CursorOK
  <1>15. /\ (\A a \in M : RegionContains(ToSpace, a) => WasRelocated(a))'
         /\ (\A s \in Places(M) :
               Now(s) \in M => ~RegionContains(ToSpace, Now(s)))'
    BY <1>4, <1>6, <1>7
  <1>16. UpFix(M)'
    BY <1>9, <1>10, <1>12, <1>13, <1>14, <1>15 DEF UpFix
  <1>17. Top'.phase = "fix"
    BY <1>4 DEF MarkInv, OutersWait
  <1>18. QED
    BY <1>1, <1>2, <1>4, <1>16, <1>17 DEF InGC

\* Where the objects of M are now.
Settle(M) == {CurrentHolder(a) : a \in M}

\* What a root and a register of an object of M lead to.
LEMMA NowFacts ==
  ASSUME TypeInv, NEW M \in SUBSET Addr
  PROVE  /\ \A f \in DOMAIN state_stack, i \in RootIdx :
              Now(RootSlot(f, i)) = state_stack[f][i]
         /\ \A a \in M : \A i \in DOMAIN mem[a].slots :
              Now(HeapSlot(a, i)) = mem[CurrentHolder(a)].slots[i]
  <1>1. ASSUME NEW f \in DOMAIN state_stack, NEW i \in RootIdx
        PROVE  Now(RootSlot(f, i)) = state_stack[f][i]
    BY RootPlace DEF Now
  <1>2. ASSUME NEW a \in M, NEW i \in DOMAIN mem[a].slots
        PROVE  Now(HeapSlot(a, i)) = mem[CurrentHolder(a)].slots[i]
    BY HeapPlace DEF Now
  <1>3. QED
    BY <1>1, <1>2

\* Once region R is left, every place leads to where an object is now.
LEMMA SettledClosed ==
  ASSUME TypeInv, NEW M \in SUBSET Addr, NEW R \in RegionIds, R + 1 \in RegionIds,
         Forwarded(M, R), Leads(M),
         \A a \in M : RegionContains(R, a) => WasRelocated(a),
         \A s \in Places(M) : Now(s) \in M => ~RegionContains(R, Now(s))
  PROVE  /\ Settle(M) \in SUBSET Addr
         /\ Closed(Settle(M))
         /\ \A c \in Settle(M) : Good(c) /\ ~RegionContains(R, c)
         /\ \A a \in M : ~RegionContains(R, a) => CurrentHolder(a) = a
         /\ \A s \in Places(M) : Now(s) \in Held(Settle(M))
         /\ \A c \in Settle(M) : c \in M \/ RegionContains(R + 1, c)
  <1>1. ASSUME NEW a \in M
        PROVE  /\ CurrentHolder(a) \in Addr /\ Good(CurrentHolder(a))
               /\ DOMAIN mem[CurrentHolder(a)].slots = DOMAIN mem[a].slots
               /\ a \in Moved(M) => CurrentHolder(a) = Copy(a)
               /\ a \notin Moved(M) => CurrentHolder(a) = a
    BY CurrentFacts
  <1>2. ASSUME NEW a \in M, ~RegionContains(R, a)
        PROVE  a \notin Moved(M) /\ CurrentHolder(a) = a
    BY <1>1, <1>2 DEF Forwarded
  <1>3. ASSUME NEW a \in M
        PROVE  /\ ~RegionContains(R, CurrentHolder(a))
               /\ CurrentHolder(a) \in M \/ RegionContains(R + 1, CurrentHolder(a))
    <2>1. CASE a \in Moved(M)
      <3>1. RegionContains(R + 1, Copy(a)) /\ CurrentHolder(a) = Copy(a)
        BY <1>1, <2>1 DEF Forwarded
      <3>2. R # R + 1
        BY DEF RegionIds
      <3>3. Copy(a) \in Int
        BY <1>1, <3>1 DEF Addr
      <3>4. ~RegionContains(R, Copy(a))
        BY <3>1, <3>2, <3>3, OneRegion
      <3>5. QED
        BY <3>1, <3>4
    <2>2. CASE a \notin Moved(M)
      BY <1>1, <2>2 DEF Moved
    <2>3. QED
      BY <2>1, <2>2
  <1>4. ASSUME NEW s \in Places(M)
        PROVE  Now(s) \in Held(Settle(M))
    <2>1. CASE Now(s) \in M
      <3>1. CurrentHolder(Now(s)) = Now(s)
        BY <1>2, <2>1
      <3>2. QED
        BY <2>1, <3>1 DEF Settle, Held
    <2>2. CASE Now(s) = nullptr
      BY <2>2 DEF Held
    <2>3. CASE \E b \in Moved(M) : Now(s) = Copy(b)
      <3>1. PICK b \in Moved(M) : Now(s) = Copy(b)
        BY <2>3
      <3>2. b \in M /\ Now(s) = CurrentHolder(b)
        BY <1>1, <3>1 DEF Moved
      <3>3. QED
        BY <3>2 DEF Settle, Held
    <2>4. QED
      BY <2>1, <2>2, <2>3 DEF Leads, Held
  <1>5. Settle(M) \in SUBSET Addr
    BY <1>1 DEF Settle
  <1>6. Closed(Settle(M))
    <2>1. ASSUME NEW f \in DOMAIN state_stack, NEW i \in RootIdx
          PROVE  state_stack[f][i] \in Held(Settle(M))
      BY <1>4, RootPlace, NowFacts
    <2>2. ASSUME NEW c \in Settle(M), NEW i \in DOMAIN mem[c].slots
          PROVE  mem[c].slots[i] \in Held(Settle(M))
      <3>1. PICK a \in M : c = CurrentHolder(a)
        BY DEF Settle
      <3>2. i \in DOMAIN mem[a].slots
        BY <1>1, <3>1
      <3>3. HeapSlot(a, i) \in Places(M)
        BY <3>2, HeapPlace
      <3>4. Now(HeapSlot(a, i)) = mem[c].slots[i]
        BY <3>1, <3>2, NowFacts
      <3>5. QED
        BY <1>4, <3>3, <3>4
    <2>3. QED
      BY <2>1, <2>2 DEF Closed
  <1>7. \A c \in Settle(M) : /\ Good(c) /\ ~RegionContains(R, c)
                             /\ c \in M \/ RegionContains(R + 1, c)
    BY <1>1, <1>3 DEF Settle
  <1>8. QED
    BY <1>2, <1>4, <1>5, <1>6, <1>7

\* FinalizeStage of the outermost stage leaves the objects where they went.
LEMMA LastReset ==
  ASSUME TypeInv, NEW M \in SUBSET Addr, UpMove(M), FinalizeStage,
         ~(Depth > 1)
  PROVE  /\ ~InGC'
         /\ \E S \in SUBSET Addr : /\ SafeSet(S) /\ SafeSet(S)'
                                   /\ \A a \in S : mem'[a] = mem[a]
  <1>1. /\ InGC /\ status = "run"
        /\ Top.target_objects = <<>> /\ Top.references_to_targets = <<>>
        /\ cursor' = [cursor EXCEPT ![Depth] = CURSOR]
        /\ stages_stack' = Front(stages_stack)
        /\ mem' = [a \in Addr |->
                     IF \E r \in RegionIds :
                           RegionContains(r, a) /\ a < StartPtr(r) + cursor'[r]
                     THEN mem[a] ELSE NoObj]
        /\ UNCHANGED <<state_stack, status>>
    BY DEF FinalizeStage, Moving
  <1>2. /\ Depth \in RegionIds /\ Depth + 1 \in RegionIds /\ Depth = 1
    <2>1. Depth \in 1 .. SURVIVORS_N
      BY <1>1, TopType DEF TypeInv
    <2>2. QED
      BY <2>1, RegionsAssumption DEF RegionIds, Tenured
  <1>3. ~InGC'
    <2>1. stages_stack \in Seq(Stage) /\ stages_stack # <<>>
      BY <1>1 DEF TypeInv, StagesOK, InGC, Depth
    <2>2. Len(stages_stack') = Depth - 1
      BY <1>1, <2>1, FrontFacts DEF Depth
    <2>3. QED
      BY <1>2, <2>2 DEF InGC, Depth
  <1>4. PICK S : S = Settle(M)
    OBVIOUS
  <1>5. /\ S \in SUBSET Addr /\ Closed(S)
        /\ \A c \in S : Good(c) /\ ~RegionContains(Depth, c)
    <2>1. /\ Forwarded(M, Depth) /\ Leads(M) /\ Covers(Top, Depth, M)
      BY DEF UpMove
    <2>2. /\ \A a \in M : RegionContains(Depth, a) => WasRelocated(a)
          /\ \A s \in Places(M) : Now(s) \in M => ~RegionContains(Depth, Now(s))
      BY <1>1, <2>1, NothingLeft
    <2>3. QED
      BY <1>2, <1>4, <2>1, <2>2, SettledClosed
  <1>6. ASSUME NEW c \in S
        PROVE  Allocated(c)' /\ mem'[c] = mem[c] /\ Good(c)'
    <2>1. c \in Addr /\ Good(c) /\ ~RegionContains(Depth, c)
      BY <1>5
    <2>2. Allocated(c)'
      BY <1>1, <2>1, ResetAllocated DEF Good
    <2>3. \E r \in RegionIds :
             RegionContains(r, c) /\ c < StartPtr(r) + cursor'[r]
      BY <2>2 DEF Allocated, CursorPtr
    <2>4. mem'[c] = mem[c]
      BY <1>1, <2>1, <2>3
    <2>5. Good(c)'
      BY <2>1, <2>2, <2>4 DEF Good, WasRelocated
    <2>6. QED
      BY <2>2, <2>4, <2>5
  <1>7. SafeSet(S)'
    <2>1. Closed(S)'
      <3>1. \A f \in DOMAIN state_stack' : \A i \in RootIdx :
               state_stack'[f][i] \in Held(S)
        BY <1>1, <1>5 DEF Closed
      <3>2. \A a \in S : \A i \in DOMAIN mem'[a].slots :
               mem'[a].slots[i] \in Held(S)
        BY <1>5, <1>6 DEF Closed
      <3>3. QED
        BY <3>1, <3>2 DEF Closed, Held
    <2>2. QED
      BY <1>5, <1>6, <2>1 DEF SafeSet
  <1>8. SafeSet(S)
    BY <1>5 DEF SafeSet
  <1>9. QED
    BY <1>3, <1>5, <1>6, <1>7, <1>8

\* The program goes on with a safe heap.
LEMMA FinalizeLastUp ==
  ASSUME TypeInv, RequestInv, NEW M \in SUBSET Addr, UpMove(M), FinalizeStage,
         ~(Depth > 1), UNCHANGED request
  PROVE  ~InGC' /\ status' = "run" /\ HeapSafe'
  <1>1. InGC /\ status = "run" /\ status' = status
    BY DEF FinalizeStage, Moving
  <1>2. ~InGC'
    BY LastReset
  <1>3. PICK S \in SUBSET Addr : SafeSet(S)'
    BY LastReset
  <1>4. request'.obj \in Held(S)
    <2>1. request # NoRequest /\ ~Sequent /\ RequestShape
      BY <1>1, InCollection
    <2>2. request.obj = nullptr
      BY <2>1 DEF Sequent, RequestShape
    <2>3. QED
      BY <2>2 DEF Held
  <1>5. HeapSafe'
    BY <1>3, <1>4 DEF HeapSafe, Held
  <1>6. QED
    BY <1>1, <1>2, <1>5

\* A place whose holder was moved is found with the copy, leads where it did,
\* and is taken for no other place.
LEMMA FollowFacts ==
  ASSUME TypeInv, NEW M \in SUBSET Addr, NEW R, Forwarded(M, R),
         NEW s \in Places(M), NEW t, t = FollowHolder(s)
  PROVE  /\ t \in Places(Settle(M))
         /\ Load(t) = Now(s) /\ Now(t) = Now(s)
         /\ \A u \in Places(M) : FollowHolder(u) = t => u = s
  <1>1. ASSUME NEW u \in Places(M)
        PROVE  \/ /\ IsRoot(u) /\ FollowHolder(u) = u
               \/ /\ ~IsRoot(u) /\ u.holder \in M
                  /\ u.idx \in DOMAIN mem[u.holder].slots
                  /\ u = HeapSlot(u.holder, u.idx)
                  /\ FollowHolder(u) = HeapSlot(CurrentHolder(u.holder), u.idx)
    <2>1. CASE IsRoot(u)
      BY <2>1 DEF FollowHolder
    <2>2. CASE ~IsRoot(u)
      <3>1. /\ u.holder \in M /\ u.idx \in DOMAIN mem[u.holder].slots
            /\ u = HeapSlot(u.holder, u.idx)
        BY <2>2, PlaceCases
      <3>2. FollowHolder(u) = HeapSlot(CurrentHolder(u.holder), u.idx)
        BY <2>2, <3>1 DEF FollowHolder, CurrentHolder, HeapSlot
      <3>3. QED
        BY <2>2, <3>1, <3>2
    <2>3. QED
      BY <2>1, <2>2
  <1>2. Settle(M) \in SUBSET Addr /\ \A c \in Settle(M) : Good(c)
    BY CurrentFacts DEF Settle
  <1>3. CASE IsRoot(s)
    <2>1. t = s
      BY <1>1, <1>3
    <2>2. s \in Places(Settle(M))
      <3>1. /\ s.frame \in DOMAIN state_stack /\ s.idx \in RootIdx
            /\ s = RootSlot(s.frame, s.idx)
        BY <1>3, PlaceCases
      <3>2. QED
        BY <3>1 DEF Places, RootSlots
    <2>3. Load(s) = Now(s)
      BY <1>3 DEF Load, Now
    <2>4. ASSUME NEW u \in Places(M), FollowHolder(u) = s
          PROVE  u = s
      <3>1. CASE IsRoot(u)
        BY <1>1, <2>4, <3>1
      <3>2. CASE ~IsRoot(u)
        <4>1. /\ u.holder \in M /\ s = HeapSlot(CurrentHolder(u.holder), u.idx)
          BY <1>1, <2>4, <3>2
        <4>2. CurrentHolder(u.holder) \in Addr
          BY <4>1, CurrentFacts
        <4>3. s.holder # nullptr
          BY <4>1, <4>2, RegionsAssumption DEF HeapSlot, Addr, START_PTR, nullptr
        <4>4. QED
          BY <1>3, <4>3 DEF IsRoot
      <3>3. QED
        BY <3>1, <3>2
    <2>5. QED
      BY <2>1, <2>2, <2>3, <2>4
  <1>4. CASE ~IsRoot(s)
    <2>a. PICK h : h = s.holder
      OBVIOUS
    <2>b. PICK i : i = s.idx
      OBVIOUS
    <2>c. PICK c : c = CurrentHolder(h)
      OBVIOUS
    <2>1. /\ h \in M /\ i \in DOMAIN mem[h].slots /\ s = HeapSlot(h, i)
          /\ t = HeapSlot(c, i)
      BY <1>1, <1>4, <2>a, <2>b, <2>c
    <2>2. /\ c \in Settle(M) /\ i \in DOMAIN mem[c].slots /\ c \in Addr /\ Good(c)
          /\ \A b \in M : CurrentHolder(b) = c => b = h
      BY <2>c, <2>1, CurrentFacts DEF Settle
    <2>3. /\ t \in Places(Settle(M)) /\ ~IsRoot(t)
          /\ t.holder = c /\ t.idx = i /\ Load(t) = mem[c].slots[i]
      <3>1. PICK N : N = Settle(M)
        OBVIOUS
      <3>2. N \in SUBSET Addr /\ c \in N /\ i \in DOMAIN mem[c].slots
        BY <1>2, <2>2, <3>1
      <3>3. /\ HeapSlot(c, i) \in Places(N) /\ ~IsRoot(HeapSlot(c, i))
            /\ HeapSlot(c, i).holder = c /\ HeapSlot(c, i).idx = i
            /\ Load(HeapSlot(c, i)) = mem[c].slots[i]
        BY <3>2, HeapPlace
      <3>4. QED
        BY <2>1, <3>1, <3>3
    <2>4. Now(s) = mem[c].slots[i]
      BY <1>4, <2>a, <2>b, <2>c DEF Now
    <2>5. Now(t) = mem[c].slots[i]
      <3>1. CurrentHolder(c) = c
        BY <2>2 DEF Good, CurrentHolder
      <3>2. QED
        BY <2>3, <3>1 DEF Now
    <2>6. ASSUME NEW u \in Places(M), FollowHolder(u) = t
          PROVE  u = s
      <3>1. ~IsRoot(u)
        BY <1>1, <2>3, <2>6
      <3>2. /\ u.holder \in M /\ u = HeapSlot(u.holder, u.idx)
            /\ t = HeapSlot(CurrentHolder(u.holder), u.idx)
        BY <1>1, <2>6, <3>1
      <3>3. CurrentHolder(u.holder) = c /\ u.idx = i
        BY <2>3, <3>2 DEF HeapSlot
      <3>4. u.holder = h
        BY <2>2, <3>2, <3>3
      <3>5. QED
        BY <2>1, <3>2, <3>3, <3>4
    <2>7. QED
      BY <2>3, <2>4, <2>5, <2>6
  <1>5. QED
    BY <1>3, <1>4

\* Every place of the copies comes from one.
LEMMA FollowOnto ==
  ASSUME TypeInv, NEW M \in SUBSET Addr, NEW R, Forwarded(M, R),
         NEW t \in Places(Settle(M))
  PROVE  \E s \in Places(M) : t = FollowHolder(s)
  <1>1. Settle(M) \in SUBSET Addr
    BY CurrentFacts DEF Settle
  <1>2. CASE IsRoot(t)
    <2>1. /\ t.frame \in DOMAIN state_stack /\ t.idx \in RootIdx
          /\ t = RootSlot(t.frame, t.idx)
      BY <1>1, <1>2, PlaceCases
    <2>2. t \in Places(M)
      BY <2>1 DEF Places, RootSlots
    <2>3. QED
      BY <1>2, <2>2 DEF FollowHolder
  <1>3. CASE ~IsRoot(t)
    <2>1. /\ t.holder \in Settle(M) /\ t.idx \in DOMAIN mem[t.holder].slots
          /\ t = HeapSlot(t.holder, t.idx)
      BY <1>1, <1>3, PlaceCases
    <2>2. PICK a \in M : t.holder = CurrentHolder(a)
      BY <2>1 DEF Settle
    <2>3. t.idx \in DOMAIN mem[a].slots
      BY <2>1, <2>2, CurrentFacts
    <2>4. PICK s : s = HeapSlot(a, t.idx)
      OBVIOUS
    <2>5. /\ s \in Places(M) /\ ~IsRoot(s) /\ s.holder = a
      BY <2>3, <2>4, HeapPlace
    <2>6. FollowHolder(s) = HeapSlot(CurrentHolder(a), t.idx)
      BY <2>4, <2>5 DEF FollowHolder, CurrentHolder, HeapSlot
    <2>7. QED
      BY <2>1, <2>2, <2>5, <2>6
  <1>4. QED
    BY <1>2, <1>3

\* A stage that waited has, once its references follow their holders, recorded
\* what leads from where the objects are now into its region.
LEMMA FollowCovers ==
  ASSUME TypeInv, NEW M \in SUBSET Addr, NEW R \in RegionIds, R + 1 \in RegionIds,
         Forwarded(M, R), Leads(M),
         \A a \in M : RegionContains(R, a) => WasRelocated(a),
         \A s \in Places(M) : Now(s) \in M => ~RegionContains(R, Now(s)),
         NEW d \in RegionIds, d < R, NEW st, Covers(st, d, M), NEW tt,
         tt.target_objects = st.target_objects,
         DOMAIN tt.references_to_targets = DOMAIN st.references_to_targets,
         \A k \in DOMAIN st.references_to_targets :
            tt.references_to_targets[k]
              = FollowHolder(st.references_to_targets[k])
  PROVE  Covers(tt, d, Settle(M))
  <1> DEFINE refs == st.references_to_targets
             follow == tt.references_to_targets
             objs == st.target_objects
  <1>a. PICK N : N = Settle(M)
    OBVIOUS
  <1>1. /\ N \in SUBSET Addr
        /\ \A c \in N : Good(c)
        /\ \A a \in M : ~RegionContains(R, a) => CurrentHolder(a) = a
        /\ \A c \in N : c \in M \/ RegionContains(R + 1, c)
    BY <1>a, SettledClosed
  <1>2. ASSUME NEW a, RegionContains(d, a), a \in Addr
        PROVE  ~RegionContains(R, a) /\ ~RegionContains(R + 1, a)
    <2>1. d # R /\ d # R + 1 /\ a \in Int
      BY <1>2 DEF RegionIds, Addr
    <2>2. QED
      BY <1>2, <2>1, OneRegion
  <1>3. ASSUME NEW a, RegionContains(d, a)
        PROVE  a \in M <=> a \in N
    <2>1. ASSUME a \in M
          PROVE  a \in N
      <3>1. CurrentHolder(a) = a
        BY <1>1, <1>2, <1>3, <2>1
      <3>2. QED
        BY <1>a, <2>1, <3>1 DEF Settle
    <2>2. ASSUME a \in N
          PROVE  a \in M
      BY <1>1, <1>2, <1>3, <2>2
    <2>3. QED
      BY <2>1, <2>2
  <1>4. ASSUME NEW k \in DOMAIN refs
        PROVE  /\ refs[k] \in Places(M)
               /\ Now(refs[k]) \in M /\ RegionContains(d, Now(refs[k]))
               /\ follow[k] \in Places(N)
               /\ Load(follow[k]) = Now(refs[k]) /\ Now(follow[k]) = Now(refs[k])
               /\ \A u \in Places(M) : FollowHolder(u) = follow[k] => u = refs[k]
    <2>1. /\ refs[k] \in Places(M)
          /\ Now(refs[k]) \in M /\ RegionContains(d, Now(refs[k]))
      BY DEF Covers
    <2>2. follow[k] = FollowHolder(refs[k])
      OBVIOUS
    <2> HIDE DEF refs, follow
    <2>3. QED
      BY <1>a, <2>1, <2>2, FollowFacts
  <1>5. Distinct(follow)
    <2>1. ASSUME NEW j \in DOMAIN refs, NEW k \in DOMAIN refs,
                 follow[j] = follow[k]
          PROVE  j = k
      <3>1. refs[j] = refs[k]
        BY <1>4, <2>1
      <3>2. Distinct(refs)
        BY DEF Covers
      <3>3. QED
        BY <3>1, <3>2 DEF Distinct
    <2>2. QED
      BY <2>1 DEF Distinct
  <1>6. ASSUME NEW t \in Places(N), Now(t) \in N, RegionContains(d, Now(t))
        PROVE  \E k \in DOMAIN follow : follow[k] = t
    <2>1. PICK s \in Places(M) : t = FollowHolder(s)
      BY <1>a, FollowOnto
    <2>2. Now(t) = Now(s)
      BY <2>1, FollowFacts
    <2>3. Now(s) \in M /\ RegionContains(d, Now(s))
      BY <1>3, <1>6, <2>2
    <2>4. PICK k \in DOMAIN refs : refs[k] = s
      BY <2>3 DEF Covers
    <2>5. QED
      BY <2>1, <2>4
  <1>7. ASSUME NEW k \in DOMAIN objs
        PROVE  objs[k] \in N /\ ~WasRelocated(objs[k])
    <2>1. objs[k] \in M /\ ~WasRelocated(objs[k])
      BY DEF Covers
    <2>2. CurrentHolder(objs[k]) = objs[k]
      BY <2>1 DEF CurrentHolder
    <2>3. QED
      BY <1>a, <2>1, <2>2 DEF Settle
  <1>8. ASSUME NEW a \in N, RegionContains(d, a), ~WasRelocated(a)
        PROVE  \E k \in DOMAIN objs : objs[k] = a
    BY <1>3, <1>8 DEF Covers
  <1>9. Distinct(objs)
    BY DEF Covers
  <1>10. Covers(tt, d, N)
    <2> HIDE DEF refs, follow, objs
    <2>1. /\ tt.references_to_targets = follow /\ tt.target_objects = objs
          /\ DOMAIN follow = DOMAIN refs
      BY DEF refs, follow, objs
    <2>2. \A k \in DOMAIN follow :
            /\ follow[k] \in Places(N) /\ Load(follow[k]) = Now(follow[k])
            /\ Now(follow[k]) \in N /\ RegionContains(d, Now(follow[k]))
      BY <1>3, <1>4, <2>1
    <2>3. QED
      BY <1>5, <1>6, <1>7, <1>8, <1>9, <2>1, <2>2 DEF Covers
  <1>11. QED
    BY <1>a, <1>10

\* FixInvalidDanglingReferences: the room is there, and from here on the copies
\* are the objects.
LEMMA FixInvalidUp ==
  ASSUME TypeInv, TypeInv', RegionsTiled, NEW M \in SUBSET Addr, UpFix(M),
         FixInvalidDanglingReferences
  PROVE  /\ InGC' /\ Top'.phase = "move" /\ status' = "run"
         /\ \E N \in SUBSET Addr : UpMove(N)'
  <1>1. InGC /\ status = "run" /\ Top.phase = "fix"
    BY DEF FixInvalidDanglingReferences
  <1>2. /\ Depth \in 1 .. SURVIVORS_N /\ Top \in Stage
        /\ InItsRegion(Top, Depth) /\ ToSpace \in RegionIds
    BY <1>1, TopType DEF TypeInv
  <1>3. /\ Forwarded(M, ToSpace) /\ Leads(M)
        /\ Covers(Top, Depth, M) /\ Waits(M) /\ Estimated(Top)
        /\ cursor[ToSpace] = CURSOR /\ ToSpace <= SURVIVORS_N
        /\ \A a \in M : RegionContains(ToSpace, a) => WasRelocated(a)
        /\ \A s \in Places(M) :
             Now(s) \in M => ~RegionContains(ToSpace, Now(s))
    BY DEF UpFix
  <1>4. /\ Depth \in RegionIds /\ ToSpace + 1 \in RegionIds /\ Depth < ToSpace
        /\ \A d \in 1 .. Depth : d \in RegionIds /\ d < ToSpace
        /\ RegionSize(Depth) = RegionSize(ToSpace) /\ RegionSize(Depth) \in Nat
    BY <1>2, <1>3, RegionsAssumption DEF RegionIds, Tenured, ToSpace, RegionSize
  <1>5. ASSUME NEW d \in 1 .. Depth
        PROVE  Covers(stages_stack[d], d, M) /\ Estimated(stages_stack[d])
    <2>1. CASE d = Depth
      BY <1>3, <2>1 DEF Top
    <2>2. CASE d \in 1 .. Depth - 1
      BY <1>3, <2>2 DEF Waits
    <2>3. QED
      BY <1>2, <2>1, <2>2
  <1>6. /\ Cardinality(Cells(mem, Top.target_objects)) \in Nat
        /\ CURSOR + Cardinality(Cells(mem, Top.target_objects))
             <= RegionSize(ToSpace)
        /\ ~(RemainingSpace(ToSpace) < Top.estimating_realloc_size)
    <2>1. Collected(Depth, Top.target_objects)
      <3>1. Depth \in 1 .. Depth /\ Top = stages_stack[Depth]
        BY <1>2 DEF Top
      <3>2. \A a \in M : ~WasRelocated(a) => Good(a)
        BY <1>3 DEF Forwarded
      <3>3. QED
        BY <1>3, <3>1, <3>2, StageCollected
    <2>2. /\ Cardinality(Cells(mem, Top.target_objects)) \in Nat
          /\ Cardinality(Cells(mem, Top.target_objects)) <= MAX_ALLOC_SIZE(Depth)
      BY <1>4, <2>1, CellsFit
    <2>3. QED
      BY <1>3, <1>4, <2>2 DEF MAX_ALLOC_SIZE, CURSOR, RemainingSpace, Estimated
  <1>7. /\ stages_stack' =
             [d \in 1 .. Depth |->
                [stages_stack[d] EXCEPT
                   !.phase = IF d = Depth THEN "move" ELSE @,
                   !.references_to_targets =
                      [k \in DOMAIN @ |-> FollowHolder(@[k])]]]
        /\ UNCHANGED <<mem, cursor, state_stack, status>>
    BY <1>6 DEF FixInvalidDanglingReferences
  <1>8. /\ Depth' = Depth /\ ToSpace' = ToSpace
    <2>1. DOMAIN stages_stack' = 1 .. Depth
      BY <1>7
    <2>2. DOMAIN stages_stack = 1 .. Depth
      BY DEF TypeInv, StagesOK, Depth
    <2>3. QED
      BY <2>1, <2>2, SameDepth DEF ToSpace
  <1>9. ASSUME NEW d \in 1 .. Depth
        PROVE  LET old == stages_stack[d]
                   new == stages_stack'[d]
               IN  /\ new.target_objects = old.target_objects
                   /\ new.estimating_realloc_size = old.estimating_realloc_size
                   /\ DOMAIN new.references_to_targets
                        = DOMAIN old.references_to_targets
                   /\ \A k \in DOMAIN old.references_to_targets :
                        new.references_to_targets[k]
                          = FollowHolder(old.references_to_targets[k])
                   /\ d = Depth => new.phase = "move"
    <2>1. stages_stack[d] \in Stage
      BY <1>2 DEF TypeInv, StagesOK, Depth
    <2>2. PICK old : old = stages_stack[d]
      OBVIOUS
    <2>3. PICK q : q = [k \in DOMAIN old.references_to_targets |->
                          FollowHolder(old.references_to_targets[k])]
      OBVIOUS
    <2>4. PICK ph : ph = IF d = Depth THEN "move" ELSE old.phase
      OBVIOUS
    <2>5. stages_stack'[d]
             = [old EXCEPT !.phase = ph, !.references_to_targets = q]
      BY <1>7, <2>2, <2>3, <2>4
    <2>6. /\ stages_stack'[d].references_to_targets = q
          /\ stages_stack'[d].phase = ph
          /\ stages_stack'[d].target_objects = old.target_objects
          /\ stages_stack'[d].estimating_realloc_size
               = old.estimating_realloc_size
      BY <2>1, <2>2, <2>5 DEF Stage
    <2>7. QED
      BY <2>2, <2>3, <2>4, <2>6
  <1>10. PICK N : N = Settle(M)
    OBVIOUS
  <1>11. /\ N \in SUBSET Addr /\ Closed(N) /\ \A c \in N : Good(c)
    BY <1>2, <1>3, <1>4, <1>10, SettledClosed
  <1>12. ASSUME NEW d \in 1 .. Depth
         PROVE  (Covers(stages_stack[d], d, N) /\ Estimated(stages_stack[d]))'
    <2>1. PICK old : old = stages_stack[d]
      OBVIOUS
    <2>2. PICK new : new = stages_stack'[d]
      OBVIOUS
    <2>3. PICK R : R = ToSpace
      OBVIOUS
    <2>4. /\ new.target_objects = old.target_objects
          /\ new.estimating_realloc_size = old.estimating_realloc_size
          /\ DOMAIN new.references_to_targets = DOMAIN old.references_to_targets
          /\ \A k \in DOMAIN old.references_to_targets :
               new.references_to_targets[k]
                 = FollowHolder(old.references_to_targets[k])
      BY <1>9, <2>1, <2>2
    <2>5. Covers(old, d, M) /\ Estimated(old)
      BY <1>5, <2>1
    <2>6. Covers(new, d, N)
      BY <1>2, <1>3, <1>4, <1>10, <2>3, <2>4, <2>5, FollowCovers
    <2>7. Estimated(new)
      BY <2>4, <2>5 DEF Estimated
    <2>8. Covers(new, d, N)' /\ Estimated(new)'
      BY <1>7, <2>6, <2>7, CoversSame
    <2>9. QED
      BY <2>2, <2>8 DEF Covers, Estimated
  <1>13. Waits(N)'
    BY <1>2, <1>8, <1>12 DEF Waits
  <1>14. Covers(Top, Depth, N)'
    BY <1>2, <1>8, <1>12 DEF Top
  <1>15. /\ \A a : Good(a)' <=> Good(a)
         /\ \A a : WasRelocated(a)' <=> WasRelocated(a)
    BY <1>7 DEF Good, Allocated, CursorPtr, WasRelocated
  <1>16. Moved(N)' = {}
    BY <1>11, <1>15 DEF Moved, Good
  <1>17. Forwarded(N, Depth)'
    BY <1>11, <1>15, <1>16 DEF Forwarded
  <1>18. Leads(N)'
    <2>1. ASSUME NEW s \in Places(N)
          PROVE  Now(s) \in Held(N)
      <3>1. IsRoot(s) \/ s.holder \in N
        BY <1>11, PlaceCases
      <3>2. Now(s) = Load(s)
        BY <1>11, <3>1, NowIsLoad DEF Good
      <3>3. QED
        BY <1>11, <3>2, ClosedPlaces
    <2>2. UNCHANGED <<mem, state_stack>>
      BY <1>7
    <2>3. Places(N)' = Places(N) /\ \A s : Now(s)' = Now(s)
      BY <2>2 DEF Places, RootSlots, SlotsIn, Now, CurrentHolder, WasRelocated
    <2>4. QED
      BY <2>1, <2>3 DEF Leads
  <1>19. (cursor[ToSpace] + Cardinality(Cells(mem, Top.target_objects))
            <= RegionSize(ToSpace))'
    <2>1. Top'.target_objects = Top.target_objects
      BY <1>2, <1>8, <1>9 DEF Top
    <2>2. QED
      BY <1>3, <1>6, <1>7, <1>8, <2>1
  <1>20. UpMove(N)'
    BY <1>13, <1>14, <1>17, <1>18, <1>19 DEF UpMove
  <1>21. Top'.phase = "move"
    BY <1>2, <1>8, <1>9 DEF Top
  <1>22. QED
    BY <1>1, <1>7, <1>8, <1>11, <1>20, <1>21 DEF InGC

----------------------------------------------------------------------------
(* The theorems *)

\* What holds of every state of the machine.
HeapInv == /\ MarkInv /\ RegionsTiled /\ RequestInv
           /\ CollectorInv /\ CollectorNeverFails

\* A collection goes on.
LEMMA GoesOn ==
  ASSUME InGC', status' = "run",
         \/ Top'.phase = "mark" /\ Down'
         \/ Top'.phase = "move" /\ \E M \in SUBSET Addr : UpMove(M)'
         \/ Top'.phase = "fix" /\ \E M \in SUBSET Addr : UpFix(M)'
  PROVE  CollectorInv' /\ CollectorNeverFails'
  <1>1. HeapSafe'
    BY DEF HeapSafe
  <1>2. CollectorInv'
    BY <1>1 DEF CollectorInv
  <1>3. QED
    BY <1>2 DEF CollectorNeverFails

\* Every step of the collector.
LEMMA GCUp ==
  ASSUME HeapInv, TypeInv', GC
  PROVE  CollectorInv' /\ CollectorNeverFails'
  <1>1. MarkInv /\ TypeInv /\ RegionsTiled /\ RequestInv /\ CollectorInv
    BY DEF HeapInv, MarkInv
  <1>2. ASSUME Marking
        PROVE  Down
    BY <1>1, <1>2 DEF CollectorInv, Marking
  <1>3. ASSUME Moving
        PROVE  \E M \in SUBSET Addr : UpMove(M)
    BY <1>1, <1>3 DEF CollectorInv, Moving
  <1>4. CASE MarkFrame
    <2>1. Down' /\ InGC' /\ Top'.phase = "mark" /\ status' = "run"
      BY <1>1, <1>2, <1>4, MarkFrameDown DEF MarkFrame
    <2>2. QED
      BY <2>1, GoesOn
  <1>5. CASE MarkAndFetchRecursively
    <2>1. Down' /\ InGC' /\ Top'.phase = "mark" /\ status' = "run"
      BY <1>1, <1>2, <1>5, MarkDown DEF MarkAndFetchRecursively
    <2>2. QED
      BY <2>1, GoesOn
  <1>6. CASE StartMoving
    <2>1. /\ InGC' /\ Top'.phase = "move" /\ status' = "run"
          /\ \E M \in SUBSET Addr : UpMove(M)'
      BY <1>1, <1>2, <1>6, StartMovingUp DEF StartMoving, Marked
    <2>2. QED
      BY <2>1, GoesOn
  <1>7. CASE CleanupNextRegion
    <2>1. Down' /\ InGC' /\ Top'.phase = "mark" /\ status' = "run"
      BY <1>1, <1>2, <1>7, CleanupNextDown DEF CleanupNextRegion, Marked
    <2>2. QED
      BY <2>1, GoesOn
  <1>8. CASE TenuredIsFull
    <2>1. status' = "TENURED_FULL"
      BY <1>8 DEF TenuredIsFull, Halt
    <2>2. QED
      BY <2>1 DEF CollectorInv, CollectorNeverFails
  <1>9. CASE FixInvalidDanglingReferences
    <2>1. PICK M \in SUBSET Addr : UpFix(M)
      BY <1>1, <1>9 DEF CollectorInv, FixInvalidDanglingReferences
    <2>2. /\ InGC' /\ Top'.phase = "move" /\ status' = "run"
          /\ \E N \in SUBSET Addr : UpMove(N)'
      BY <1>1, <1>9, <2>1, FixInvalidUp
    <2>3. QED
      BY <2>2, GoesOn
  <1>10. CASE MoveObject \/ RebindLink
    <2>1. PICK M \in SUBSET Addr : UpMove(M)
      BY <1>3, <1>10 DEF MoveObject, RebindLink
    <2>2. InGC' /\ Top'.phase = "move" /\ status' = "run" /\ UpMove(M)'
      BY <1>1, <1>10, <2>1, MoveObjectUp, RebindLinkUp
    <2>3. QED
      BY <2>2, GoesOn
  <1>11. CASE FinalizeStage
    <2>1. PICK M \in SUBSET Addr : UpMove(M)
      BY <1>3, <1>11 DEF FinalizeStage
    <2>2. CASE Depth > 1
      <3>1. InGC' /\ Top'.phase = "fix" /\ status' = "run" /\ UpFix(M)'
        BY <1>1, <1>11, <2>1, <2>2, FinalizeNestedUp
      <3>2. QED
        BY <3>1, GoesOn
    <2>3. CASE ~(Depth > 1)
      <3>1. ~InGC' /\ status' = "run" /\ HeapSafe'
        BY <1>1, <1>11, <2>1, <2>3, FinalizeLastUp DEF GC
      <3>2. QED
        BY <3>1 DEF CollectorInv, CollectorNeverFails
    <2>4. QED
      BY <2>2, <2>3
  <1>12. QED
    BY <1>4, <1>5, <1>6, <1>7, <1>8, <1>9, <1>10, <1>11 DEF GC, GCStep

\* An allocation that begins a collection begins it with a safe heap.
LEMMA AllocUp ==
  ASSUME HeapInv, AllocStep
  PROVE  CollectorInv' /\ CollectorNeverFails'
  <1>1. TypeInv /\ RequestInv /\ CollectorInv
    BY DEF HeapInv, MarkInv
  <1>2. status = "run" /\ ~InGC
    BY DEF AllocStep, NewSimple, PrepareForSequentAllocations,
           NewObjectStorage, NewMethod, EndSequentAllocations, Waiting, Running
  <1>3. HeapSafe
    BY <1>1, <1>2 DEF CollectorInv
  <1>4. HeapSafe' /\ status' \in {"run", "OOM", "SEQUENT_TOO_BIG"}
    BY <1>1, <1>3, AllocSafe, AllocRequest
  <1>5. CASE BeginStage(stages_stack)
    <2>1. Down' /\ InGC' /\ Top'.phase = "mark" /\ status' = "run"
      BY <1>1, <1>2, <1>3, <1>5, CleanupDown DEF BeginStage
    <2>2. QED
      BY <2>1, GoesOn
  <1>6. CASE UNCHANGED stages_stack
    <2>1. ~InGC'
      BY <1>2, <1>6 DEF InGC, Depth
    <2>2. QED
      BY <1>4, <2>1 DEF CollectorInv, CollectorNeverFails
  <1>7. BeginStage(stages_stack) \/ UNCHANGED stages_stack
    <2>1. ASSUME CleanupThis(stages_stack)
          PROVE  BeginStage(stages_stack) \/ UNCHANGED stages_stack
      BY <2>1 DEF CleanupThis, Halt
    <2>2. ASSUME NEW size, NoRoom(size)
          PROVE  BeginStage(stages_stack) \/ UNCHANGED stages_stack
      BY <2>1, <2>2 DEF NoRoom, Stop, Halt
    <2>3. ASSUME NEW size, NEW req, Place(size, req)
          PROVE  UNCHANGED stages_stack
      BY <2>3 DEF Place
    <2>4. CASE NewSimple
      BY <2>2, <2>3, <2>4 DEF NewSimple
    <2>5. CASE PrepareForSequentAllocations
      BY <2>1, <2>5 DEF PrepareForSequentAllocations, Halt
    <2>6. CASE NewObjectStorage
      BY <2>2, <2>3, <2>6 DEF NewObjectStorage
    <2>7. CASE NewMethod
      BY <2>2, <2>3, <2>7 DEF NewMethod
    <2>8. CASE EndSequentAllocations
      BY <2>8 DEF EndSequentAllocations
    <2>9. QED
      BY <2>4, <2>5, <2>6, <2>7, <2>8 DEF AllocStep
  <1>8. QED
    BY <1>5, <1>6, <1>7

\* Instructions run between collections.
LEMMA InstructionUp ==
  ASSUME HeapInv, Instruction
  PROVE  CollectorInv' /\ CollectorNeverFails'
  <1>1. TypeInv /\ RequestInv /\ CollectorInv
    BY DEF HeapInv, MarkInv
  <1>2. status = "run" /\ ~InGC /\ UNCHANGED stages_stack
    BY DEF Instruction, LDAI_NUM, LDAI_FUNC, LDAI_STR, LDAI_OBJ, NEWARR, LDA,
           STA, STNULL, MOV, GETARG, GETTHIS, SETARG, GETRET0, SETRET0, CALL,
           RET, SETELEM_ARR, GETELEM_ARR, SETELEM_OBJ, GETELEM_OBJ, NoOverload,
           Idle, Running, Await, gcVars, WriteRoot, WriteSlot, ReadInto, Rest,
           Stop, Halt
  <1>3. ~InGC'
    BY <1>2 DEF InGC, Depth
  <1>4. HeapSafe'
    BY <1>1, <1>2, InstructionSafe DEF CollectorInv
  <1>5. status' \in {"run", "EXIT", "FATAL", "UNDEFINED", "OOM"}
    BY <1>1, InstructionRequest
  <1>6. QED
    BY <1>3, <1>4, <1>5 DEF CollectorInv, CollectorNeverFails

\* A step that changes nothing.
LEMMA StutterUp ==
  ASSUME CollectorInv, UNCHANGED vars
  PROVE  CollectorInv'
  <1>1. UNCHANGED <<mem, cursor, state_stack, stages_stack, marked, work,
                    status, request>>
    BY DEF vars
  <1>2. /\ Depth' = Depth /\ Top' = Top /\ ToSpace' = ToSpace
        /\ (InGC' <=> InGC)
    BY <1>1 DEF Depth, Top, ToSpace, InGC
  <1>3. /\ \A M : Places(M)' = Places(M)
        /\ \A s : Load(s)' = Load(s) /\ Now(s)' = Now(s)
        /\ \A a : WasRelocated(a)' <=> WasRelocated(a)
        /\ \A a : Copy(a)' = Copy(a)
    BY <1>1 DEF Places, RootSlots, SlotsIn, Load, Now, CurrentHolder,
                WasRelocated, Copy
  <1>4. /\ \A a : Good(a)' <=> Good(a)
        /\ \A M : Closed(M)' <=> Closed(M)
    BY <1>1, <1>3 DEF Good, Allocated, CursorPtr, Closed
  <1>5. \A M : Waits(M) => Waits(M)'
    BY <1>1, <1>2, WaitsSame
  <1>6. ASSUME NEW M, NEW d, NEW st, d = Depth, st = Top, Covers(Top, Depth, M)
        PROVE  Covers(Top, Depth, M)'
    <2>1. Covers(st, d, M)'
      BY <1>1, <1>6, CoversSame
    <2>2. QED
      BY <1>2, <1>6, <2>1 DEF Covers
  <1>7. Estimated(Top) => Estimated(Top)'
    BY <1>1, <1>2 DEF Estimated
  <1>8. \A M : Moved(M)' = Moved(M)
    BY <1>3 DEF Moved
  <1>9. ASSUME NEW M, NEW R, Forwarded(M, R)
        PROVE  Forwarded(M, R)'
    <2>1. ASSUME NEW a \in Moved(M)
          PROVE  (/\ RegionContains(R, a) /\ RegionContains(R + 1, Copy(a))
                  /\ Good(Copy(a)) /\ Copy(a) \notin M
                  /\ DOMAIN mem[Copy(a)].slots = DOMAIN mem[a].slots)'
      <3>1. PICK c : c = Copy(a)
        OBVIOUS
      <3>2. /\ RegionContains(R, a) /\ RegionContains(R + 1, c)
            /\ Good(c) /\ c \notin M /\ DOMAIN mem[c].slots = DOMAIN mem[a].slots
        BY <1>9, <3>1 DEF Forwarded
      <3>3. Good(c)' /\ Copy(a)' = c
        BY <1>3, <1>4, <3>1, <3>2
      <3>4. Good(Copy(a))'
        BY <3>3 DEF Good, Allocated, WasRelocated
      <3>5. QED
        BY <1>1, <3>2, <3>3, <3>4
    <2>2. \A a \in M : ~WasRelocated(a)' => Good(a)'
      BY <1>3, <1>4, <1>9 DEF Forwarded
    <2>3. \A a, b \in Moved(M) : Copy(a)' = Copy(b)' => a = b
      BY <1>3, <1>9 DEF Forwarded
    <2>4. QED
      BY <1>8, <2>1, <2>2, <2>3 DEF Forwarded
  <1>10. \A M : Leads(M) => Leads(M)'
    BY <1>3, <1>8 DEF Leads, Held
  <1>11. HeapSafe => HeapSafe'
    BY <1>1, <1>2, <1>4 DEF HeapSafe, SafeSet, Held
  <1>12. ASSUME NEW M, UpMove(M)
         PROVE  UpMove(M)'
    <2>1. PICK R : R = Depth
      OBVIOUS
    <2>2. Forwarded(M, R)'
      BY <1>9, <1>12, <2>1 DEF UpMove
    <2>3. Forwarded(M, Depth)'
      BY <1>2, <2>1, <2>2 DEF Forwarded
    <2>4. Covers(Top, Depth, M)'
      BY <1>6, <1>12 DEF UpMove
    <2>5. QED
      BY <1>1, <1>2, <1>5, <1>10, <1>12, <2>3, <2>4 DEF UpMove
  <1>13. ASSUME NEW M, UpFix(M)
         PROVE  UpFix(M)'
    <2>1. PICK R : R = ToSpace
      OBVIOUS
    <2>2. Forwarded(M, R)'
      BY <1>9, <1>13, <2>1 DEF UpFix
    <2>3. Forwarded(M, ToSpace)'
      BY <1>2, <2>1, <2>2 DEF Forwarded
    <2>4. Covers(Top, Depth, M)'
      BY <1>6, <1>13 DEF UpFix
    <2>5. QED
      BY <1>1, <1>2, <1>3, <1>5, <1>7, <1>10, <1>13, <2>3, <2>4 DEF UpFix
  <1>14. Down => Down'
    <2>1. Live' = Live
      BY <1>1, LiveSame
    <2>2. PICK L : L = Live
      OBVIOUS
    <2>3. Waits(Live) => Waits(Live)'
      BY <1>5, <2>1, <2>2
    <2>4. Progress(work, Top, marked) => Progress(work, Top, marked)'
      BY <1>1, <1>2, <1>3, <1>7 DEF Progress, Reached, Load, IsRoot
    <2>5. QED
      BY <1>1, <1>4, <2>1, <2>3, <2>4 DEF Down
  <1>15. QED
    BY <1>1, <1>2, <1>11, <1>12, <1>13, <1>14 DEF CollectorInv

\* Every step of the machine keeps the invariant.
LEMMA NextHeap ==
  ASSUME HeapInv, [Next]_vars
  PROVE  HeapInv'
  <1>1. MarkInv /\ TypeInv /\ RegionsTiled /\ RequestInv
    BY DEF HeapInv, MarkInv
  <1>2. MarkInv' /\ TypeInv' /\ RegionsTiled' /\ RequestInv'
    BY <1>1, NextMark, NextType, NextTiled, NextRequest
  <1>3. CollectorInv' /\ CollectorNeverFails'
    <2>1. CASE UNCHANGED vars
      BY <2>1, StutterUp DEF HeapInv, CollectorNeverFails, vars
    <2>2. CASE Next
      BY <1>2, <2>1, <2>2, InstructionUp, AllocUp, GCUp DEF Next, Ended
    <2>3. QED
      BY <2>1, <2>2
  <1>4. QED
    BY <1>2, <1>3 DEF HeapInv

\* The machine starts between collections.
LEMMA InitHeap ==
  ASSUME Init
  PROVE  HeapInv
  <1>1. TypeInv /\ RegionsTiled /\ RequestInv /\ HeapSafe
    BY InitType, InitTiled, InitRequest, InitSafe
  <1>2. ~InGC /\ Depth = 0 /\ status = "run"
    BY DEF Init, InGC, Depth
  <1>3. MarkInv
    BY <1>1, <1>2 DEF MarkInv, OutersWait, ComeBack, MarkingComplete, Marking
  <1>4. CollectorInv /\ CollectorNeverFails
    BY <1>1, <1>2 DEF CollectorInv, CollectorNeverFails
  <1>5. QED
    BY <1>1, <1>3, <1>4 DEF HeapInv

\* What a stage has recorded is valid.
LEMMA CoveredValid ==
  ASSUME TypeInv, NEW M \in SUBSET Addr,
         \A a \in M : ~WasRelocated(a) => Good(a),
         NEW st, NEW d, Covers(st, d, M), NEW k \in DOMAIN st.references_to_targets,
         NEW s, s = st.references_to_targets[k]
  PROVE  IsPlace(s) /\ RegionContains(d, Load(s)) /\ mem[Load(s)] # NoObj
  <1>1. /\ s \in Places(M) /\ Load(s) \in M /\ RegionContains(d, Load(s))
    BY DEF Covers
  <1>2. IsPlace(s)
    BY <1>1, PlaceCases
  <1>3. mem[Load(s)] # NoObj
    <2>1. CASE WasRelocated(Load(s))
      BY <2>1 DEF WasRelocated, NoObj
    <2>2. CASE ~WasRelocated(Load(s))
      BY <1>1, <2>2 DEF Good
    <2>3. QED
      BY <2>1, <2>2
  <1>4. QED
    BY <1>1, <1>2, <1>3

\* So is what every stage has recorded that no longer marks.
LEMMA HeapInvRecorded ==
  ASSUME HeapInv
  PROVE  RecordedReferencesValid
  <1> SUFFICES ASSUME status = "run", NEW d \in 1 .. Depth,
                      stages_stack[d].phase # "mark",
                      NEW k \in DOMAIN stages_stack[d].references_to_targets,
                      NEW s, s = stages_stack[d].references_to_targets[k]
               PROVE  /\ IsPlace(s) /\ RegionContains(d, Load(s))
                      /\ mem[Load(s)] # NoObj
    BY DEF RecordedReferencesValid
  <1>1. TypeInv /\ OutersWait /\ CollectorInv
    BY DEF HeapInv, MarkInv
  <1>2. Depth \in Nat /\ InGC
    BY <1>1 DEF TypeInv, StagesOK, Depth, InGC
  <1>3. Top \in Stage /\ Top = stages_stack[Depth]
    BY <1>1, <1>2, TopType DEF TypeInv, Top
  <1>4. \E M \in SUBSET Addr : /\ \A a \in M : ~WasRelocated(a) => Good(a)
                               /\ Covers(stages_stack[d], d, M)
    <2>1. CASE Top.phase = "mark"
      <3>1. Down /\ d # Depth
        BY <1>1, <1>2, <1>3, <2>1 DEF CollectorInv
      <3>2. d \in 1 .. Depth - 1
        BY <1>2, <3>1
      <3>3. Covers(stages_stack[d], d, Live) /\ \A a \in Live : Good(a)
        BY <3>1, <3>2 DEF Down, Waits
      <3>4. QED
        BY <1>1, <3>3, LiveFacts
    <2>2. CASE Top.phase \in {"move", "fix"}
      <3>1. PICK M \in SUBSET Addr : UpMove(M) \/ UpFix(M)
        BY <1>1, <1>2, <2>2 DEF CollectorInv
      <3>2. /\ \A a \in M : ~WasRelocated(a) => Good(a)
            /\ Covers(Top, Depth, M) /\ Waits(M)
        BY <3>1 DEF UpMove, UpFix, Forwarded
      <3>3. Covers(stages_stack[d], d, M)
        <4>1. CASE d = Depth
          BY <1>3, <3>2, <4>1
        <4>2. CASE d # Depth
          <5>1. d \in 1 .. Depth - 1
            BY <1>2, <4>2
          <5>2. QED
            BY <3>2, <5>1 DEF Waits
        <4>3. QED
          BY <4>1, <4>2
      <3>4. QED
        BY <3>2, <3>3
    <2>3. QED
      BY <1>3, <2>1, <2>2 DEF Stage
  <1>5. QED
    BY <1>1, <1>4, CoveredValid

----------------------------------------------------------------------------
(* The process ends for want of memory only when there is none *)

\* EndsOnlyWhenFull, of the live objects.
Ends ==
  /\ status = "TENURED_FULL" =>
       Cardinality(UNION {Extent(mem, a) :
                            a \in {b \in Live : RegionContains(Depth, b)}})
         > RemainingSpace(Tenured)
  /\ status = "SEQUENT_TOO_BIG" => SequentSize >= MAX_ALLOC_SIZE(Young)
  /\ status = "OOM" /\ request # NoRequest =>
       HEADER + request.n > MAX_ALLOC_SIZE(Young)

LEMMA EndsImplies ==
  ASSUME TypeInv, Ends
  PROVE  EndsOnlyWhenFull
  BY LiveIsReachable DEF Ends, EndsOnlyWhenFull, LiveCells, Extent, SequentSize

\* The tenured region is full: the estimate counts the cells of the live
\* objects of the region that is cleaned, each once.
LEMMA TenuredEnds ==
  ASSUME HeapInv, GC, TenuredIsFull
  PROVE  Ends'
  <1>1. /\ MarkInv /\ TypeInv /\ Marked /\ InGC /\ status = "run"
        /\ RemainingSpace(ToSpace) < Top.estimating_realloc_size
        /\ ToSpace = Tenured /\ Halt("TENURED_FULL")
    BY DEF HeapInv, MarkInv, TenuredIsFull, Marked, Marking
  <1>2. Down
    BY <1>1 DEF HeapInv, CollectorInv, Marked, Marking
  <1>3. Covers(Top, Depth, Live) /\ Estimated(Top)
    BY <1>1, <1>2, MarkingEnds DEF Down, Progress
  <1>4. InItsRegion(Top, Depth)
    BY <1>1, TopType DEF TypeInv
  <1> DEFINE objs == Top.target_objects
             here == {b \in Live : RegionContains(Depth, b)}
             C    == UNION {Extent(mem, a) : a \in here}
  <1>5. \A k \in DOMAIN objs : objs[k] \in here
    BY <1>3, <1>4 DEF Covers, InItsRegion
  <1>6. \A a \in here : \E k \in DOMAIN objs : objs[k] = a
    BY <1>2, <1>3 DEF Covers, Down, Good
  <1>7. C = Cells(mem, objs)
    <2> HIDE DEF objs, here
    <2>1. QED
      BY <1>5, <1>6 DEF Cells
  <1>8. Cardinality(C) > RemainingSpace(Tenured)
    <2>1. Top \in Stage /\ Top.estimating_realloc_size \in Nat
      BY <1>1, TopType DEF TypeInv, Stage
    <2>2. RemainingSpace(Tenured) \in Int
      <3>1. ToSpace \in RegionIds
        BY <1>1, TopType DEF TypeInv
      <3>2. cursor[Tenured] \in Nat /\ RegionSize(Tenured) \in Nat
        BY <1>1, <3>1, UsedCells
      <3>3. QED
        BY <3>2 DEF RemainingSpace
    <2>3. Top.estimating_realloc_size = Cardinality(C)
      BY <1>3, <1>7 DEF Estimated
    <2> HIDE DEF C
    <2>4. QED
      BY <1>1, <2>1, <2>2, <2>3
  <1>9. /\ UNCHANGED <<mem, cursor, state_stack, stages_stack>>
        /\ status' = "TENURED_FULL"
    BY <1>1 DEF Halt
  <1>10. Live' = Live /\ Depth' = Depth
         /\ RemainingSpace(Tenured)' = RemainingSpace(Tenured)
    BY <1>9, LiveSame DEF Depth, RemainingSpace
  <1>11. QED
    BY <1>8, <1>9, <1>10 DEF Ends, Extent

\* No other step of the collector ends for want of memory.
LEMMA GCEnds ==
  ASSUME HeapInv, TypeInv', GC
  PROVE  Ends'
  <1>1. CASE TenuredIsFull
    BY <1>1, TenuredEnds
  <1> DEFINE Other == status' \notin {"TENURED_FULL", "SEQUENT_TOO_BIG", "OOM"}
  <1>2. CASE MarkFrame
    <2>1. Other
      BY <1>2 DEF MarkFrame, Marking, Halt
    <2>2. QED
      BY <2>1 DEF Ends
  <1>3. CASE MarkAndFetchRecursively
    <2>1. Other
      BY <1>3 DEF MarkAndFetchRecursively, Marking, Halt
    <2>2. QED
      BY <2>1 DEF Ends
  <1>4. CASE StartMoving
    <2>1. Other
      BY <1>4 DEF StartMoving, Marked, Marking
    <2>2. QED
      BY <2>1 DEF Ends
  <1>5. CASE CleanupNextRegion
    <2>1. Other
      BY <1>5 DEF CleanupNextRegion, Marked, Marking, CleanupThis,
                    BeginStage, Halt
    <2>2. QED
      BY <2>1 DEF Ends
  <1>6. CASE FixInvalidDanglingReferences
    <2>1. status = "run" /\ InGC /\ Top.phase = "fix"
      BY <1>6, Zenon DEF FixInvalidDanglingReferences
    <2>2. PICK M \in SUBSET Addr : UpFix(M)
      BY <2>1 DEF HeapInv, CollectorInv
    <2>3. status' = "run"
      BY <1>6, <2>2, FixInvalidUp DEF HeapInv, MarkInv
    <2>4. QED
      BY <2>3 DEF Ends
  <1>7. CASE MoveObject
    <2>1. Other
      BY <1>7 DEF MoveObject, Moving, Halt
    <2>2. QED
      BY <2>1 DEF Ends
  <1>8. CASE RebindLink
    <2>1. Other
      BY <1>8 DEF RebindLink, Moving, Halt
    <2>2. QED
      BY <2>1 DEF Ends
  <1>9. CASE FinalizeStage
    <2>1. Other
      BY <1>9 DEF FinalizeStage, Moving
    <2>2. QED
      BY <2>1 DEF Ends
  <1>10. QED
    BY <1>1, <1>2, <1>3, <1>4, <1>5, <1>6, <1>7, <1>8, <1>9 DEF GC, GCStep

\* An allocation does after a cleanup that has emptied the young region.
LEMMA AllocEnds ==
  ASSUME HeapInv, AllocStep
  PROVE  Ends'
  <1>1. TypeInv /\ RequestInv
    BY DEF HeapInv, MarkInv
  <1>2. CASE NewSimple
    <2> DEFINE size == HEADER + request.n
    <2>1. Waiting("storage") /\ (NoRoom(size) \/ Place(size, NoRequest))
      BY <1>2 DEF NewSimple
    <2>2. status = "run" /\ request \in Request /\ request # NoRequest
      BY <1>1, <2>1, WaitingRequest
    <2>3. CASE status' # "OOM"
      BY <1>1, <1>2, <2>3, NewSimpleRequest DEF Ends
    <2>4. CASE status' = "OOM"
      <3>1. /\ RemainingSpace(Young) = MAX_ALLOC_SIZE(Young)
            /\ cursor[Young] + size > RegionSize(Young)
            /\ UNCHANGED request
        BY <2>1, <2>2, <2>4
           DEF NoRoom, Place, Stop, Halt, CleanupThis, BeginStage
      <3>2. size \in Nat /\ cursor[Young] \in Int /\ RegionSize(Young) \in Int
        BY <1>1, <2>2, RegionsAssumption
           DEF Request, HEADER, TypeInv, CursorOK, RegionSize, Young, RegionIds,
               Tenured
      <3> HIDE DEF size
      <3>3. size > MAX_ALLOC_SIZE(Young)
        BY <3>1, <3>2 DEF RemainingSpace
      <3>4. QED
        BY <2>4, <3>1, <3>3 DEF Ends, size
    <2>5. QED
      BY <2>3, <2>4
  <1>3. CASE PrepareForSequentAllocations
    <2>1. Waiting("prepare")
      BY <1>3 DEF PrepareForSequentAllocations
    <2>2. /\ status = "run" /\ request \in Request /\ request # NoRequest
          /\ ~InGC /\ CleanedIsEmpty
      BY <1>1, <2>1, WaitingRequest
    <2>3. CASE status' # "SEQUENT_TOO_BIG"
      BY <1>1, <1>3, <2>3, PrepareRequest DEF Ends
    <2>4. CASE status' = "SEQUENT_TOO_BIG"
      <3>1. /\ RemainingSpace(Young) <= SequentSize /\ request.cleaned
            /\ UNCHANGED request
        BY <1>3, <2>2, <2>4
           DEF PrepareForSequentAllocations, Halt, CleanupThis, BeginStage
      <3>2. RemainingSpace(Young) = MAX_ALLOC_SIZE(Young)
        BY <2>2, <3>1 DEF CleanedIsEmpty, RemainingSpace, MAX_ALLOC_SIZE
      <3>3. RemainingSpace(Young) \in Int /\ SequentSize \in Int
        BY <1>1, <2>2, <3>2, RegionsAssumption, FrameAssumption
           DEF Request, HEADER, FUNC_SLOTS, SequentSize, MAX_ALLOC_SIZE, CURSOR,
               RegionSize, Young, Tenured
      <3>4. SequentSize >= MAX_ALLOC_SIZE(Young)
        BY <3>1, <3>2, <3>3
      <3>5. SequentSize' = SequentSize
        BY <3>1 DEF SequentSize
      <3>6. QED
        BY <2>4, <3>4, <3>5 DEF Ends
    <2>5. QED
      BY <2>3, <2>4
  <1>4. CASE NewObjectStorage \/ NewMethod \/ EndSequentAllocations
    BY <1>1, <1>4, NewObjectStorageRequest, NewMethodRequest, EndSequentRequest
       DEF Ends
  <1>5. QED
    BY <1>2, <1>3, <1>4 DEF AllocStep

\* An instruction that finds the stack region full has made no request.
LEMMA InstructionEnds ==
  ASSUME HeapInv, Instruction
  PROVE  Ends'
  <1>1. TypeInv /\ RequestInv
    BY DEF HeapInv, MarkInv
  <1>2. Idle
    BY InstructionIdle
  <1>3. status' = status \/ UNCHANGED request
    <2>1. CASE LDAI_NUM \/ LDAI_FUNC \/ LDAI_STR \/ LDAI_OBJ \/ NEWARR
      BY <2>1 DEF LDAI_NUM, LDAI_FUNC, LDAI_STR, LDAI_OBJ, NEWARR, Await, gcVars,
                  WriteRoot, Rest
    <2>2. CASE LDA \/ STA \/ STNULL \/ MOV \/ SETARG \/ SETRET0
      BY <2>2 DEF LDA, STA, STNULL, MOV, SETARG, SETRET0, WriteRoot, WriteSlot,
                  Rest
    <2>3. CASE GETARG \/ GETTHIS \/ GETRET0
      BY <2>3 DEF GETARG, GETTHIS, GETRET0, ReadInto, WriteRoot, Rest, Stop
    <2>4. CASE CALL \/ RET \/ SETELEM_ARR \/ GETELEM_ARR
      BY <2>4 DEF CALL, RET, SETELEM_ARR, GETELEM_ARR, ReadInto, WriteRoot,
                  WriteSlot, Rest, Stop
    <2>5. CASE SETELEM_OBJ \/ NoOverload
      BY <2>5 DEF SETELEM_OBJ, NoOverload, WriteSlot, Rest, Stop
    <2>6. CASE GETELEM_OBJ
      BY <2>6 DEF GETELEM_OBJ, Rest, Stop
    <2>7. QED
      BY <2>1, <2>2, <2>3, <2>4, <2>5, <2>6 DEF Instruction
  <1>4. status' \in {"run", "EXIT", "FATAL", "UNDEFINED", "OOM"}
    BY <1>1, InstructionRequest
  <1>5. QED
    BY <1>2, <1>3, <1>4 DEF Ends, Idle, Running

\* Every step of the machine.
LEMMA NextEnds ==
  ASSUME HeapInv, Ends, [Next]_vars
  PROVE  Ends'
  <1>1. CASE UNCHANGED vars
    <2>1. UNCHANGED <<mem, cursor, state_stack, stages_stack, status, request>>
      BY <1>1 DEF vars
    <2>2. Live' = Live /\ Depth' = Depth /\ SequentSize' = SequentSize
          /\ RemainingSpace(Tenured)' = RemainingSpace(Tenured)
      BY <2>1, LiveSame DEF Depth, RemainingSpace, SequentSize
    <2>3. QED
      BY <2>1, <2>2 DEF Ends, Extent
  <1>2. QED
    <2>1. TypeInv'
      BY NextType DEF HeapInv, MarkInv
    <2>2. QED
      BY <1>1, <2>1, InstructionEnds, AllocEnds, GCEnds DEF Next, Ended

\* For every heap, every program and every depth of the cascade: no collection
\* is triggered while one is forbidden, the memory that was estimated suffices
\* for the moves, and no assertion of the collector fails (CHECK() on the
\* objects and holders it follows, the checks of MoveObject, of RebindLinks and
\* of DanglingReference::Fix, the room after the nested cleanup) but the two
\* for a heap that is too small, which MemoryIsLacking is about.
THEOREM CollectorIsSound == Spec => []CollectorNeverFails
  <1>1. Init => HeapInv
    BY InitHeap
  <1>2. HeapInv /\ [Next]_vars => HeapInv'
    BY NextHeap
  <1>3. HeapInv => CollectorNeverFails
    BY DEF HeapInv
  <1>4. QED
    BY <1>1, <1>2, <1>3, PTL DEF Spec

\* Every reference a stage has recorded stays a place that holds a pointer into
\* the region the stage cleans, until the stage rebinds it: nested cleanups that
\* move its holder and the moves into the memory the holder left included.
THEOREM ReferencesStayValid == Spec => []RecordedReferencesValid
  <1>1. Init => HeapInv
    BY InitHeap
  <1>2. HeapInv /\ [Next]_vars => HeapInv'
    BY NextHeap
  <1>3. HeapInv => RecordedReferencesValid
    BY HeapInvRecorded
  <1>4. QED
    BY <1>1, <1>2, <1>3, PTL DEF Spec

\* Between collections every pointer the program can follow from its frames,
\* through any number of objects, leads to an object in allocated memory that
\* is no forwarded leftover: a collection neither loses an object in use nor
\* leaves a slot that it should have rebound.
THEOREM NoPointerDangles == Spec => []NoDanglingPointer
  <1>1. Init => HeapInv
    BY InitHeap
  <1>2. HeapInv /\ [Next]_vars => HeapInv'
    BY NextHeap
  <1>3. HeapInv => NoDanglingPointer
    <2>1. ASSUME HeapInv
          PROVE  NoDanglingPointer
      <3>1. TypeInv /\ CollectorInv
        BY <2>1 DEF HeapInv, MarkInv
      <3>2. CASE status = "run"
        BY <3>1, <3>2, HeapSafeImplies DEF CollectorInv
      <3>3. CASE status # "run"
        BY <3>3 DEF NoDanglingPointer
      <3>4. QED
        BY <3>2, <3>3
    <2>2. QED
      BY <2>1
  <1>4. QED
    BY <1>1, <1>2, <1>3, PTL DEF Spec

\* The process ends for want of memory only when there is none: whatever the
\* heap, the frames and the depth of the cascade, the objects in use in the
\* region that is cleaned take more cells than the tenured region has left (and
\* what has been estimated is neither more nor less than that), or the request
\* would not be served by an empty young region.
THEOREM MemoryIsLacking == Spec => []EndsOnlyWhenFull
  <1>1. Init => HeapInv /\ Ends
    <2>1. Init => status = "run"
      BY DEF Init
    <2>2. QED
      BY <2>1, InitHeap DEF Ends
  <1>2. HeapInv /\ Ends /\ [Next]_vars => HeapInv' /\ Ends'
    BY NextHeap, NextEnds
  <1>3. HeapInv /\ Ends => EndsOnlyWhenFull
    BY EndsImplies DEF HeapInv, MarkInv
  <1>4. QED
    BY <1>1, <1>2, <1>3, PTL DEF Spec
=============================================================================
