-------------------------- MODULE AllocationProofs --------------------------
(***************************************************************************)
(* What allocating from a region rests on.  The objects of every region    *)
(* lie end to end from its start to its cursor, in a collection as between *)
(* collections.  After a cleanup the young region is empty, and the room   *)
(* that PrepareForSequentAllocations looks for is enough for an object and *)
(* all its methods, so none of them triggers the collection that is        *)
(* forbidden meanwhile.                                                    *)
(***************************************************************************)
EXTENDS MachineProofs

----------------------------------------------------------------------------
(* One region, from address lo up to its cursor at hi *)

HeadersIn(m, lo, hi) == {a \in lo .. hi - 1 : m[a] # NoObj}
Tiled(m, lo, hi) ==
  /\ lo < hi => lo \in HeadersIn(m, lo, hi)
  /\ \A a \in HeadersIn(m, lo, hi) :
       \/ a + m[a].allocated_size = hi
       \/ a + m[a].allocated_size \in HeadersIn(m, lo, hi)
  /\ \A a, b \in HeadersIn(m, lo, hi) : a < b => a + m[a].allocated_size <= b

\* Memories with the same headers, of the same sizes, between lo and hi.
SameHeaders(m, n, lo, hi) ==
  \A a \in lo .. hi - 1 : /\ m[a] = NoObj <=> n[a] = NoObj
                          /\ m[a].allocated_size = n[a].allocated_size

\* Tiling depends on the headers and their sizes alone.
LEMMA TiledSame ==
  ASSUME NEW m, NEW n, NEW lo \in Int, NEW hi \in Int,
         SameHeaders(m, n, lo, hi), Tiled(m, lo, hi)
  PROVE  Tiled(n, lo, hi)
  <1>1. HeadersIn(m, lo, hi) = HeadersIn(n, lo, hi)
    BY DEF HeadersIn, SameHeaders
  <1>2. \A a \in HeadersIn(n, lo, hi) :
           m[a].allocated_size = n[a].allocated_size
    BY DEF HeadersIn, SameHeaders
  <1>3. QED
    BY <1>1, <1>2 DEF Tiled

\* An empty region is tiled.
LEMMA TiledEmpty ==
  ASSUME NEW m, NEW lo \in Int
  PROVE  Tiled(m, lo, lo)
  BY DEF Tiled, HeadersIn

\* Bump allocation: an object of the recorded size at the cursor, with no
\* other header under it, and the cursor advanced by that size.
LEMMA TiledAppend ==
  ASSUME NEW m, NEW n, NEW lo \in Int, NEW hi \in Int, lo <= hi,
         NEW size \in Nat \ {0},
         SameHeaders(m, n, lo, hi), Tiled(m, lo, hi),
         n[hi] # NoObj, n[hi].allocated_size = size,
         \A x \in hi + 1 .. hi + size - 1 : n[x] = NoObj
  PROVE  Tiled(n, lo, hi + size)
  <1> DEFINE old == HeadersIn(n, lo, hi)
             new == HeadersIn(n, lo, hi + size)
  <1>1. Tiled(n, lo, hi)
    BY TiledSame
  <1>2. new = old \cup {hi}
    BY DEF HeadersIn
  <1>3. \A a \in old : /\ a \in Int /\ a < hi
                       /\ \/ a + n[a].allocated_size = hi
                          \/ a + n[a].allocated_size \in old
    BY <1>1 DEF Tiled, HeadersIn
  <1>4. \A a \in old : a + n[a].allocated_size <= hi
    BY <1>3
  <1>5. lo \in new
    <2>1. CASE lo < hi
      BY <1>1, <1>2, <2>1 DEF Tiled
    <2>2. CASE lo = hi
      BY <1>2, <2>2
    <2>3. QED
      BY <2>1, <2>2
  <1>6. \A a \in new : \/ a + n[a].allocated_size = hi + size
                       \/ a + n[a].allocated_size \in new
    BY <1>2, <1>3
  <1>7. ASSUME NEW a \in new, NEW b \in new, a < b
        PROVE  a + n[a].allocated_size <= b
    <2>1. a \in old
      BY <1>2, <1>3, <1>7
    <2>2. CASE b \in old
      BY <1>1, <1>7, <2>1, <2>2 DEF Tiled
    <2>3. CASE b = hi
      BY <1>4, <2>1, <2>3
    <2>4. QED
      BY <1>2, <2>2, <2>3
  <1>8. QED
    BY <1>5, <1>6, <1>7 DEF Tiled

----------------------------------------------------------------------------
(* The regions of the heap *)

\* RegionsTiled, region by region.
LEMMA TiledForm ==
  ASSUME TypeInv
  PROVE  RegionsTiled <=>
           \A r \in RegionIds : Tiled(mem, StartPtr(r) + CURSOR, CursorPtr(r))
  <1>1. ASSUME NEW r \in RegionIds
        PROVE  StartPtr(r) + CURSOR \in Int /\ CursorPtr(r) \in Int
    BY <1>1, RegionsAssumption
       DEF StartPtr, START_PTR, CURSOR, CursorPtr, RegionIds, Tenured,
           TypeInv, CursorOK
  <1>2. \A lo, hi \in Int : (lo .. hi - 1 # {}) <=> lo < hi
    OBVIOUS
  <1>3. QED
    BY <1>1, <1>2 DEF RegionsTiled, Tiled, HeadersIn

\* Regions do not overlap.
LEMMA RegionsApart ==
  ASSUME NEW q \in RegionIds, NEW r \in RegionIds, q < r
  PROVE  StartPtr(q) + RegionSize(q) <= StartPtr(r)
  <1>1. q \in Int /\ r \in Int /\ q # Tenured /\ SURVIVORS_SIZE \in Nat
    BY RegionsAssumption DEF RegionIds, Tenured
  <1>2. RegionSize(q) = SURVIVORS_SIZE
    BY <1>1 DEF RegionSize
  <1>3. (r - 1 - q) * SURVIVORS_SIZE >= 0
    <2>1. r - 1 - q \in Nat
      BY <1>1
    <2>2. \A x, y \in Nat : x * y >= 0
      OBVIOUS
    <2>3. QED
      BY <1>1, <2>1, <2>2
  <1>4. (r - 1) * SURVIVORS_SIZE =
          (r - 1 - q) * SURVIVORS_SIZE + (q - 1) * SURVIVORS_SIZE
            + SURVIVORS_SIZE
    BY <1>1
  <1>5. QED
    BY <1>1, <1>2, <1>3, <1>4 DEF StartPtr, START_PTR

\* The cells of a region are addresses.
LEMMA CellInHeap ==
  ASSUME NEW r \in RegionIds, NEW a \in Int, RegionContains(r, a)
  PROVE  a \in Addr
  <1>1. StartPtr(r) \in Int /\ RegionSize(r) \in Nat
    BY RegionsAssumption
       DEF StartPtr, START_PTR, RegionIds, Tenured, RegionSize
  <1>2. a - StartPtr(r) \in 0 .. RegionSize(r) - 1
    BY <1>1 DEF RegionContains
  <1>3. StartPtr(r) + (a - StartPtr(r)) \in Addr
    BY <1>2, RegionInHeap
  <1>4. StartPtr(r) + (a - StartPtr(r)) = a
    BY <1>1
  <1>5. QED
    BY <1>3, <1>4

\* The cells of a region up to its cursor, and what lies in another region.
LEMMA UsedCells ==
  ASSUME TypeInv, NEW r \in RegionIds
  PROVE  /\ StartPtr(r) \in Int /\ RegionSize(r) \in Nat
         /\ CursorPtr(r) \in Int /\ cursor[r] \in Nat
         /\ StartPtr(r) + CURSOR <= CursorPtr(r)
         /\ CursorPtr(r) <= StartPtr(r) + RegionSize(r)
         /\ StartPtr(r) + CURSOR .. CursorPtr(r) - 1 \subseteq Addr
  <1>1. StartPtr(r) \in Int /\ RegionSize(r) \in Nat
    BY RegionsAssumption
       DEF StartPtr, START_PTR, RegionIds, Tenured, RegionSize
  <1>2. cursor[r] \in Nat /\ cursor[r] \in CURSOR .. RegionSize(r)
    BY DEF TypeInv, CursorOK
  <1>3. ASSUME NEW a \in StartPtr(r) + CURSOR .. CursorPtr(r) - 1
        PROVE  a \in Addr
    <2>1. a \in Int /\ RegionContains(r, a)
      BY <1>1, <1>2 DEF CURSOR, CursorPtr, RegionContains
    <2>2. QED
      BY <2>1, CellInHeap
  <1>4. QED
    BY <1>1, <1>2, <1>3 DEF CURSOR, CursorPtr

\* It is enough that every region is tiled in the next state.
LEMMA TiledNext ==
  ASSUME TypeInv',
         \A r \in RegionIds :
            Tiled(mem', StartPtr(r) + CURSOR, CursorPtr(r)')
  PROVE  RegionsTiled'
  <1>1. (RegionsTiled <=>
           \A r \in RegionIds :
             Tiled(mem, StartPtr(r) + CURSOR, CursorPtr(r)))'
    BY TiledForm, PTL
  <1>2. QED
    BY <1>1

\* A step that moves no cursor and changes no header.
LEMMA KeepTiled ==
  ASSUME TypeInv, TypeInv', RegionsTiled, UNCHANGED cursor,
         \A a \in Addr : /\ mem'[a] = NoObj <=> mem[a] = NoObj
                         /\ mem'[a].allocated_size = mem[a].allocated_size
  PROVE  RegionsTiled'
  <1>1. ASSUME NEW r \in RegionIds
        PROVE  Tiled(mem', StartPtr(r) + CURSOR, CursorPtr(r)')
    <2>1. Tiled(mem, StartPtr(r) + CURSOR, CursorPtr(r))
      BY TiledForm
    <2>2. CursorPtr(r)' = CursorPtr(r)
      BY DEF CursorPtr
    <2>3. SameHeaders(mem, mem', StartPtr(r) + CURSOR, CursorPtr(r))
      BY UsedCells DEF SameHeaders
    <2>4. StartPtr(r) + CURSOR \in Int /\ CursorPtr(r) \in Int
      BY UsedCells DEF CURSOR
    <2>5. QED
      BY <2>1, <2>2, <2>3, <2>4, TiledSame
  <1>2. QED
    BY <1>1, TiledNext

\* Bump allocation in one region: AllocBytes and the construction there.
LEMMA BumpTiled ==
  ASSUME TypeInv, TypeInv', RegionsTiled, NEW r \in RegionIds,
         NEW obj \in Object,
         cursor' = [cursor EXCEPT ![r] = @ + obj.allocated_size],
         cursor[r] + obj.allocated_size <= RegionSize(r),
         \A a \in Addr :
            LET new == Overwrite(mem, CursorPtr(r), obj)
            IN  /\ mem'[a] = NoObj <=> new[a] = NoObj
                /\ mem'[a].allocated_size = new[a].allocated_size
  PROVE  RegionsTiled'
  <1> DEFINE size == obj.allocated_size
             hi   == CursorPtr(r)
             new  == Overwrite(mem, hi, obj)
  <1>1. size \in Nat \ {0} /\ obj # NoObj
    BY DEF Object, NoObj, Kinds
  <1>2. cursor[r] \in Nat /\ hi \in Int /\ StartPtr(r) \in Int
        /\ RegionSize(r) \in Nat /\ StartPtr(r) + CURSOR <= hi
        /\ hi + size <= StartPtr(r) + RegionSize(r)
    <2> HIDE DEF size
    <2>1. QED BY <1>1, UsedCells DEF CursorPtr, size
  <1>3. CursorPtr(r)' = hi + size
    BY <1>1, <1>2 DEF CursorPtr, TypeInv, CursorOK
  <1>4. \A a \in Addr :
           new[a] = IF a = hi THEN obj
                    ELSE IF a > hi /\ a < hi + size THEN NoObj
                    ELSE mem[a]
    BY DEF Overwrite
  <1>5. StartPtr(r) + CURSOR .. hi + size - 1 \subseteq Addr
    <2> HIDE DEF size, hi
    <2>1. ASSUME NEW a \in StartPtr(r) + CURSOR .. hi + size - 1
          PROVE  a \in Addr
      BY <1>1, <1>2, <2>1, CellInHeap DEF CURSOR, RegionContains
    <2>2. QED
      BY <2>1
  <1> HIDE DEF size, hi, new
  <1>6. Tiled(mem', StartPtr(r) + CURSOR, CursorPtr(r)')
    <2>1. Tiled(mem, StartPtr(r) + CURSOR, hi)
      BY TiledForm DEF hi
    <2>2. SameHeaders(mem, mem', StartPtr(r) + CURSOR, hi)
      <3>1. ASSUME NEW a \in StartPtr(r) + CURSOR .. hi - 1
            PROVE  a \in Addr /\ new[a] = mem[a]
        BY <1>1, <1>2, <1>4, <1>5 DEF CURSOR
      <3>2. QED
        BY <3>1 DEF SameHeaders, new, hi
    <2>3. hi \in Addr
      BY <1>1, <1>2, <1>5 DEF CURSOR
    <2>4. mem'[hi] # NoObj /\ mem'[hi].allocated_size = size
      BY <1>1, <1>4, <2>3 DEF new, hi, size
    <2>5. \A x \in hi + 1 .. hi + size - 1 : mem'[x] = NoObj
      <3>1. ASSUME NEW x \in hi + 1 .. hi + size - 1
            PROVE  x \in Addr /\ new[x] = NoObj
        BY <1>1, <1>2, <1>4, <1>5 DEF CURSOR
      <3>2. QED
        BY <3>1 DEF new, hi
    <2>6. StartPtr(r) + CURSOR \in Int
      BY <1>2 DEF CURSOR
    <2>7. QED
      BY <1>1, <1>2, <1>3, <2>1, <2>2, <2>4, <2>5, <2>6, TiledAppend
  <1>7. ASSUME NEW q \in RegionIds, q # r
        PROVE  Tiled(mem', StartPtr(q) + CURSOR, CursorPtr(q)')
    <2>1. Tiled(mem, StartPtr(q) + CURSOR, CursorPtr(q))
      BY TiledForm
    <2>2. CursorPtr(q)' = CursorPtr(q)
      BY <1>7 DEF CursorPtr, TypeInv, CursorOK
    <2>3. /\ StartPtr(q) \in Int /\ CursorPtr(q) \in Int
          /\ RegionSize(q) \in Nat
          /\ CursorPtr(q) <= StartPtr(q) + RegionSize(q)
          /\ StartPtr(q) + CURSOR .. CursorPtr(q) - 1 \subseteq Addr
      BY UsedCells
    <2>4. \/ StartPtr(q) + RegionSize(q) <= StartPtr(r)
          \/ StartPtr(r) + RegionSize(r) <= StartPtr(q)
      <3>1. q < r \/ r < q
        BY <1>7, RegionsAssumption DEF RegionIds, Tenured
      <3>2. QED
        BY <3>1, RegionsApart
    <2>5. ASSUME NEW a \in StartPtr(q) + CURSOR .. CursorPtr(q) - 1
          PROVE  a \in Addr /\ new[a] = mem[a]
      <3>1. a \in Addr /\ a \in Int /\ a # hi /\ ~(a > hi /\ a < hi + size)
        BY <1>1, <1>2, <2>3, <2>4 DEF CURSOR
      <3>2. QED
        BY <1>4, <3>1
    <2>6. SameHeaders(mem, mem', StartPtr(q) + CURSOR, CursorPtr(q))
      BY <2>5 DEF SameHeaders, new, hi
    <2>7. StartPtr(q) + CURSOR \in Int
      BY <2>3 DEF CURSOR
    <2>8. QED
      BY <2>1, <2>2, <2>3, <2>6, <2>7, TiledSame
  <1>8. QED
    BY <1>6, <1>7, TiledNext

----------------------------------------------------------------------------
(* What the writes of the machine do to a header *)

\* Memory n is memory m but for register i of the object at a, which holds p.
SlotWritten(m, n, a, i, p) ==
  \A x \in Addr :
    /\ n[x] = NoObj <=> m[x] = NoObj
    /\ n[x].allocated_size = m[x].allocated_size
    /\ n[x].relocated_ptr = m[x].relocated_ptr
    /\ n[x].kind = m[x].kind
    /\ DOMAIN n[x].slots = DOMAIN m[x].slots
    /\ \A j \in DOMAIN m[x].slots :
         n[x].slots[j] = IF x = a /\ j = i THEN p ELSE m[x].slots[j]

\* Writing a register of the object at a changes that register alone.
LEMMA SlotWriteFacts ==
  ASSUME NEW m, MemOK(m), NEW a, NEW i, NEW p, NEW n,
         n = [m EXCEPT ![a].slots[i] = p]
  PROVE  SlotWritten(m, n, a, i, p)
  <1> SUFFICES ASSUME NEW x \in Addr
               PROVE  /\ n[x] = NoObj <=> m[x] = NoObj
                      /\ n[x].allocated_size = m[x].allocated_size
                      /\ n[x].relocated_ptr = m[x].relocated_ptr
                      /\ n[x].kind = m[x].kind
                      /\ DOMAIN n[x].slots = DOMAIN m[x].slots
                      /\ \A j \in DOMAIN m[x].slots :
                           n[x].slots[j] = IF x = a /\ j = i THEN p
                                                     ELSE m[x].slots[j]
    BY DEF SlotWritten
  <1>1. m \in [Addr -> Object \cup {NoObj}]
    BY DEF MemOK
  <1>2. CASE x # a
    BY <1>1, <1>2
  <1>3. CASE x = a
    <2> DEFINE q == [m[x].slots EXCEPT ![i] = p]
    <2>1. n[x] = [m[x] EXCEPT !.slots = q]
      BY <1>1, <1>3
    <2>2. DOMAIN q = DOMAIN m[x].slots
          /\ \A j \in DOMAIN m[x].slots :
               q[j] = IF j = i THEN p ELSE m[x].slots[j]
      OBVIOUS
    <2>3. CASE m[x] \in Object
      <3> HIDE DEF q
      <3>1. n[x].kind = m[x].kind /\ m[x].kind \in Kinds
            /\ n[x].allocated_size = m[x].allocated_size
            /\ n[x].relocated_ptr = m[x].relocated_ptr
            /\ n[x].slots = q
        BY <2>1, <2>3 DEF Object
      <3>2. n[x] # NoObj /\ m[x] # NoObj
        BY <3>1 DEF NoObj, Kinds
      <3>3. QED
        BY <1>3, <2>2, <3>1, <3>2
    <2>4. CASE m[x] = NoObj
      <3>1. m[x].slots = <<>>
        BY <2>4 DEF NoObj
      <3>2. q = <<>>
        BY <3>1
      <3>3. n[x] = NoObj
        BY <2>1, <2>4, <3>2 DEF NoObj
      <3>4. QED
        BY <2>4, <3>1, <3>3
    <2>5. QED
      BY <1>1, <2>3, <2>4
  <1>4. QED
    BY <1>2, <1>3

\* A register write keeps the regions tiled.
LEMMA SlotWriteTiled ==
  ASSUME TypeInv, TypeInv', RegionsTiled, UNCHANGED cursor,
         NEW a, NEW i, NEW p, mem' = [mem EXCEPT ![a].slots[i] = p]
  PROVE  RegionsTiled'
  <1>1. MemOK(mem)
    BY DEF TypeInv
  <1>2. QED
    BY <1>1, SlotWriteFacts, KeepTiled DEF SlotWritten

\* A step that changes neither memory nor cursors.
LEMMA StillTiled ==
  ASSUME TypeInv, TypeInv', RegionsTiled, UNCHANGED <<mem, cursor>>
  PROVE  RegionsTiled'
  BY KeepTiled

----------------------------------------------------------------------------
(* The steps of the machine *)

\* Without room nothing is placed: a stage starts or the process ends.
LEMMA NoRoomTiled ==
  ASSUME TypeInv, TypeInv', RegionsTiled, NEW size, NoRoom(size)
  PROVE  RegionsTiled'
  <1>1. UNCHANGED <<mem, cursor>>
    BY DEF NoRoom, CleanupThis, BeginStage, Halt, Stop
  <1>2. QED
    BY <1>1, StillTiled

\* Function::New, String::New and Array::New place an object of the size its
\* header records.
LEMMA NewSimpleTiled ==
  ASSUME TypeInv, TypeInv', RegionsTiled, NewSimple
  PROVE  RegionsTiled'
  <1> DEFINE obj  == Fresh(request.kind, request.n)
             size == HEADER + request.n
  <1>1. Waiting("storage")
    BY DEF NewSimple
  <1>2. request.kind \in Kinds /\ request.n \in Nat
    BY <1>1, WaitingType
  <1>3. CASE NoRoom(size)
    BY <1>3, NoRoomTiled
  <1>4. CASE /\ Place(size, NoRequest)
             /\ mem' = Overwrite(mem, CursorPtr(Young), obj)
    <2>1. obj \in Object /\ obj.allocated_size = size
      BY <1>2, FreshType DEF Fresh
    <2>2. Young \in RegionIds
      BY RegionsAssumption DEF Young, RegionIds, Tenured
    <2>3. /\ cursor' = [cursor EXCEPT ![Young] = @ + size]
          /\ cursor[Young] + size <= RegionSize(Young)
      BY <1>4 DEF Place, Fits
    <2> HIDE DEF obj, size
    <2>4. QED
      BY <1>4, <2>1, <2>2, <2>3, BumpTiled
  <1>5. QED
    BY <1>3, <1>4 DEF NewSimple

\* So does the storage of an object in Object::New ...
LEMMA NewObjectStorageTiled ==
  ASSUME TypeInv, TypeInv', RegionsTiled, NewObjectStorage
  PROVE  RegionsTiled'
  <1> DEFINE obj  == Fresh("OBJ", request.n)
             size == HEADER + request.n
             req  == [request EXCEPT !.step = "methods", !.cleaned = FALSE,
                                     !.obj = CursorPtr(Young)]
  <1>1. Waiting("storage")
    BY DEF NewObjectStorage
  <1>2. request.n \in Nat
    BY <1>1, WaitingType
  <1>3. CASE NoRoom(size)
    BY <1>3, NoRoomTiled
  <1>4. CASE /\ Place(size, req)
             /\ mem' = Overwrite(mem, CursorPtr(Young), obj)
    <2>1. obj \in Object /\ obj.allocated_size = size
      BY <1>2, FreshType DEF Fresh, Kinds
    <2>2. Young \in RegionIds
      BY RegionsAssumption DEF Young, RegionIds, Tenured
    <2>3. /\ cursor' = [cursor EXCEPT ![Young] = @ + size]
          /\ cursor[Young] + size <= RegionSize(Young)
      BY <1>4 DEF Place, Fits
    <2> HIDE DEF obj, size, req
    <2>4. QED
      BY <1>4, <2>1, <2>2, <2>3, BumpTiled
  <1>5. QED
    BY <1>3, <1>4 DEF NewObjectStorage

\* ... and each of its methods, whose pointer goes into a register.
LEMMA NewMethodTiled ==
  ASSUME TypeInv, TypeInv', RegionsTiled, NewMethod
  PROVE  RegionsTiled'
  <1> DEFINE obj   == Fresh("FUNC", FUNC_SLOTS)
             size  == HEADER + FUNC_SLOTS
             field == request.n - request.methods + request.done + 1
             req   == [request EXCEPT !.done = @ + 1, !.cleaned = FALSE]
             new   == Overwrite(mem, CursorPtr(Young), obj)
  <1>1. CASE NoRoom(size)
    BY <1>1, NoRoomTiled
  <1>2. CASE /\ Place(size, req)
             /\ mem' = [new EXCEPT ![request.obj].slots[field] =
                                      CursorPtr(Young)]
    <2>1. FUNC_SLOTS \in Nat
      BY FrameAssumption DEF FUNC_SLOTS
    <2>2. obj \in Object /\ obj.allocated_size = size
          /\ size \in Nat \ {0}
      BY <2>1, FreshType DEF Fresh, Kinds, HEADER
    <2>3. Young \in RegionIds
      BY RegionsAssumption DEF Young, RegionIds, Tenured
    <2>4. /\ cursor' = [cursor EXCEPT ![Young] = @ + size]
          /\ cursor[Young] + size <= RegionSize(Young)
      BY <1>2 DEF Place, Fits
    <2> HIDE DEF obj, size, req, field
    <2>5. CursorPtr(Young) \in Addr
      <3>1. CursorPtr(Young) \in Int /\ RegionContains(Young, CursorPtr(Young))
        BY <2>2, <2>3, <2>4, UsedCells
           DEF RegionContains, CursorPtr, CURSOR
      <3>2. QED
        BY <2>3, <3>1, CellInHeap
    <2>6. MemOK(new)
      BY <2>2, <2>5, OverwriteType DEF TypeInv, MemOK
    <2>7. \A a \in Addr : /\ mem'[a] = NoObj <=> new[a] = NoObj
                          /\ mem'[a].allocated_size = new[a].allocated_size
      <3> HIDE DEF new
      <3>1. QED BY <1>2, <2>6, SlotWriteFacts DEF SlotWritten
    <2>8. QED
      BY <2>2, <2>3, <2>4, <2>7, BumpTiled
  <1>3. QED
    BY <1>1, <1>2 DEF NewMethod

\* MoveObjects places copies of the size the original's header records; the
\* original keeps its header.
LEMMA MoveObjectTiled ==
  ASSUME TypeInv, TypeInv', RegionsTiled, MoveObject
  PROVE  RegionsTiled'
  <1> DEFINE obj     == Last(Top.target_objects)
             new_ptr == CursorPtr(ToSpace)
             copied  == Overwrite(mem, new_ptr, mem[obj])
  <1>1. CASE Halt("ASSERT") \/ Halt("GC_OOM")
    BY <1>1, StillTiled DEF Halt
  <1>2. CASE /\ mem[obj] # NoObj
             /\ cursor[ToSpace] + mem[obj].allocated_size
                  <= RegionSize(ToSpace)
             /\ cursor' = [cursor EXCEPT ![ToSpace] =
                             @ + mem[obj].allocated_size]
             /\ mem' = [copied EXCEPT ![obj].relocated_ptr = new_ptr]
    <2>1. /\ InGC /\ Top \in Stage /\ InItsRegion(Top, Depth)
          /\ ToSpace \in RegionIds /\ Top.target_objects # <<>>
      BY TopType DEF MoveObject, Moving, TypeInv
    <2>2. obj \in Addr /\ RegionContains(Depth, obj)
      <3>1. Top.target_objects \in Seq(Addr)
        BY <2>1 DEF Stage
      <3>2. Len(Top.target_objects) \in DOMAIN Top.target_objects
        BY <2>1, <3>1
      <3>3. QED
        BY <2>1, <3>1, <3>2 DEF Last, InItsRegion
    <2>3. mem[obj] \in Object
      BY <1>2, <2>2, CellType DEF TypeInv
    <2>4. obj < StartPtr(ToSpace) /\ obj \in Int
      BY <2>1, <2>2, BelowToSpace DEF Addr
    <2>5. new_ptr \in Int /\ new_ptr \in Addr /\ obj < new_ptr
      <3>1. mem[obj].allocated_size \in Nat \ {0}
        BY <2>3 DEF Object
      <3> HIDE DEF obj
      <3>2. CursorPtr(ToSpace) \in Int
            /\ RegionContains(ToSpace, CursorPtr(ToSpace))
            /\ obj < CursorPtr(ToSpace)
        BY <1>2, <2>1, <2>4, <3>1, UsedCells
           DEF RegionContains, CursorPtr, CURSOR
      <3>3. QED
        BY <2>1, <3>2, CellInHeap
    <2> HIDE DEF obj, new_ptr
    <2>6. copied \in [Addr -> Object \cup {NoObj}] /\ copied[obj] = mem[obj]
      <3>1. copied \in [Addr -> Object \cup {NoObj}]
        BY <2>3, <2>5, OverwriteType DEF TypeInv, MemOK
      <3>2. obj # new_ptr /\ ~(obj > new_ptr)
        BY <2>4, <2>5
      <3>3. QED
        BY <2>2, <3>1, <3>2 DEF Overwrite
    <2> HIDE DEF copied
    <2>7. ASSUME NEW a \in Addr
          PROVE  /\ mem'[a] = NoObj <=> copied[a] = NoObj
                 /\ mem'[a].allocated_size = copied[a].allocated_size
      <3>1. CASE a # obj
        BY <1>2, <2>6, <3>1
      <3>2. CASE a = obj
        <4>1. copied[a] \in Object
          BY <2>3, <2>6, <3>2
        <4>2. mem'[a] = [copied[a] EXCEPT !.relocated_ptr = new_ptr]
          BY <1>2, <2>6, <3>2
        <4>3. mem'[a].kind \in Kinds /\ copied[a].kind \in Kinds
              /\ mem'[a].allocated_size = copied[a].allocated_size
          BY <4>1, <4>2 DEF Object
        <4>4. QED
          BY <4>3 DEF NoObj, Kinds
      <3>3. QED
        BY <3>1, <3>2
    <2>8. QED
      BY <1>2, <2>1, <2>3, <2>7, BumpTiled DEF copied, new_ptr
  <1>3. QED
    BY <1>1, <1>2 DEF MoveObject

\* RebindLinks writes a root, or a register of an object.
LEMMA RebindLinkTiled ==
  ASSUME TypeInv, TypeInv', RegionsTiled, RebindLink
  PROVE  RegionsTiled'
  <1> DEFINE s == Last(Top.references_to_targets)
  <1>1. CASE mem' = mem /\ UNCHANGED cursor
    BY <1>1, StillTiled
  <1>2. CASE /\ mem' = [mem EXCEPT ![CurrentHolder(s.holder)].slots[s.idx] =
                          mem[Load(s)].relocated_ptr]
             /\ UNCHANGED cursor
    BY <1>2, SlotWriteTiled
  <1>3. QED
    BY <1>1, <1>2 DEF RebindLink, Halt

\* The reset of a region empties it; the others keep what lies below their
\* cursors.
LEMMA FinalizeStageTiled ==
  ASSUME TypeInv, TypeInv', RegionsTiled, FinalizeStage
  PROVE  RegionsTiled'
  <1>1. InGC /\ Depth \in RegionIds
        /\ cursor' = [cursor EXCEPT ![Depth] = CURSOR]
    BY TopType, RegionsAssumption
       DEF FinalizeStage, Moving, TypeInv, RegionIds, Tenured
  <1>2. ASSUME NEW r \in RegionIds
        PROVE  Tiled(mem', StartPtr(r) + CURSOR, CursorPtr(r)')
    <2>1. /\ StartPtr(r) + CURSOR \in Int /\ CursorPtr(r) \in Int
          /\ StartPtr(r) \in Int /\ RegionSize(r) \in Nat
          /\ CursorPtr(r) <= StartPtr(r) + RegionSize(r)
          /\ StartPtr(r) + CURSOR .. CursorPtr(r) - 1 \subseteq Addr
      BY UsedCells DEF CURSOR
    <2>2. CASE r = Depth
      <3>1. CursorPtr(r)' = StartPtr(r) + CURSOR
        BY <1>1, <2>2 DEF CursorPtr, TypeInv, CursorOK
      <3>2. QED
        BY <2>1, <3>1, TiledEmpty
    <2>3. CASE r # Depth
      <3>1. cursor'[r] = cursor[r] /\ CursorPtr(r)' = CursorPtr(r)
        BY <1>1, <2>3 DEF CursorPtr, TypeInv, CursorOK
      <3>2. ASSUME NEW a \in StartPtr(r) + CURSOR .. CursorPtr(r) - 1
            PROVE  mem'[a] = mem[a]
        <4>1. a \in Addr /\ RegionContains(r, a)
              /\ a < StartPtr(r) + cursor'[r]
          BY <2>1, <3>1 DEF RegionContains, CursorPtr, CURSOR
        <4>2. QED
          BY <4>1 DEF FinalizeStage
      <3>3. SameHeaders(mem, mem', StartPtr(r) + CURSOR, CursorPtr(r))
        BY <3>2 DEF SameHeaders
      <3>4. Tiled(mem, StartPtr(r) + CURSOR, CursorPtr(r))
        BY TiledForm
      <3>5. QED
        BY <2>1, <3>1, <3>3, <3>4, TiledSame
    <2>4. QED
      BY <2>2, <2>3
  <1>3. QED
    BY <1>2, TiledNext

\* Instructions place nothing: they write roots and registers.
LEMMA InstructionTiled ==
  ASSUME TypeInv, TypeInv', RegionsTiled, Instruction
  PROVE  RegionsTiled'
  <1>1. \/ UNCHANGED <<mem, cursor>>
        \/ \E a, i, p : WriteSlot(a, i, p)
        \/ GETELEM_OBJ
    BY DEF Instruction, LDAI_NUM, LDAI_FUNC, LDAI_STR, LDAI_OBJ, NEWARR, LDA,
           STA, STNULL, MOV, GETARG, GETTHIS, SETARG, GETRET0, SETRET0, CALL,
           RET, SETELEM_ARR, GETELEM_ARR, SETELEM_OBJ, NoOverload, WriteRoot,
           ReadInto, Await, gcVars, Rest, Stop, Halt
  <1>2. CASE UNCHANGED <<mem, cursor>>
    BY <1>2, StillTiled
  <1>3. CASE \E a, i, p : WriteSlot(a, i, p)
    BY <1>3, SlotWriteTiled DEF WriteSlot, Rest
  <1>4. CASE GETELEM_OBJ
    <2>1. UNCHANGED cursor
      BY <1>4 DEF GETELEM_OBJ, Rest, Stop, Halt
    <2>2. \/ mem' = mem
          \/ \E a, i, p : mem' = [mem EXCEPT ![a].slots[i] = p]
      BY <1>4 DEF GETELEM_OBJ, Stop, Halt
    <2>3. QED
      BY <2>1, <2>2, SlotWriteTiled, StillTiled
  <1>5. QED
    BY <1>1, <1>2, <1>3, <1>4

----------------------------------------------------------------------------
\* Interpreter::Invoke places main's function object, and nothing else.
LEMMA InitTiled ==
  ASSUME Init
  PROVE  RegionsTiled
  <1>1. TypeInv
    BY InitType
  <1>2. FUNC_SLOTS \in Nat /\ Main \in Object
        /\ Main.allocated_size = 1 + FUNC_SLOTS
    BY FreshType, FrameAssumption
       DEF FUNC_SLOTS, Main, Kinds, Fresh, HEADER
  <1>3. ASSUME NEW r \in RegionIds
        PROVE  Tiled(mem, StartPtr(r) + CURSOR, CursorPtr(r))
    <2>1. /\ StartPtr(r) + CURSOR \in Int /\ CursorPtr(r) \in Int
          /\ StartPtr(r) \in Int
          /\ StartPtr(r) + CURSOR .. CursorPtr(r) - 1 \subseteq Addr
      BY <1>1, UsedCells DEF CURSOR
    <2>2. CASE r # Young
      <3>1. CursorPtr(r) = StartPtr(r) + CURSOR
        BY <2>2 DEF Init, CursorPtr
      <3>2. QED
        BY <2>1, <3>1, TiledEmpty
    <2>3. CASE r = Young
      <3> DEFINE lo == StartPtr(r) + CURSOR
                 size == Main.allocated_size
      <3>1. CursorPtr(r) = lo + size
        BY <1>2, <2>1, <2>3 DEF Init, CursorPtr, CURSOR
      <3>2. lo = MainPtr
        BY <2>3 DEF MainPtr
      <3>3. lo \in Addr
        BY <1>2, <2>1, <3>1
      <3>4. mem[lo] # NoObj /\ mem[lo].allocated_size = size
        BY <1>2, <3>2, <3>3 DEF Init, Object, NoObj, Kinds
      <3>5. \A x \in lo + 1 .. lo + size - 1 : mem[x] = NoObj
        <4>1. ASSUME NEW x \in lo + 1 .. lo + size - 1
              PROVE  x \in Addr /\ x # lo
          BY <1>2, <2>1, <3>1
        <4>2. QED
          BY <3>2, <4>1 DEF Init
      <3>6. Tiled(mem, lo, lo)
        BY <2>1, TiledEmpty
      <3>7. SameHeaders(mem, mem, lo, lo)
        BY DEF SameHeaders
      <3>8. size \in Nat \ {0} /\ lo \in Int
        BY <1>2, <2>1
      <3> HIDE DEF lo, size
      <3>9. Tiled(mem, lo, lo + size)
        BY <3>4, <3>5, <3>6, <3>7, <3>8, TiledAppend
      <3>10. QED
        BY <3>1, <3>9 DEF lo
    <2>4. QED
      BY <2>2, <2>3
  <1>4. QED
    BY <1>1, <1>3, TiledForm

\* Every step of the machine keeps the regions tiled.
LEMMA NextTiled ==
  ASSUME TypeInv, RegionsTiled, [Next]_vars
  PROVE  RegionsTiled'
  <1>1. TypeInv'
    BY NextType
  <1>2. CASE Instruction
    BY <1>1, <1>2, InstructionTiled
  <1>3. CASE AllocStep
    <2>1. CASE PrepareForSequentAllocations \/ EndSequentAllocations
      BY <1>1, <2>1, StillTiled
         DEF PrepareForSequentAllocations, EndSequentAllocations, CleanupThis,
             BeginStage, Halt
    <2>2. QED
      BY <1>1, <1>3, <2>1, NewSimpleTiled, NewObjectStorageTiled,
         NewMethodTiled
         DEF AllocStep
  <1>4. CASE GC
    <2>1. CASE MarkFrame \/ MarkAndFetchRecursively \/ StartMoving
               \/ CleanupNextRegion \/ TenuredIsFull
               \/ FixInvalidDanglingReferences
      <3>1. UNCHANGED <<mem, cursor>>
        BY <2>1 DEF MarkFrame, MarkAndFetchRecursively, StartMoving,
             CleanupNextRegion, TenuredIsFull, CleanupThis, BeginStage, Halt,
             FixInvalidDanglingReferences
      <3>2. QED
        BY <1>1, <3>1, StillTiled
    <2>2. QED
      BY <1>1, <1>4, <2>1, MoveObjectTiled, RebindLinkTiled,
         FinalizeStageTiled
         DEF GC, GCStep
  <1>5. CASE Ended \/ UNCHANGED vars
    BY <1>1, <1>5, StillTiled DEF Ended, vars
  <1>6. QED
    BY <1>2, <1>3, <1>4, <1>5 DEF Next

\* For every heap, every program and every cascade of collections: the
\* objects of each region lie end to end from its start to its cursor, each
\* of the size its header records, so that none overlaps another or crosses
\* the end of its region.
THEOREM RegionsStayTiled == Spec => []RegionsTiled
  <1>1. Init => TypeInv /\ RegionsTiled
    BY InitType, InitTiled
  <1>2. TypeInv /\ RegionsTiled /\ [Next]_vars => (TypeInv /\ RegionsTiled)'
    BY NextType, NextTiled
  <1>3. QED
    BY <1>1, <1>2, PTL DEF Spec

----------------------------------------------------------------------------
(* The allocations under way *)


\* An object is being put together: its storage or its methods.
Sequent == /\ request # NoRequest
           /\ request.kind = "OBJ"
           /\ request.step # "prepare"

\* Cells it still needs.
StillNeeded ==
  (request.methods - request.done) * (HEADER + FUNC_SLOTS)
    + IF request.step = "storage" THEN HEADER + request.n ELSE 0

RequestShape ==
  request # NoRequest =>
    /\ request.kind # "OBJ" => request.step = "storage"
    /\ request.step # "methods" => request.obj = nullptr /\ request.done = 0
    /\ request.done <= request.methods

\* The cleanup a request caused has emptied the young region.
CleanedIsEmpty ==
  request # NoRequest /\ request.cleaned /\ ~InGC => cursor[Young] = CURSOR

\* A trigger is forbidden only while an object is put together; no
\* collection is under way then and what it needs is there.
ForbiddenIsServed ==
  /\ is_trigger_forbidden => Sequent
  /\ Sequent => /\ ~InGC /\ ~request.cleaned
                /\ RemainingSpace(Young) > StillNeeded

\* Only a request that was not served collects.
CollectsOnRequest == InGC => request # NoRequest /\ request.cleaned

RequestInv ==
  status = "run" =>
    RequestShape /\ CleanedIsEmpty /\ ForbiddenIsServed /\ CollectsOnRequest

\* A process that has ended has nothing left to show.
LEMMA HaltRequest ==
  ASSUME NEW why, why # "run", Halt(why)
  PROVE  RequestInv'
  BY DEF Halt, RequestInv

\* Steps that leave the request and the trigger alone.
LEMMA SameRequest ==
  ASSUME RequestInv, status = "run", ~InGC, ~InGC', request = NoRequest,
         UNCHANGED <<request, is_trigger_forbidden, status>>
  PROVE  RequestInv'
  BY DEF RequestInv, RequestShape, CleanedIsEmpty, ForbiddenIsServed,
         CollectsOnRequest, Sequent

\* No object is put together in a collection, and none is asked for.
LEMMA InCollection ==
  ASSUME RequestInv, status = "run", InGC
  PROVE  /\ request # NoRequest /\ request.cleaned /\ ~Sequent
         /\ ~is_trigger_forbidden
         /\ RequestShape
  BY DEF RequestInv, ForbiddenIsServed, CollectsOnRequest

\* A step inside a collection.
LEMMA StillCollecting ==
  ASSUME RequestInv, status = "run", InGC, InGC',
         UNCHANGED <<request, is_trigger_forbidden, status>>
  PROVE  RequestInv'
  <1>1. Sequent' = Sequent /\ RequestShape' = RequestShape
    BY DEF Sequent, RequestShape
  <1>2. QED
    BY <1>1, InCollection
       DEF RequestInv, CleanedIsEmpty, ForbiddenIsServed, CollectsOnRequest

----------------------------------------------------------------------------
(* Allocations *)

\* A request waits outside a collection, with the facts about it.
LEMMA WaitingRequest ==
  ASSUME TypeInv, RequestInv, NEW step, Waiting(step)
  PROVE  /\ status = "run" /\ ~InGC /\ request # NoRequest
         /\ request.step = step /\ request \in Request
         /\ RequestShape /\ CleanedIsEmpty /\ ForbiddenIsServed
  <1>1. request \in Request
    BY WaitingType
  <1>2. QED
    BY <1>1 DEF Waiting, Running, RequestInv

\* A cleanup while none is forbidden starts a stage.
LEMMA CleanupRequest ==
  ASSUME TypeInv, RequestInv, NEW step, Waiting(step), ~Sequent,
         CleanupThis(stages_stack),
         request' = [request EXCEPT !.cleaned = TRUE]
  PROVE  RequestInv' /\ status' = "run"
  <1>1. /\ status = "run" /\ request \in Request /\ RequestShape
        /\ request # NoRequest /\ is_trigger_forbidden = FALSE
    BY WaitingRequest DEF ForbiddenIsServed
  <1>2. BeginStage(stages_stack)
    BY <1>1 DEF CleanupThis
  <1>3. /\ InGC' /\ status' = "run" /\ is_trigger_forbidden' = FALSE
    <2>1. stages_stack \in Seq(Stage)
      BY DEF TypeInv, StagesOK
    <2>2. Len(Append(stages_stack, NewStage)) = Len(stages_stack) + 1
      BY <2>1
    <2>3. Len(stages_stack) \in Nat
      BY <2>1
    <2>4. QED
      BY <1>1, <1>2, <2>2, <2>3 DEF BeginStage, InGC, Depth
  <1>4. /\ request'.kind = request.kind /\ request'.step = request.step
        /\ request'.obj = request.obj /\ request'.done = request.done
        /\ request'.methods = request.methods /\ request'.cleaned = TRUE
    BY <1>1 DEF Request
  <1>5. request' # NoRequest
    BY <1>1, <1>4 DEF NoRequest, Request, Kinds
  <1>6. ~Sequent' /\ RequestShape'
    BY <1>1, <1>4, <1>5 DEF Sequent, RequestShape
  <1>7. QED
    BY <1>3, <1>4, <1>5, <1>6
       DEF RequestInv, CleanedIsEmpty, ForbiddenIsServed, CollectsOnRequest

\* A request that is not for an object: the cleanup it causes is allowed, and
\* afterwards the region is empty.
LEMMA NoRoomRequest ==
  ASSUME TypeInv, RequestInv, NEW step, Waiting(step), ~Sequent, NEW size,
         NoRoom(size)
  PROVE  RequestInv' /\ status' \in {"run", "OOM"}
  <1>1. CleanedIsEmpty /\ request # NoRequest /\ ~InGC
    BY WaitingRequest
  <1>2. CASE /\ CleanupThis(stages_stack)
             /\ request' = [request EXCEPT !.cleaned = TRUE]
    BY <1>2, CleanupRequest
  <1>3. CASE request.cleaned /\ RemainingSpace(Young) # MAX_ALLOC_SIZE(Young)
    BY <1>1, <1>3 DEF CleanedIsEmpty, RemainingSpace, MAX_ALLOC_SIZE
  <1>4. CASE Stop("OOM")
    <2>1. Halt("OOM") /\ status' = "OOM"
      BY <1>4 DEF Stop, Halt
    <2>2. QED
      BY <2>1, HaltRequest
  <1>5. QED
    BY <1>2, <1>3, <1>4 DEF NoRoom

\* An object that is put together always finds room.
LEMMA SequentHasRoom ==
  ASSUME TypeInv, RequestInv, NEW step, Waiting(step), Sequent,
         NEW size \in Nat, size <= StillNeeded
  PROVE  ~NoRoom(size)
  <1>1. ~request.cleaned /\ RemainingSpace(Young) > StillNeeded
    BY WaitingRequest DEF ForbiddenIsServed
  <1>2. StillNeeded \in Int /\ RemainingSpace(Young) \in Int
    <2>1. request \in Request
      BY WaitingRequest
    <2>2. HEADER + FUNC_SLOTS \in Nat
      BY FrameAssumption DEF HEADER, FUNC_SLOTS
    <2>3. StillNeeded \in Int
      BY <2>1, <2>2 DEF StillNeeded, Request, HEADER
    <2>4. RemainingSpace(Young) \in Int
      BY RegionsAssumption
         DEF RemainingSpace, RegionSize, TypeInv, CursorOK, Young, RegionIds,
             Tenured
    <2>5. QED
      BY <2>3, <2>4
  <1>3. ~(RemainingSpace(Young) < size)
    BY <1>1, <1>2
  <1>4. QED
    BY <1>1, <1>3 DEF NoRoom

\* Function::New, String::New and Array::New.
LEMMA NewSimpleRequest ==
  ASSUME TypeInv, RequestInv, NewSimple
  PROVE  RequestInv' /\ status' \in {"run", "OOM"}
  <1> DEFINE size == HEADER + request.n
  <1>1. Waiting("storage") /\ request.kind # "OBJ"
    BY DEF NewSimple
  <1>2. ~Sequent /\ status = "run" /\ ~InGC /\ ForbiddenIsServed
    BY <1>1, WaitingRequest DEF Sequent
  <1>3. CASE NoRoom(size)
    <2> HIDE DEF size
    <2>1. QED BY <1>1, <1>2, <1>3, NoRoomRequest
  <1>4. CASE Place(size, NoRequest)
    <2>1. /\ request' = NoRequest /\ ~InGC' /\ status' = "run"
          /\ ~is_trigger_forbidden'
      BY <1>2, <1>4 DEF Place, InGC, Depth, ForbiddenIsServed
    <2>2. QED
      BY <2>1 DEF RequestInv, RequestShape, CleanedIsEmpty,
                  ForbiddenIsServed, CollectsOnRequest, Sequent
  <1>5. QED
    BY <1>3, <1>4 DEF NewSimple

\* PrepareForSequentAllocations leaves the room that is needed.
LEMMA PrepareRequest ==
  ASSUME TypeInv, RequestInv, PrepareForSequentAllocations
  PROVE  RequestInv' /\ status' \in {"run", "SEQUENT_TOO_BIG"}
  <1>1. Waiting("prepare")
    BY DEF PrepareForSequentAllocations
  <1>2. /\ ~Sequent /\ status = "run" /\ ~InGC /\ request \in Request
        /\ request # NoRequest /\ request.step = "prepare" /\ RequestShape
    BY <1>1, WaitingRequest DEF Sequent
  <1>3. CASE /\ CleanupThis(stages_stack)
             /\ request' = [request EXCEPT !.cleaned = TRUE]
    BY <1>1, <1>2, <1>3, CleanupRequest
  <1>4. CASE Halt("SEQUENT_TOO_BIG")
    <2>1. status' = "SEQUENT_TOO_BIG"
      BY <1>4 DEF Halt
    <2>2. QED
      BY <1>4, <2>1, HaltRequest
  <1>5. CASE /\ RemainingSpace(Young) > SequentSize
             /\ request' = [request EXCEPT !.step = "storage",
                                           !.cleaned = FALSE]
             /\ UNCHANGED <<mem, cursor, state_stack, stages_stack, marked,
                            work, status>>
    <2>1. /\ request'.kind = request.kind /\ request'.step = "storage"
          /\ request'.obj = request.obj /\ request'.done = request.done
          /\ request'.methods = request.methods /\ request'.cleaned = FALSE
          /\ request'.n = request.n
      BY <1>2, <1>5 DEF Request
    <2>2. /\ request.kind = "OBJ" /\ request.obj = nullptr
          /\ request.done = 0 /\ request.methods \in Nat /\ request.n \in Nat
      BY <1>2 DEF RequestShape, Request
    <2>3. request' # NoRequest
      BY <2>1, <2>2 DEF NoRequest
    <2>4. StillNeeded' = SequentSize
      <3>1. FUNC_SLOTS \in Nat
        BY FrameAssumption DEF FUNC_SLOTS
      <3> DEFINE K == HEADER + FUNC_SLOTS
      <3>2. K \in Nat
        BY <3>1 DEF HEADER
      <3>3. (request.methods - 0) * K = request.methods * K
            /\ request.methods * K \in Int
        BY <2>2, <3>2
      <3>4. StillNeeded' = request.methods * K + (HEADER + request.n)
        <4> HIDE DEF K
        <4>1. StillNeeded' = (request.methods - 0) * K + (HEADER + request.n)
          BY <2>1, <2>2 DEF StillNeeded, K
        <4>2. QED
          BY <3>3, <4>1
      <3>5. SequentSize = HEADER + request.n + request.methods * K
        BY DEF SequentSize
      <3> HIDE DEF K
      <3>6. QED
        BY <2>2, <3>3, <3>4, <3>5 DEF HEADER
    <2>5. RemainingSpace(Young)' = RemainingSpace(Young) /\ ~InGC'
          /\ status' = "run"
      BY <1>2, <1>5 DEF RemainingSpace, InGC, Depth
    <2>6. Sequent' /\ RequestShape'
      BY <2>1, <2>2, <2>3 DEF Sequent, RequestShape
    <2>7. QED
      BY <1>5, <2>1, <2>4, <2>5, <2>6
         DEF RequestInv, CleanedIsEmpty, ForbiddenIsServed, CollectsOnRequest
  <1>6. QED
    BY <1>3, <1>4, <1>5 DEF PrepareForSequentAllocations

\* Placing a part of an object uses up what was reserved for that part.
LEMMA PlaceSequent ==
  ASSUME TypeInv, RequestInv, NEW step, Waiting(step), Sequent,
         NEW size \in Nat, Place(size, request'), request' \in Request,
         request'.kind = "OBJ", request'.step = "methods",
         ~request'.cleaned, request'.done <= request'.methods,
         StillNeeded' = StillNeeded - size,
         StillNeeded \in Int
  PROVE  RequestInv' /\ status' = "run"
  <1>1. /\ status = "run" /\ ~InGC
        /\ RemainingSpace(Young) > StillNeeded
    BY WaitingRequest DEF ForbiddenIsServed
  <1>2. /\ RemainingSpace(Young) \in Int
        /\ RemainingSpace(Young)' = RemainingSpace(Young) - size
    BY RegionsAssumption
       DEF Place, RemainingSpace, RegionSize, TypeInv, CursorOK, Young,
           RegionIds, Tenured
  <1>3. RemainingSpace(Young)' > StillNeeded'
    BY <1>1, <1>2
  <1>4. ~InGC' /\ status' = "run"
    BY <1>1 DEF Place, InGC, Depth
  <1>5. request' # NoRequest
    BY DEF NoRequest
  <1>6. Sequent' /\ RequestShape'
    BY <1>5 DEF Sequent, RequestShape
  <1>7. QED
    BY <1>3, <1>4, <1>6
       DEF RequestInv, CleanedIsEmpty, ForbiddenIsServed, CollectsOnRequest

\* The storage of the object itself.
LEMMA NewObjectStorageRequest ==
  ASSUME TypeInv, RequestInv, NewObjectStorage
  PROVE  RequestInv' /\ status' = "run"
  <1> DEFINE size == HEADER + request.n
             req  == [request EXCEPT !.step = "methods", !.cleaned = FALSE,
                                     !.obj = CursorPtr(Young)]
             K    == HEADER + FUNC_SLOTS
  <1>1. Waiting("storage") /\ request.kind = "OBJ"
    BY DEF NewObjectStorage
  <1>2. /\ request \in Request /\ request # NoRequest /\ RequestShape
        /\ request.step = "storage" /\ Sequent
    BY <1>1, WaitingRequest DEF Sequent
  <1>3. K \in Nat /\ size \in Nat /\ request.methods - request.done \in Nat
    BY <1>2, FrameAssumption
       DEF FUNC_SLOTS, HEADER, Request, RequestShape
  <1>4. StillNeeded = (request.methods - request.done) * K + size
        /\ (request.methods - request.done) * K \in Nat
    BY <1>2, <1>3 DEF StillNeeded
  <1>5. ~NoRoom(size)
    <2> HIDE DEF size, K
    <2>1. size <= StillNeeded
      BY <1>3, <1>4
    <2>2. QED
      BY <1>1, <1>2, <1>3, <2>1, SequentHasRoom
  <1>6. Place(size, req)
    BY <1>5 DEF NewObjectStorage
  <1>7. request' = req
    BY <1>6 DEF Place
  <1>8. /\ request'.kind = "OBJ" /\ request'.step = "methods"
        /\ request'.cleaned = FALSE /\ request'.done = request.done
        /\ request'.methods = request.methods
        /\ request' \in Request
    <2>1. request' \in Request
      <3>1. TypeInv'
        BY NewObjectStorageType
      <3>2. request'.kind = request.kind
        BY <1>2, <1>7 DEF Request
      <3>3. request' # NoRequest
        BY <1>1, <3>2 DEF NoRequest
      <3>4. QED
        BY <3>1, <3>3 DEF TypeInv
    <2>2. QED
      BY <1>1, <1>2, <1>7, <2>1 DEF Request
  <1>9. StillNeeded' = (request.methods - request.done) * K
    <2> HIDE DEF req, size
    <2>1. StillNeeded' = (request.methods - request.done) * K + 0
      BY <1>8 DEF StillNeeded
    <2>2. QED
      BY <1>4, <2>1
  <1> HIDE DEF size, req, K
  <1>10. StillNeeded' = StillNeeded - size /\ StillNeeded \in Int
    BY <1>3, <1>4, <1>9
  <1>11. request'.done <= request'.methods
    BY <1>2, <1>8 DEF RequestShape
  <1>12. QED
    BY <1>1, <1>2, <1>3, <1>6, <1>7, <1>8, <1>10, <1>11, PlaceSequent

\* The next method.
LEMMA NewMethodRequest ==
  ASSUME TypeInv, RequestInv, NewMethod
  PROVE  RequestInv' /\ status' = "run"
  <1> DEFINE size == HEADER + FUNC_SLOTS
             req  == [request EXCEPT !.done = @ + 1, !.cleaned = FALSE]
             left == request.methods - request.done
  <1>1. Waiting("methods") /\ request.done < request.methods
    BY DEF NewMethod
  <1>2. /\ request \in Request /\ request # NoRequest /\ RequestShape
        /\ request.step = "methods" /\ request.kind = "OBJ" /\ Sequent
    BY <1>1, WaitingRequest DEF Sequent, RequestShape
  <1>3. size \in Nat /\ left \in Nat \ {0}
        /\ request.done \in Nat /\ request.methods \in Nat
    BY <1>1, <1>2, FrameAssumption DEF FUNC_SLOTS, HEADER, Request
  <1>4. StillNeeded = left * size
    <2> HIDE DEF size, left
    <2>1. StillNeeded = left * size + 0 /\ left * size \in Nat
      BY <1>2, <1>3 DEF StillNeeded, size, left
    <2>2. QED
      BY <2>1
  <1>5. left * size = (left - 1) * size + size
        /\ (left - 1) * size \in Nat
    <2>1. \A x \in Nat \ {0}, y \in Nat :
             x * y = (x - 1) * y + y /\ (x - 1) * y \in Nat
      OBVIOUS
    <2> HIDE DEF size, left
    <2>2. QED
      BY <1>3, <2>1
  <1>6. ~NoRoom(size)
    <2> HIDE DEF size, left
    <2>1. size <= StillNeeded
      BY <1>3, <1>4, <1>5
    <2>2. QED
      BY <1>1, <1>2, <1>3, <2>1, SequentHasRoom
  <1>7. Place(size, req)
    BY <1>6 DEF NewMethod
  <1>8. request' = req
    BY <1>7 DEF Place
  <1>9. /\ request'.kind = "OBJ" /\ request'.step = "methods"
        /\ request'.cleaned = FALSE /\ request'.done = request.done + 1
        /\ request'.methods = request.methods
        /\ request' \in Request
    BY <1>2, <1>8, RequestUpdate DEF Request
  <1>10. StillNeeded' = (left - 1) * size
    <2>1. request'.methods - request'.done = left - 1
      BY <1>3, <1>9
    <2> HIDE DEF req, size, left
    <2>2. StillNeeded' = (left - 1) * size + 0
      BY <1>9, <2>1 DEF StillNeeded, size
    <2>3. QED
      BY <1>5, <2>2
  <1>11. request'.done <= request'.methods
    BY <1>1, <1>3, <1>9
  <1> HIDE DEF size, req, left
  <1>12. StillNeeded' = StillNeeded - size /\ StillNeeded \in Int
    BY <1>3, <1>4, <1>5, <1>10
  <1>13. QED
    BY <1>1, <1>2, <1>3, <1>7, <1>8, <1>9, <1>11, <1>12, PlaceSequent

\* EndSequentAllocations: the trigger is allowed again.
LEMMA EndSequentRequest ==
  ASSUME RequestInv, EndSequentAllocations
  PROVE  RequestInv' /\ status' = "run"
  BY DEF EndSequentAllocations, Waiting, Running, InGC, Depth, RequestInv,
         RequestShape, CleanedIsEmpty, ForbiddenIsServed, CollectsOnRequest,
         Sequent

\* Every step of an allocation.
LEMMA AllocRequest ==
  ASSUME TypeInv, RequestInv, AllocStep
  PROVE  RequestInv' /\ status' \in {"run", "OOM", "SEQUENT_TOO_BIG"}
  BY NewSimpleRequest, PrepareRequest, NewObjectStorageRequest,
     NewMethodRequest, EndSequentRequest
     DEF AllocStep

----------------------------------------------------------------------------
(* Instructions and collections *)

\* An instruction starts with no request, and at most asks for memory.
LEMMA InstructionRequest ==
  ASSUME RequestInv, Instruction
  PROVE  /\ RequestInv'
         /\ status' \in {"run", "EXIT", "FATAL", "UNDEFINED", "OOM"}
  <1>1. Idle
    BY DEF Instruction, LDAI_NUM, LDAI_FUNC, LDAI_STR, LDAI_OBJ, NEWARR, LDA,
           STA, STNULL, MOV, GETARG, GETTHIS, SETARG, GETRET0, SETRET0, CALL,
           RET, SETELEM_ARR, GETELEM_ARR, SETELEM_OBJ, GETELEM_OBJ,
           NoOverload, Await
  <1>2. status = "run" /\ ~InGC /\ request = NoRequest
    BY <1>1 DEF Idle, Running
  <1>a. \A l \in OBJ_LAYOUTS : l.methods \in Nat
    BY ProgramAssumption
  <1>3. \/ UNCHANGED <<request, stages_stack, is_trigger_forbidden, status>>
        \/ \E k, n : \E m \in Nat :
             request' = Ask(k, n, m) /\ UNCHANGED gcVars
        \/ \E why \in {"EXIT", "FATAL", "UNDEFINED", "OOM"} : Halt(why)
    BY <1>a DEF Instruction, LDAI_NUM, LDAI_FUNC, LDAI_STR, LDAI_OBJ, NEWARR, LDA,
           STA, STNULL, MOV, GETARG, GETTHIS, SETARG, GETRET0, SETRET0, CALL,
           RET, SETELEM_ARR, GETELEM_ARR, SETELEM_OBJ, GETELEM_OBJ,
           NoOverload, Await, WriteRoot, WriteSlot, ReadInto, Rest, Stop
  <1>4. CASE UNCHANGED <<request, stages_stack, is_trigger_forbidden, status>>
    <2>1. ~InGC'
      BY <1>2, <1>4 DEF InGC, Depth
    <2>2. QED
      BY <1>2, <1>4, <2>1, SameRequest
  <1>5. ASSUME NEW k, NEW n, NEW m \in Nat, request' = Ask(k, n, m), UNCHANGED gcVars
        PROVE  RequestInv' /\ status' = "run"
    <2>1. ~InGC' /\ status' = "run" /\ ~is_trigger_forbidden'
      BY <1>2, <1>5 DEF InGC, Depth, gcVars, RequestInv, ForbiddenIsServed,
                        Sequent
    <2>2. /\ request'.kind = k /\ request'.obj = nullptr /\ request'.done = 0
          /\ request'.cleaned = FALSE /\ request'.methods = m
          /\ request'.step = IF k = "OBJ" THEN "prepare" ELSE "storage"
      BY <1>5 DEF Ask
    <2>3. QED
      BY <2>1, <2>2 DEF RequestInv, RequestShape, CleanedIsEmpty,
                        ForbiddenIsServed, CollectsOnRequest, Sequent
  <1>6. ASSUME NEW why \in {"EXIT", "FATAL", "UNDEFINED", "OOM"}, Halt(why)
        PROVE  RequestInv' /\ status' = why
    BY <1>6, HaltRequest DEF Halt
  <1>7. QED
    BY <1>2, <1>3, <1>4, <1>5, <1>6

\* As many stages after a step as before it.
LEMMA SameDepth ==
  ASSUME TypeInv, TypeInv', DOMAIN stages_stack' = DOMAIN stages_stack
  PROVE  Depth' = Depth
  <1>1. /\ stages_stack \in Seq(Stage) /\ stages_stack' \in Seq(Stage)
    BY DEF TypeInv, StagesOK
  <1>2. DOMAIN stages_stack = 1 .. Len(stages_stack)
        /\ DOMAIN stages_stack' = 1 .. Len(stages_stack')
        /\ Len(stages_stack) \in Nat /\ Len(stages_stack') \in Nat
    BY <1>1
  <1>3. \A m, n \in Nat : 1 .. m = 1 .. n => m = n
    <2>1. ASSUME NEW m \in Nat, NEW n \in Nat, 1 .. m = 1 .. n
          PROVE  m = n
      <3>1. m = 0 \/ m \in 1 .. n
        BY <2>1
      <3>2. n = 0 \/ n \in 1 .. m
        BY <2>1
      <3>3. QED
        BY <3>1, <3>2
    <2>2. QED
      BY <2>1
  <1>4. QED
    BY <1>2, <1>3 DEF Depth

\* A collection ends with an empty young region.
LEMMA GCRequest ==
  ASSUME TypeInv, TypeInv', RequestInv, GC
  PROVE  RequestInv' /\ status' # "FORBIDDEN"
  <1>1. status = "run" /\ InGC /\ UNCHANGED request
    BY DEF GC, GCStep, MarkFrame, MarkAndFetchRecursively, StartMoving,
           CleanupNextRegion, TenuredIsFull, FixInvalidDanglingReferences,
           MoveObject, RebindLink, FinalizeStage, Marked, Marking, Moving
  <1>2. ~is_trigger_forbidden
    BY <1>1, InCollection
  <1>3. ASSUME NEW why \in {"ASSERT", "GC_OOM", "TENURED_FULL"}, Halt(why)
        PROVE  RequestInv' /\ status' # "FORBIDDEN"
    BY <1>3, HaltRequest DEF Halt
  <1>4. ASSUME UNCHANGED <<is_trigger_forbidden, status>>, InGC'
        PROVE  RequestInv' /\ status' # "FORBIDDEN"
    BY <1>1, <1>4, StillCollecting
  <1>5. ASSUME DOMAIN stages_stack' = DOMAIN stages_stack
        PROVE  InGC'
    BY <1>1, <1>5, SameDepth DEF InGC
  <1>6. CASE MarkFrame
    BY <1>4, <1>5, <1>6 DEF MarkFrame, SetTop
  <1>7. CASE MarkAndFetchRecursively
    <2>1. \/ Halt("ASSERT")
          \/ /\ DOMAIN stages_stack' = DOMAIN stages_stack
             /\ UNCHANGED <<is_trigger_forbidden, status>>
      BY <1>7 DEF MarkAndFetchRecursively, SetTop
    <2>2. QED
      BY <1>3, <1>4, <1>5, <2>1
  <1>8. CASE StartMoving
    BY <1>4, <1>5, <1>8 DEF StartMoving, SetTop
  <1>9. CASE CleanupNextRegion
    <2>1. BeginStage(SetTop([Top EXCEPT !.phase = "fix"]))
      BY <1>2, <1>9 DEF CleanupNextRegion, CleanupThis
    <2>2. Len(SetTop([Top EXCEPT !.phase = "fix"])) = Depth
          /\ SetTop([Top EXCEPT !.phase = "fix"]) \in Seq(Stage)
      BY <1>1, PhaseType DEF StagesOK
    <2> DEFINE st == SetTop([Top EXCEPT !.phase = "fix"])
    <2> HIDE DEF st
    <2>3. stages_stack' = Append(st, NewStage) /\ st \in Seq(Stage)
          /\ UNCHANGED <<is_trigger_forbidden, status>>
      BY <2>1, <2>2 DEF BeginStage, st
    <2>4. InGC'
      BY <2>3 DEF InGC, Depth
    <2>5. QED
      BY <1>4, <2>3, <2>4
  <1>10. CASE TenuredIsFull
    BY <1>3, <1>10 DEF TenuredIsFull
  <1>11. CASE FixInvalidDanglingReferences
    <2>1. \/ Halt("ASSERT")
          \/ /\ DOMAIN stages_stack' = 1 .. Depth
             /\ UNCHANGED <<is_trigger_forbidden, status>>
      BY <1>11 DEF FixInvalidDanglingReferences
    <2>2. DOMAIN stages_stack = 1 .. Depth
      BY DEF TypeInv, StagesOK, Depth
    <2>3. QED
      BY <1>3, <1>4, <1>5, <2>1, <2>2
  <1>12. CASE MoveObject
    <2>1. \/ Halt("ASSERT") \/ Halt("GC_OOM")
          \/ /\ DOMAIN stages_stack' = DOMAIN stages_stack
             /\ UNCHANGED <<is_trigger_forbidden, status>>
      BY <1>12 DEF MoveObject, SetTop
    <2>2. QED
      BY <1>3, <1>4, <1>5, <2>1
  <1>13. CASE RebindLink
    <2>1. \/ Halt("ASSERT")
          \/ /\ DOMAIN stages_stack' = DOMAIN stages_stack
             /\ UNCHANGED <<is_trigger_forbidden, status>>
      BY <1>13 DEF RebindLink, SetTop
    <2>2. QED
      BY <1>3, <1>4, <1>5, <2>1
  <1>14. CASE FinalizeStage
    <2>1. /\ UNCHANGED <<is_trigger_forbidden, status>>
          /\ cursor' = [cursor EXCEPT ![Depth] = CURSOR]
      BY <1>14 DEF FinalizeStage
    <2>2. CASE InGC'
      BY <1>4, <2>1, <2>2
    <2>3. CASE ~InGC'
      <3>1. stages_stack' = Front(stages_stack) /\ stages_stack \in Seq(Stage)
            /\ stages_stack # <<>> /\ Depth \in Nat
        BY <1>1, <1>14 DEF FinalizeStage, TypeInv, StagesOK, InGC, Depth
      <3>2. Depth' = Depth - 1
        BY <3>1, FrontFacts DEF Depth
      <3>3. Depth = Young
        BY <1>1, <2>3, <3>1, <3>2 DEF InGC, Young
      <3>4. cursor'[Young] = CURSOR
        BY <2>1, <3>3, RegionsAssumption
           DEF TypeInv, CursorOK, Young, RegionIds, Tenured
      <3>5. ~Sequent' /\ RequestShape' /\ request' # NoRequest
        BY <1>1, InCollection DEF Sequent, RequestShape
      <3>6. QED
        BY <1>1, <1>2, <2>1, <2>3, <3>4, <3>5
           DEF RequestInv, CleanedIsEmpty, ForbiddenIsServed,
               CollectsOnRequest
    <2>4. QED
      BY <2>2, <2>3
  <1>15. QED
    BY <1>6, <1>7, <1>8, <1>9, <1>10, <1>11, <1>12, <1>13, <1>14
       DEF GC, GCStep

----------------------------------------------------------------------------
\* No request at the start.
LEMMA InitRequest ==
  ASSUME Init
  PROVE  RequestInv
  BY DEF Init, RequestInv, RequestShape, CleanedIsEmpty, ForbiddenIsServed,
         CollectsOnRequest, Sequent, InGC, Depth

\* Every step of the machine.
LEMMA NextRequest ==
  ASSUME TypeInv, RequestInv, [Next]_vars
  PROVE  RequestInv'
  <1>1. TypeInv'
    BY NextType
  <1>2. CASE Ended \/ UNCHANGED vars
    <2>1. UNCHANGED vars
      BY <1>2 DEF Ended
    <2>2. QED
      BY <2>1
         DEF vars, RequestInv, RequestShape, CleanedIsEmpty,
             ForbiddenIsServed, CollectsOnRequest, Sequent, InGC, Depth,
             RemainingSpace, StillNeeded
  <1>3. QED
    BY <1>1, <1>2, InstructionRequest, AllocRequest, GCRequest DEF Next
=============================================================================
