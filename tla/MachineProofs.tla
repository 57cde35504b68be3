--------------------------- MODULE MachineProofs ---------------------------
(***************************************************************************)
(* What TLAPS proves of Machine for all sizes of the heap, all numbers of  *)
(* regions, registers and frames, and every program.                       *)
(***************************************************************************)
EXTENDS Machine, TLAPS

----------------------------------------------------------------------------
(* Sequences and regions *)

\* Front (pop_back) keeps the elements before the last.
LEMMA FrontFacts ==
  ASSUME NEW T, NEW s \in Seq(T), s # <<>>
  PROVE  /\ Front(s) \in Seq(T)
         /\ Len(Front(s)) = Len(s) - 1
         /\ \A i \in 1 .. Len(s) - 1 : Front(s)[i] = s[i]
         /\ Last(s) \in T
  <1>a. Len(s) \in Nat /\ Len(s) >= 1
    OBVIOUS
  <1>1. Front(s) \in Seq(T)
    BY <1>a DEF Front
  <1>2. Len(Front(s)) = Len(s) - 1
    <2> DEFINE n == Len(s) - 1
    <2>1. n \in Nat /\ n <= Len(s)
      BY <1>a
    <2> HIDE DEF n
    <2>2. Len(SubSeq(s, 1, n)) = n
      BY <2>1
    <2>3. QED
      BY <2>2 DEF Front, n
  <1>3. \A i \in 1 .. Len(s) - 1 : Front(s)[i] = s[i]
    BY DEF Front
  <1>4. Last(s) \in T
    BY DEF Last
  <1>5. QED
    BY <1>1, <1>2, <1>3, <1>4

\* A region ends where the next one starts.
LEMMA NextRegionStarts ==
  ASSUME NEW r \in Int
  PROVE  StartPtr(r + 1) = StartPtr(r) + SURVIVORS_SIZE
  BY RegionsAssumption DEF StartPtr, START_PTR

\* The cells of a region are addresses.
LEMMA RegionInHeap ==
  ASSUME NEW r \in RegionIds, NEW c \in 0 .. RegionSize(r) - 1
  PROVE  StartPtr(r) + c \in Addr
  BY RegionsAssumption
     DEF StartPtr, START_PTR, RegionIds, RegionSize, Addr, HeapSize, Tenured

\* Constructing an object keeps memory well formed.
LEMMA OverwriteType ==
  ASSUME NEW m \in [Addr -> Object \cup {NoObj}], NEW a \in Addr,
         NEW obj \in Object
  PROVE  Overwrite(m, a, obj) \in [Addr -> Object \cup {NoObj}]
  BY DEF Overwrite

\* A freshly constructed object is an object.
LEMMA FreshType ==
  ASSUME NEW k \in Kinds, NEW n \in Nat
  PROVE  Fresh(k, n) \in Object
  <1>1. nullptr \in Ptr
    BY DEF Ptr
  <1>2. [i \in 1 .. n |-> nullptr] \in Seq(Ptr)
    BY <1>1
  <1>3. <<>> \in Seq(Ptr)
    OBVIOUS
  <1>4. HEADER + n \in Nat \ {0}
    BY DEF HEADER
  <1>5. QED
    BY <1>1, <1>2, <1>3, <1>4 DEF Fresh, Object

\* Replacing an element of a sequence, or none.
LEMMA ExceptSeqType ==
  ASSUME NEW T, NEW s \in Seq(T), NEW i, NEW p \in T
  PROVE  [s EXCEPT ![i] = p] \in Seq(T) /\ Len([s EXCEPT ![i] = p]) = Len(s)
  <1>1. Len(s) \in Nat /\ s \in [1 .. Len(s) -> T]
    OBVIOUS
  <1>2. [s EXCEPT ![i] = p] \in [1 .. Len(s) -> T]
    BY <1>1
  <1>3. QED
    BY <1>1, <1>2

\* Writing a register of an object leaves an object, of the same size.
LEMMA SlotWriteType ==
  ASSUME NEW m \in [Addr -> Object \cup {NoObj}], NEW a, NEW i, NEW p \in Ptr
  PROVE  [m EXCEPT ![a].slots[i] = p] \in [Addr -> Object \cup {NoObj}]
  <1>1. CASE a \notin Addr
    BY <1>1
  <1>2. CASE a \in Addr
    <2> DEFINE new == [m[a] EXCEPT !.slots[i] = p]
    <2>1. CASE m[a] \in Object
      <3>1. [m[a].slots EXCEPT ![i] = p] \in Seq(Ptr)
        BY <2>1, ExceptSeqType DEF Object
      <3>2. new \in Object
        BY <2>1, <3>1 DEF Object
      <3>3. QED
        BY <3>2
    <2>2. CASE m[a] = NoObj
      <3>1. [m[a].slots EXCEPT ![i] = p] = <<>>
        BY <2>2 DEF NoObj
      <3>2. new = NoObj
        BY <2>2, <3>1 DEF NoObj
      <3>3. QED
        BY <3>2
    <2>3. QED
      BY <1>2, <2>1, <2>2
  <1>3. QED
    BY <1>1, <1>2
----------------------------------------------------------------------------
(* The inductive invariant behind TypeOK *)

\* The objects a stage moves lie in the region it cleans.
InItsRegion(st, d) ==
  \A k \in DOMAIN st.target_objects : RegionContains(d, st.target_objects[k])

StagesOK(stages) ==
  /\ stages \in Seq(Stage)
  /\ Len(stages) <= SURVIVORS_N
  /\ \A d \in 1 .. Len(stages) : InItsRegion(stages[d], d)

MemOK(m)    == m \in [Addr -> Object \cup {NoObj}]
CursorOK(c) == /\ c \in [RegionIds -> Nat]
               /\ \A r \in RegionIds : c[r] \in CURSOR .. RegionSize(r)
FramesOK(f) == f \in Seq(Frame) /\ Len(f) \in 1 .. MAX_FRAMES

TypeInv ==
  /\ MemOK(mem)
  /\ CursorOK(cursor)
  /\ FramesOK(state_stack)
  /\ StagesOK(stages_stack)
  /\ marked \subseteq Addr
  /\ work \in Seq(WorkItem)
  /\ is_trigger_forbidden \in BOOLEAN
  /\ status \in Statuses
  /\ request \in Request \cup {NoRequest}

\* The inductive invariant says at least what TypeOK says.
LEMMA TypeInvImplies == TypeInv => TypeOK
  BY DEF TypeInv, TypeOK, MemOK, CursorOK, FramesOK, StagesOK, Depth

\* Replacing the innermost stage.
LEMMA SetTopType ==
  ASSUME StagesOK(stages_stack), InGC,
         NEW st \in Stage, InItsRegion(st, Depth)
  PROVE  /\ StagesOK(SetTop(st))
         /\ Len(SetTop(st)) = Depth
         /\ SetTop(st)[Depth] = st
         /\ \A d \in 1 .. Depth - 1 : SetTop(st)[d] = stages_stack[d]
  <1>1. stages_stack \in Seq(Stage) /\ Depth \in 1 .. Len(stages_stack)
    BY DEF StagesOK, InGC, Depth
  <1>2. SetTop(st) \in Seq(Stage) /\ Len(SetTop(st)) = Len(stages_stack)
    BY <1>1, ExceptSeqType DEF SetTop
  <1>3. /\ SetTop(st)[Depth] = st
        /\ \A d \in 1 .. Depth - 1 : SetTop(st)[d] = stages_stack[d]
    BY <1>1 DEF SetTop, Depth
  <1>4. \A d \in 1 .. Len(SetTop(st)) : InItsRegion(SetTop(st)[d], d)
    BY <1>1, <1>2, <1>3 DEF StagesOK, Depth
  <1>5. QED
    BY <1>2, <1>3, <1>4 DEF StagesOK, Depth

\* The innermost stage is a stage, and the region it moves to exists.
LEMMA TopType ==
  ASSUME StagesOK(stages_stack), InGC
  PROVE  /\ Depth \in 1 .. SURVIVORS_N
         /\ Top \in Stage
         /\ InItsRegion(Top, Depth)
         /\ ToSpace \in RegionIds
  BY RegionsAssumption
     DEF StagesOK, InGC, Depth, Top, ToSpace, RegionIds, Tenured

\* The fields of a cell of memory.
LEMMA CellType ==
  ASSUME NEW m, MemOK(m), NEW a \in Addr
  PROVE  /\ m[a].slots \in Seq(Ptr)
         /\ m[a].relocated_ptr \in Ptr
         /\ m[a].allocated_size \in Nat
         /\ m[a] # NoObj => m[a] \in Object
  <1>1. nullptr \in Ptr
    BY DEF Ptr
  <1>2. CASE m[a] \in Object
    BY <1>2 DEF Object
  <1>3. CASE m[a] = NoObj
    <2>1. /\ NoObj.slots = <<>>
          /\ NoObj.relocated_ptr = nullptr
          /\ NoObj.allocated_size = 0
      BY DEF NoObj
    <2>2. <<>> \in Seq(Ptr)
      OBVIOUS
    <2>3. QED
      BY <1>1, <1>3, <2>1, <2>2
  <1>4. QED
    BY <1>2, <1>3 DEF MemOK

\* What a place holds is a pointer.
LEMMA LoadType ==
  ASSUME TypeInv, NEW s \in Slot, IsPlace(s)
  PROVE  Load(s) \in Ptr
  <1>1. CASE IsRoot(s)
    <2>1. s.frame \in 1 .. Len(state_stack) /\ s.idx \in RootIdx
      BY <1>1 DEF IsPlace, TypeInv, FramesOK
    <2>2. state_stack[s.frame] \in Frame
      BY <2>1 DEF TypeInv, FramesOK
    <2>3. QED
      BY <1>1, <2>1, <2>2 DEF Load, Frame
  <1>2. CASE ~IsRoot(s)
    <2>1. s.holder \in Addr /\ s.idx \in DOMAIN mem[s.holder].slots
      BY <1>2 DEF IsPlace, IsRoot, Slot, Ptr
    <2>2. mem[s.holder].slots \in Seq(Ptr)
      BY <2>1, CellType DEF TypeInv
    <2>3. QED
      BY <1>2, <2>1, <2>2 DEF Load
  <1>3. QED
    BY <1>1, <1>2

\* Starting a stage.
LEMMA BeginStageType ==
  ASSUME TypeInv, NEW st, StagesOK(st), Len(st) < SURVIVORS_N,
         BeginStage(st), request' \in Request \cup {NoRequest}
  PROVE  TypeInv'
  <1>1. NewStage \in Stage /\ NewStage.target_objects = <<>>
    BY DEF NewStage, Stage
  <1>2. StagesOK(stages_stack')
    <2>1. stages_stack' = Append(st, NewStage) /\ st \in Seq(Stage)
      BY DEF BeginStage, StagesOK
    <2>2. /\ stages_stack' \in Seq(Stage)
          /\ Len(stages_stack') = Len(st) + 1
          /\ stages_stack'[Len(st) + 1] = NewStage
          /\ \A d \in 1 .. Len(st) : stages_stack'[d] = st[d]
      BY <1>1, <2>1
    <2>3. \A d \in 1 .. Len(stages_stack') : InItsRegion(stages_stack'[d], d)
      BY <1>1, <2>1, <2>2 DEF InItsRegion, StagesOK
    <2>4. QED
      BY <2>1, <2>2, <2>3, RegionsAssumption DEF StagesOK
  <1>3. QED
    BY <1>2 DEF BeginStage, TypeInv, MemOK, CursorOK, FramesOK, StagesOK,
                InItsRegion

\* Ending the process changes nothing else.
LEMMA HaltType ==
  ASSUME TypeInv, NEW why \in Statuses, Halt(why),
         request' \in Request \cup {NoRequest}
  PROVE  TypeInv'
  BY DEF Halt, TypeInv, MemOK, CursorOK, FramesOK, StagesOK, InItsRegion

\* CleanupThis opens a fresh stage, or ends the process while a trigger is
\* forbidden, and keeps the inductive invariant.
LEMMA CleanupThisType ==
  ASSUME TypeInv, NEW st, StagesOK(st), Len(st) < SURVIVORS_N,
         CleanupThis(st), request' \in Request \cup {NoRequest}
  PROVE  TypeInv'
  BY BeginStageType, HaltType DEF CleanupThis, Statuses
----------------------------------------------------------------------------
(* The steps of the collector keep the types *)

\* The parts of TypeInv in a later state: what changes, the rest carried over.
LEMMA Carry ==
  ASSUME MemOK(mem'), CursorOK(cursor'), FramesOK(state_stack'),
         StagesOK(stages_stack'), marked' \subseteq Addr,
         work' \in Seq(WorkItem), is_trigger_forbidden' \in BOOLEAN,
         status' \in Statuses, request' \in Request \cup {NoRequest}
  PROVE  TypeInv'
  BY DEF TypeInv, MemOK, CursorOK, FramesOK, StagesOK, InItsRegion

\* Entering the next frame of MarkAndFetchTargetObjects keeps the invariant.
LEMMA MarkFrameType ==
  ASSUME TypeInv, MarkFrame, UNCHANGED request
  PROVE  TypeInv'
  <1>1. InGC
    BY DEF MarkFrame, Marking
  <1> DEFINE st == [Top EXCEPT !.scanned = @ + 1]
  <1>2. st \in Stage /\ st.target_objects = Top.target_objects
    <2>1. Top \in Stage
      BY <1>1, TopType DEF TypeInv
    <2>2. Top.scanned + 1 \in Nat
      BY <2>1 DEF Stage
    <2>3. QED
      BY <2>1, <2>2 DEF Stage
  <1>3. StagesOK(SetTop(st))
    BY <1>1, <1>2, TopType, SetTopType DEF TypeInv, InItsRegion
  <1>4. StagesOK(stages_stack')
    BY <1>3 DEF MarkFrame
  <1>5. FrameRoots(Top.scanned + 1) \in Seq(WorkItem)
    <2>1. Top.scanned + 1 \in Nat
      BY <1>1, TopType DEF TypeInv, Stage
    <2>2. \A k \in 1 .. NREGS + 2 :
             Item(RootSlot(Top.scanned + 1, k - 1)) \in WorkItem
      BY <2>1, FrameAssumption
         DEF Item, RootSlot, WorkItem, Slot, Ptr
    <2>3. QED
      BY <2>2, FrameAssumption DEF FrameRoots
  <1>6. QED
    BY <1>4, <1>5, Carry DEF MarkFrame, TypeInv

\* The registers of an object, as MarkArray, MarkObject and MarkFunction
\* visit them, are work for the marking recursion.
LEMMA SlotsOfType ==
  ASSUME TypeInv, NEW a \in Addr
  PROVE  SlotsOf(a) \in Seq(WorkItem)
  <1>1. mem[a].slots \in Seq(Ptr)
    BY CellType DEF TypeInv
  <1>2. \A i \in 1 .. Len(mem[a].slots) : Item(HeapSlot(a, i)) \in WorkItem
    BY <1>1 DEF Item, HeapSlot, WorkItem, Slot, Ptr
  <1>3. QED
    BY <1>1, <1>2 DEF SlotsOf

\* A step of MarkAndFetchRecursively keeps the invariant: what it appends to
\* the target objects lies in the region the stage cleans.
LEMMA MarkType ==
  ASSUME TypeInv, MarkAndFetchRecursively, UNCHANGED request
  PROVE  TypeInv'
  <1> DEFINE s   == Head(work).slot
             obj == Load(s)
             hit == obj # nullptr /\ RegionContains(Depth, obj)
             withRef   == [Top EXCEPT !.references_to_targets = Append(@, s)]
             withAlive == [Top EXCEPT !.target_objects = Append(@, obj),
                                      !.estimating_realloc_size =
                                         @ + mem[obj].allocated_size]
             check == IsPlace(s) /\ (obj # nullptr => mem[obj] # NoObj)
             same  == UNCHANGED <<mem, cursor, state_stack,
                                  is_trigger_forbidden, status>>
  <1>1. InGC /\ work # <<>>
    BY DEF MarkAndFetchRecursively, Marking
  <1>2. Head(work) \in WorkItem /\ Tail(work) \in Seq(WorkItem)
    BY <1>1 DEF TypeInv
  <1>3. s \in Slot
    BY <1>2 DEF WorkItem
  <1>4. Top \in Stage /\ InItsRegion(Top, Depth)
    BY <1>1, TopType DEF TypeInv
  <1>5. check /\ obj # nullptr => obj \in Addr
    BY <1>3, LoadType DEF Ptr
  <1>6. StagesOK(SetTop(withRef))
    <2>1. withRef \in Stage /\ withRef.target_objects = Top.target_objects
      <3> HIDE DEF s
      <3>1. Append(Top.references_to_targets, s) \in Seq(Slot)
        BY <1>3, <1>4 DEF Stage
      <3>2. QED
        BY <1>4, <3>1 DEF Stage
    <2>2. QED
      BY <1>1, <1>4, <2>1, SetTopType DEF TypeInv, InItsRegion
  <1>7. ASSUME check, hit
        PROVE  StagesOK(SetTop(withAlive))
    <2>1. obj \in Addr /\ mem[obj].allocated_size \in Nat
      BY <1>5, <1>7, CellType DEF TypeInv
    <2>2. /\ withAlive \in Stage
          /\ withAlive.target_objects = Append(Top.target_objects, obj)
      <3> HIDE DEF obj
      <3>1. /\ Append(Top.target_objects, obj) \in Seq(Addr)
            /\ Top.estimating_realloc_size + mem[obj].allocated_size \in Nat
        BY <1>4, <2>1 DEF Stage
      <3>2. QED
        BY <1>4, <3>1 DEF Stage
    <2>3. InItsRegion(withAlive, Depth)
      BY <1>4, <1>7, <2>1, <2>2 DEF InItsRegion, Stage
    <2>4. QED
      BY <1>1, <2>2, <2>3, SetTopType DEF TypeInv
  <1>8. CASE ~check /\ Halt("ASSERT")
    BY <1>8, HaltType DEF Statuses, TypeInv
  <1>9. CASE check /\ obj = nullptr /\ work' = Tail(work)
             /\ UNCHANGED <<stages_stack, marked>> /\ same
    BY <1>2, <1>9, Carry DEF TypeInv
  <1>10. CASE check /\ obj # nullptr /\ work' = Tail(work)
              /\ stages_stack' = (IF hit THEN SetTop(withRef) ELSE stages_stack)
              /\ UNCHANGED marked /\ same
    <2>1. StagesOK(stages_stack')
      BY <1>6, <1>10 DEF TypeInv
    <2>2. QED
      BY <1>2, <1>10, <2>1, Carry DEF TypeInv
  <1>11. CASE check /\ obj # nullptr /\ marked' = marked \cup {obj}
              /\ work' = SlotsOf(obj) \o <<[slot |-> s, post |-> TRUE]>>
                                      \o Tail(work)
              /\ stages_stack' = (IF hit THEN SetTop(withAlive)
                                         ELSE stages_stack)
              /\ same
    <2>1. StagesOK(stages_stack')
      BY <1>7, <1>11 DEF TypeInv
    <2>2. obj \in Addr
      BY <1>5, <1>11
    <2>3. work' \in Seq(WorkItem)
      <3>1. [slot |-> s, post |-> TRUE] \in WorkItem
        BY <1>3 DEF WorkItem
      <3>2. SlotsOf(obj) \in Seq(WorkItem)
        BY <2>2, SlotsOfType
      <3>3. QED
        BY <1>2, <1>11, <3>1, <3>2
    <2>4. QED
      BY <1>11, <2>1, <2>2, <2>3, Carry DEF TypeInv
  <1>12. QED
    BY <1>8, <1>9, <1>10, <1>11 DEF MarkAndFetchRecursively

\* A stage whose phase changes.
LEMMA PhaseType ==
  ASSUME TypeInv, InGC, NEW ph \in {"mark", "fix", "move"}
  PROVE  LET st == [Top EXCEPT !.phase = ph]
         IN  StagesOK(SetTop(st)) /\ Len(SetTop(st)) = Depth
  <1> DEFINE st == [Top EXCEPT !.phase = ph]
  <1>1. Top \in Stage /\ InItsRegion(Top, Depth)
    BY TopType DEF TypeInv
  <1>2. st \in Stage /\ st.target_objects = Top.target_objects
    BY <1>1 DEF Stage
  <1>3. QED
    BY <1>1, <1>2, SetTopType DEF TypeInv, InItsRegion

\* MoveObjects of a stage whose estimate fits keeps the invariant.
LEMMA StartMovingType ==
  ASSUME TypeInv, StartMoving, UNCHANGED request
  PROVE  TypeInv'
  <1>1. InGC
    BY DEF StartMoving, Marked, Marking
  <1>2. StagesOK(stages_stack')
    BY <1>1, PhaseType DEF StartMoving
  <1>3. QED
    BY <1>2, Carry DEF StartMoving, TypeInv

\* MoveObjects that cleans the next region first keeps the invariant: the new
\* stage cleans a region before the tenured one.
LEMMA CleanupNextRegionType ==
  ASSUME TypeInv, CleanupNextRegion, UNCHANGED request
  PROVE  TypeInv'
  <1> DEFINE stages == SetTop([Top EXCEPT !.phase = "fix"])
  <1>1. InGC
    BY DEF CleanupNextRegion, Marked, Marking
  <1>2. StagesOK(stages) /\ Len(stages) = Depth
    BY <1>1, PhaseType
  <1>3. Depth < SURVIVORS_N
    BY <1>1, TopType, RegionsAssumption
       DEF CleanupNextRegion, TypeInv, ToSpace, Tenured
  <1>4. CleanupThis(stages)
    BY DEF CleanupNextRegion
  <1>5. request' \in Request \cup {NoRequest}
    BY DEF TypeInv
  <1> HIDE DEF stages
  <1>6. QED
    BY <1>2, <1>3, <1>4, <1>5, CleanupThisType

\* A full tenured region ends the process and changes nothing else.
LEMMA TenuredIsFullType ==
  ASSUME TypeInv, TenuredIsFull, UNCHANGED request
  PROVE  TypeInv'
  BY HaltType DEF TenuredIsFull, Statuses, TypeInv

\* A reference that follows its holder (gc.h, FixInvalidDanglingReferences)
\* still is a slot.
LEMMA FollowHolderType ==
  ASSUME TypeInv, NEW s \in Slot
  PROVE  FollowHolder(s) \in Slot
  <1>1. CASE ~IsRoot(s) /\ WasRelocated(s.holder)
    <2>1. s.holder \in Addr
      BY <1>1 DEF IsRoot, Slot, Ptr
    <2>2. mem[s.holder].relocated_ptr \in Ptr
      BY <2>1, CellType DEF TypeInv
    <2>3. QED
      BY <1>1, <2>2 DEF FollowHolder, Slot
  <1>2. CASE ~(~IsRoot(s) /\ WasRelocated(s.holder))
    BY <1>2 DEF FollowHolder
  <1>3. QED
    BY <1>1, <1>2

\* FixInvalidDanglingReferences rewrites references of every stage and keeps
\* the invariant.
LEMMA FixInvalidType ==
  ASSUME TypeInv, FixInvalidDanglingReferences, UNCHANGED request
  PROVE  TypeInv'
  <1> DEFINE fixed(d) ==
        [stages_stack[d] EXCEPT
           !.phase = IF d = Depth THEN "move" ELSE @,
           !.references_to_targets = [k \in DOMAIN @ |-> FollowHolder(@[k])]]
  <1>1. CASE Halt("ASSERT")
    BY <1>1, HaltType DEF Statuses, TypeInv
  <1>2. CASE /\ stages_stack' = [d \in 1 .. Depth |-> fixed(d)]
             /\ UNCHANGED <<mem, cursor, state_stack, marked, work,
                            is_trigger_forbidden, status>>
    <2>1. stages_stack \in Seq(Stage) /\ Depth \in Nat
      BY DEF TypeInv, StagesOK, Depth
    <2>2. ASSUME NEW d \in 1 .. Depth
          PROVE  /\ fixed(d) \in Stage
                 /\ fixed(d).target_objects = stages_stack[d].target_objects
      <3>1. stages_stack[d] \in Stage
        BY <2>1, <2>2 DEF Depth
      <3> DEFINE refs == stages_stack[d].references_to_targets
      <3>2. refs \in Seq(Slot)
        BY <3>1 DEF Stage
      <3>3. [k \in DOMAIN refs |-> FollowHolder(refs[k])] \in Seq(Slot)
        <4>1. \A k \in DOMAIN refs : FollowHolder(refs[k]) \in Slot
          BY <3>2, FollowHolderType
        <4>2. DOMAIN refs = 1 .. Len(refs) /\ Len(refs) \in Nat
          BY <3>2
        <4> HIDE DEF refs
        <4>3. QED
          BY <4>1, <4>2
      <3>4. (IF d = Depth THEN "move" ELSE stages_stack[d].phase)
              \in {"mark", "fix", "move"}
        BY <3>1 DEF Stage
      <3>5. QED
        BY <3>1, <3>3, <3>4 DEF Stage
    <2> HIDE DEF fixed
    <2>3. /\ stages_stack' \in Seq(Stage)
          /\ Len(stages_stack') = Depth
          /\ \A d \in 1 .. Depth : stages_stack'[d] = fixed(d)
      BY <1>2, <2>1, <2>2
    <2>4. StagesOK(stages_stack')
      BY <2>1, <2>2, <2>3 DEF StagesOK, TypeInv, InItsRegion, Depth
    <2>5. QED
      BY <1>2, <2>4, Carry DEF TypeInv
  <1>3. QED
    BY <1>1, <1>2 DEF FixInvalidDanglingReferences

\* The objects of a stage lie below every address of the region they move to.
LEMMA BelowToSpace ==
  ASSUME TypeInv, InGC, NEW a \in Addr, RegionContains(Depth, a)
  PROVE  a < StartPtr(ToSpace)
  <1>1. Depth \in 1 .. SURVIVORS_N
    BY TopType DEF TypeInv
  <1>2. StartPtr(ToSpace) = StartPtr(Depth) + SURVIVORS_SIZE
    BY <1>1, NextRegionStarts, RegionsAssumption DEF ToSpace
  <1>3. RegionSize(Depth) = SURVIVORS_SIZE
    BY <1>1, RegionsAssumption DEF RegionSize, Tenured
  <1>4. QED
    BY <1>2, <1>3 DEF RegionContains

\* One round of MoveObjects keeps the invariant: the copy ends below the end
\* of the next region, and the original, which InItsRegion places in another
\* region, still has the header that takes relocated_ptr.
LEMMA MoveObjectType ==
  ASSUME TypeInv, MoveObject, UNCHANGED request
  PROVE  TypeInv'
  <1> DEFINE obj     == Last(Top.target_objects)
             size    == mem[obj].allocated_size
             new_ptr == CursorPtr(ToSpace)
             check   == mem[obj] # NoObj /\ ~WasRelocated(obj)
             st      == [Top EXCEPT !.target_objects = Front(@)]
             copied  == Overwrite(mem, new_ptr, mem[obj])
  <1>1. InGC /\ Top.target_objects # <<>>
    BY DEF MoveObject, Moving
  <1>2. Depth \in 1 .. SURVIVORS_N /\ Top \in Stage /\ InItsRegion(Top, Depth)
        /\ ToSpace \in RegionIds
    BY <1>1, TopType DEF TypeInv
  <1>3. Top.target_objects \in Seq(Addr)
    BY <1>2 DEF Stage
  <1>4. obj \in Addr /\ RegionContains(Depth, obj)
    <2>1. Len(Top.target_objects) \in DOMAIN Top.target_objects
      BY <1>1, <1>3
    <2>2. QED
      BY <1>1, <1>2, <1>3, <2>1 DEF InItsRegion, Last
  <1>5. StagesOK(SetTop(st))
    <2>1. /\ Front(Top.target_objects) \in Seq(Addr)
          /\ Len(Front(Top.target_objects)) = Len(Top.target_objects) - 1
          /\ \A i \in 1 .. Len(Top.target_objects) - 1 :
               Front(Top.target_objects)[i] = Top.target_objects[i]
      BY <1>1, <1>3, FrontFacts
    <2>2. st \in Stage /\ st.target_objects = Front(Top.target_objects)
      BY <1>2, <2>1 DEF Stage
    <2>3. InItsRegion(st, Depth)
      BY <1>2, <1>3, <2>1, <2>2 DEF InItsRegion
    <2>4. QED
      BY <1>1, <2>2, <2>3, SetTopType DEF TypeInv
  <1>6. CASE Halt("ASSERT") \/ Halt("GC_OOM")
    BY <1>6, HaltType DEF Statuses, TypeInv
  <1>7. CASE /\ check
             /\ cursor[ToSpace] + size <= RegionSize(ToSpace)
             /\ cursor' = [cursor EXCEPT ![ToSpace] = @ + size]
             /\ mem' = [copied EXCEPT ![obj].relocated_ptr = new_ptr]
             /\ stages_stack' = SetTop(st)
             /\ UNCHANGED <<state_stack, marked, work, is_trigger_forbidden,
                            status>>
    <2>1. mem[obj] \in Object /\ size \in Nat \ {0}
      BY <1>4, <1>7, CellType DEF TypeInv, Object
    <2>2. cursor[ToSpace] \in CURSOR .. RegionSize(ToSpace)
      BY <1>2 DEF TypeInv, CursorOK
    <2>3. RegionSize(ToSpace) \in Nat
      BY RegionsAssumption DEF RegionSize
    <2>4. cursor[ToSpace] \in 0 .. RegionSize(ToSpace) - 1
      <3> HIDE DEF size
      <3>1. QED BY <1>7, <2>1, <2>2, <2>3 DEF CURSOR
    <2>5. new_ptr \in Addr
      BY <1>2, <2>4, RegionInHeap DEF CursorPtr
    <2>6. copied \in [Addr -> Object \cup {NoObj}]
      BY <2>1, <2>5, OverwriteType DEF TypeInv, MemOK
    <2>7. obj < new_ptr
      <3>1. obj < StartPtr(ToSpace)
        BY <1>1, <1>4, BelowToSpace
      <3>2. StartPtr(ToSpace) \in Int /\ obj \in Int
        BY <1>2, <1>4, RegionsAssumption
           DEF StartPtr, START_PTR, RegionIds, Addr, Tenured
      <3> HIDE DEF obj
      <3>3. QED BY <2>4, <3>1, <3>2 DEF CursorPtr
    <2>8. copied[obj] \in Object
      <3>1. obj \in Int /\ new_ptr \in Int
        BY <1>4, <2>5 DEF Addr
      <3>2. obj # new_ptr /\ ~(obj > new_ptr)
        <4> HIDE DEF obj, new_ptr
        <4>1. QED BY <2>7, <3>1
      <3>3. copied[obj] = mem[obj]
        BY <1>4, <3>2 DEF Overwrite
      <3>4. QED
        BY <2>1, <3>3
    <2>9. MemOK(mem')
      <3>1. new_ptr \in Ptr
        BY <2>5 DEF Ptr
      <3>2. [copied[obj] EXCEPT !.relocated_ptr = new_ptr] \in Object
        BY <2>8, <3>1 DEF Object
      <3> HIDE DEF copied, obj, new_ptr
      <3>3. mem' = [copied EXCEPT ![obj] =
                      [copied[obj] EXCEPT !.relocated_ptr = new_ptr]]
        BY <1>7
      <3>4. QED
        BY <2>6, <3>2, <3>3 DEF MemOK
    <2>10. CursorOK(cursor')
      <3> HIDE DEF size
      <3>1. cursor[ToSpace] + size \in CURSOR .. RegionSize(ToSpace)
        BY <1>7, <2>1, <2>2, <2>3 DEF CURSOR
      <3>2. cursor' = [cursor EXCEPT ![ToSpace] = cursor[ToSpace] + size]
        BY <1>7
      <3>3. cursor[ToSpace] + size \in Nat
        BY <2>1, <2>4
      <3>4. QED
        BY <1>2, <3>1, <3>2, <3>3 DEF CursorOK, TypeInv
    <2>11. QED
      BY <1>5, <1>7, <2>9, <2>10, Carry DEF TypeInv
  <1>8. QED
    BY <1>6, <1>7 DEF MoveObject

\* Writing a root of a frame.
LEMMA FrameWriteType ==
  ASSUME NEW fs, FramesOK(fs), NEW f, NEW i, NEW p \in Ptr
  PROVE  FramesOK([fs EXCEPT ![f][i] = p])
  <1>1. fs \in Seq(Frame) /\ DOMAIN fs = 1 .. Len(fs)
    BY DEF FramesOK
  <1>2. CASE f \in 1 .. Len(fs)
    <2> DEFINE new == [fs[f] EXCEPT ![i] = p]
    <2>1. new \in Frame
      <3>1. fs[f] \in Frame
        BY <1>1, <1>2
      <3>2. QED
        BY <3>1 DEF Frame
    <2>2. [fs EXCEPT ![f][i] = p] = [fs EXCEPT ![f] = new]
      OBVIOUS
    <2> HIDE DEF new
    <2>3. /\ [fs EXCEPT ![f] = new] \in Seq(Frame)
          /\ Len([fs EXCEPT ![f] = new]) = Len(fs)
      BY <1>1, <2>1, ExceptSeqType
    <2>4. QED
      BY <2>2, <2>3 DEF FramesOK
  <1>3. CASE f \notin 1 .. Len(fs)
    <2>1. [fs EXCEPT ![f][i] = p] = fs
      BY <1>1, <1>3
    <2>2. QED
      BY <2>1
  <1>4. QED
    BY <1>2, <1>3

\* One round of RebindLinks writes a pointer into a root or a register and
\* keeps the invariant.
LEMMA RebindLinkType ==
  ASSUME TypeInv, RebindLink, UNCHANGED request
  PROVE  TypeInv'
  <1> DEFINE refs    == Top.references_to_targets
             s       == Last(refs)
             new_ref == mem[Load(s)].relocated_ptr
             holder  == CurrentHolder(s.holder)
             st      == [Top EXCEPT !.references_to_targets = Front(@)]
  <1>1. InGC /\ refs # <<>>
    BY DEF RebindLink, Moving
  <1>2. Top \in Stage /\ InItsRegion(Top, Depth)
    BY <1>1, TopType DEF TypeInv
  <1>3. refs \in Seq(Slot)
    BY <1>2 DEF Stage
  <1>4. s \in Slot /\ Front(refs) \in Seq(Slot)
    BY <1>1, <1>3, FrontFacts
  <1>5. StagesOK(SetTop(st))
    <2>1. st \in Stage /\ st.target_objects = Top.target_objects
      BY <1>2, <1>4 DEF Stage
    <2>2. QED
      BY <1>1, <1>2, <2>1, SetTopType DEF TypeInv, InItsRegion
  <1>6. CASE Halt("ASSERT")
    BY <1>6, HaltType DEF Statuses, TypeInv
  <1>7. CASE /\ IsPlace(s) /\ Load(s) # nullptr
             /\ IF IsRoot(s)
                THEN /\ state_stack' =
                          [state_stack EXCEPT ![s.frame][s.idx] = new_ref]
                     /\ mem' = mem
                ELSE /\ mem' = [mem EXCEPT ![holder].slots[s.idx] = new_ref]
                     /\ state_stack' = state_stack
             /\ stages_stack' = SetTop(st)
             /\ UNCHANGED <<cursor, marked, work, is_trigger_forbidden, status>>
    <2>1. Load(s) \in Addr
      BY <1>4, <1>7, LoadType DEF Ptr
    <2>2. new_ref \in Ptr
      BY <2>1, CellType DEF TypeInv
    <2>3. MemOK(mem')
      <3>1. CASE IsRoot(s)
        BY <1>7, <3>1 DEF TypeInv
      <3>2. CASE ~IsRoot(s)
        <4> HIDE DEF new_ref, holder, s
        <4>1. mem' = [mem EXCEPT ![holder].slots[s.idx] = new_ref]
          BY <1>7, <3>2
        <4>2. MemOK([mem EXCEPT ![holder].slots[s.idx] = new_ref])
          BY <2>2, SlotWriteType DEF MemOK, TypeInv
        <4>3. QED
          BY <4>1, <4>2
      <3>3. QED
        BY <3>1, <3>2
    <2>4. FramesOK(state_stack')
      <3>1. CASE IsRoot(s)
        <4> HIDE DEF new_ref, holder, s
        <4>1. state_stack' = [state_stack EXCEPT ![s.frame][s.idx] = new_ref]
          BY <1>7, <3>1
        <4>2. FramesOK([state_stack EXCEPT ![s.frame][s.idx] = new_ref])
          BY <2>2, FrameWriteType DEF TypeInv
        <4>3. QED
          BY <4>1, <4>2
      <3>2. CASE ~IsRoot(s)
        BY <1>7, <3>2 DEF TypeInv
      <3>3. QED
        BY <3>1, <3>2
    <2>5. StagesOK(stages_stack')
      BY <1>5, <1>7
    <2>6. QED
      <3> HIDE DEF new_ref, holder, s, st, refs
      <3>1. QED BY <1>7, <2>3, <2>4, <2>5, Carry DEF TypeInv
  <1>8. QED
    BY <1>6, <1>7 DEF RebindLink

\* Resetting the cleaned region and popping its stage keeps the invariant.
LEMMA FinalizeStageType ==
  ASSUME TypeInv, FinalizeStage, UNCHANGED request
  PROVE  TypeInv'
  <1>1. InGC /\ stages_stack' = Front(stages_stack)
    BY DEF FinalizeStage, Moving
  <1>2. Depth \in 1 .. SURVIVORS_N
    BY <1>1, TopType DEF TypeInv
  <1>3. StagesOK(stages_stack')
    <2>1. stages_stack \in Seq(Stage) /\ stages_stack # <<>>
      BY <1>1 DEF TypeInv, StagesOK, InGC, Depth
    <2>2. /\ stages_stack' \in Seq(Stage)
          /\ Len(stages_stack') = Depth - 1
          /\ \A i \in 1 .. Depth - 1 : stages_stack'[i] = stages_stack[i]
      BY <1>1, <2>1, FrontFacts DEF Depth
    <2>3. QED
      BY <1>2, <2>2, RegionsAssumption DEF TypeInv, StagesOK, Depth
  <1>4. CursorOK(cursor')
    <2>1. CURSOR \in Nat /\ CURSOR \in CURSOR .. RegionSize(Depth)
      BY RegionsAssumption DEF CURSOR, RegionSize
    <2>2. QED
      BY <2>1 DEF FinalizeStage, TypeInv, CursorOK
  <1>5. MemOK(mem')
    BY DEF FinalizeStage, MemOK, TypeInv
  <1>6. QED
    BY <1>3, <1>4, <1>5, Carry DEF FinalizeStage, TypeInv

\* Every step of the collector.
LEMMA GCType ==
  ASSUME TypeInv, GC
  PROVE  TypeInv'
  BY MarkFrameType, MarkType, StartMovingType, CleanupNextRegionType,
     TenuredIsFullType, FixInvalidType, MoveObjectType, RebindLinkType,
     FinalizeStageType
     DEF GC, GCStep

----------------------------------------------------------------------------
(* The steps of an allocation keep the types *)

\* A request under way, and its fields.
LEMMA WaitingType ==
  ASSUME TypeInv, NEW step, Waiting(step)
  PROVE  /\ request \in Request
         /\ StagesOK(stages_stack) /\ Len(stages_stack) < SURVIVORS_N
         /\ request.kind \in Kinds /\ request.n \in Nat
         /\ request.methods \in Nat /\ request.done \in Nat
         /\ request.obj \in Ptr
  <1>1. request \in Request
    BY DEF Waiting, TypeInv
  <1>2. StagesOK(stages_stack) /\ Len(stages_stack) < SURVIVORS_N
    BY RegionsAssumption
       DEF Waiting, Running, InGC, Depth, TypeInv, StagesOK
  <1>3. QED
    BY <1>1, <1>2 DEF Request

\* Updating a request.
LEMMA RequestUpdate ==
  ASSUME NEW q \in Request
  PROVE  /\ [q EXCEPT !.cleaned = TRUE] \in Request
         /\ [q EXCEPT !.step = "storage", !.cleaned = FALSE] \in Request
         /\ \A p \in Ptr :
              [q EXCEPT !.step = "methods", !.cleaned = FALSE, !.obj = p]
                \in Request
         /\ [q EXCEPT !.done = @ + 1, !.cleaned = FALSE] \in Request
  <1>1. q.done + 1 \in Nat
    BY DEF Request
  <1>2. QED
    BY <1>1 DEF Request

\* No room: a stage starts, or the process ends.
LEMMA NoRoomType ==
  ASSUME TypeInv, NEW step, Waiting(step), NEW size, NoRoom(size)
  PROVE  TypeInv'
  <1>1. request \in Request /\ StagesOK(stages_stack)
        /\ Len(stages_stack) < SURVIVORS_N
    BY WaitingType
  <1>2. CASE /\ CleanupThis(stages_stack)
             /\ request' = [request EXCEPT !.cleaned = TRUE]
    <2>1. request' \in Request
      BY <1>1, <1>2, RequestUpdate
    <2>2. QED
      BY <1>1, <1>2, <2>1, CleanupThisType
  <1>3. CASE Stop("ASSERT") \/ Stop("OOM")
    BY <1>3, HaltType DEF Stop, Statuses, TypeInv
  <1>4. QED
    BY <1>2, <1>3 DEF NoRoom

\* Room: the storage starts at an address, and the cursor stays in its region.
LEMMA PlaceType ==
  ASSUME TypeInv, NEW size \in Nat \ {0}, NEW req \in Request \cup {NoRequest},
         Place(size, req)
  PROVE  /\ CursorPtr(Young) \in Addr
         /\ MemOK(mem') /\ FramesOK(state_stack') => TypeInv'
  <1>1. Young \in RegionIds /\ RegionSize(Young) \in Nat
    BY RegionsAssumption DEF Young, RegionIds, Tenured, RegionSize
  <1>2. cursor[Young] \in CURSOR .. RegionSize(Young)
    BY <1>1 DEF TypeInv, CursorOK
  <1>3. cursor[Young] + size <= RegionSize(Young)
    BY DEF Place, Fits
  <1>4. CursorPtr(Young) \in Addr
    <2>1. cursor[Young] \in 0 .. RegionSize(Young) - 1
      BY <1>1, <1>2, <1>3 DEF CURSOR
    <2>2. QED
      BY <1>1, <2>1, RegionInHeap DEF CursorPtr
  <1>5. CursorOK(cursor')
    <2>1. /\ cursor[Young] + size \in CURSOR .. RegionSize(Young)
          /\ cursor[Young] + size \in Nat
      BY <1>1, <1>2, <1>3 DEF CURSOR
    <2>2. cursor' = [cursor EXCEPT ![Young] = cursor[Young] + size]
      BY DEF Place
    <2>3. QED
      BY <1>1, <2>1, <2>2 DEF CursorOK, TypeInv
  <1>6. ASSUME MemOK(mem'), FramesOK(state_stack')
        PROVE  TypeInv'
    BY <1>5, <1>6, Carry DEF Place, TypeInv
  <1>7. QED
    BY <1>4, <1>6

\* Storing a pointer in the accumulator.
LEMMA SetRootType ==
  ASSUME TypeInv, NEW i, NEW p \in Ptr
  PROVE  FramesOK(SetRoot(i, p))
  BY FrameWriteType DEF SetRoot, TypeInv

\* Function::New, String::New and Array::New keep the invariant.
LEMMA NewSimpleType ==
  ASSUME TypeInv, NewSimple
  PROVE  TypeInv'
  <1> DEFINE obj  == Fresh(request.kind, request.n)
             size == HEADER + request.n
  <1>1. Waiting("storage")
    BY DEF NewSimple
  <1>2. request.kind \in Kinds /\ request.n \in Nat
    BY <1>1, WaitingType
  <1>3. CASE NoRoom(size)
    BY <1>1, <1>3, NoRoomType
  <1>4. CASE /\ Place(size, NoRequest)
             /\ mem' = Overwrite(mem, CursorPtr(Young), obj)
             /\ state_stack' = SetRoot(ACC, CursorPtr(Young))
    <2>1. size \in Nat \ {0} /\ obj \in Object
      BY <1>2, FreshType DEF HEADER
    <2> HIDE DEF size, obj
    <2>2. CursorPtr(Young) \in Addr
      BY <1>4, <2>1, PlaceType
    <2>3. MemOK(mem')
      BY <1>4, <2>1, <2>2, OverwriteType DEF MemOK, TypeInv
    <2>4. FramesOK(state_stack')
      <3>1. CursorPtr(Young) \in Ptr
        BY <2>2 DEF Ptr
      <3>2. FramesOK(SetRoot(ACC, CursorPtr(Young)))
        BY <3>1, SetRootType
      <3>3. QED
        BY <1>4, <3>2
    <2>5. QED
      BY <1>4, <2>1, <2>3, <2>4, PlaceType
  <1>5. QED
    BY <1>3, <1>4 DEF NewSimple

\* PrepareForSequentAllocations keeps the invariant.
LEMMA PrepareType ==
  ASSUME TypeInv, PrepareForSequentAllocations
  PROVE  TypeInv'
  <1>1. Waiting("prepare")
    BY DEF PrepareForSequentAllocations
  <1>2. request \in Request /\ StagesOK(stages_stack)
        /\ Len(stages_stack) < SURVIVORS_N
    BY <1>1, WaitingType
  <1>3. CASE /\ CleanupThis(stages_stack)
             /\ request' = [request EXCEPT !.cleaned = TRUE]
    <2>1. request' \in Request
      BY <1>2, <1>3, RequestUpdate
    <2>2. QED
      BY <1>2, <1>3, <2>1, CleanupThisType
  <1>4. CASE Halt("SEQUENT_TOO_BIG") /\ UNCHANGED request
    BY <1>4, HaltType DEF Statuses, TypeInv
  <1>5. CASE /\ is_trigger_forbidden' = TRUE
             /\ request' = [request EXCEPT !.step = "storage",
                                           !.cleaned = FALSE]
             /\ UNCHANGED <<mem, cursor, state_stack, stages_stack, marked,
                            work, status>>
    <2>1. request' \in Request
      BY <1>2, <1>5, RequestUpdate
    <2>2. QED
      BY <1>5, <2>1, Carry DEF TypeInv
  <1>6. QED
    BY <1>3, <1>4, <1>5 DEF PrepareForSequentAllocations

\* Allocating the storage of an object in Object::New keeps the invariant.
LEMMA NewObjectStorageType ==
  ASSUME TypeInv, NewObjectStorage
  PROVE  TypeInv'
  <1> DEFINE obj  == Fresh("OBJ", request.n)
             size == HEADER + request.n
             req  == [request EXCEPT !.step = "methods", !.cleaned = FALSE,
                                     !.obj = CursorPtr(Young)]
  <1>1. Waiting("storage")
    BY DEF NewObjectStorage
  <1>2. request \in Request /\ request.n \in Nat
    BY <1>1, WaitingType
  <1>3. CASE NoRoom(size)
    BY <1>1, <1>3, NoRoomType
  <1>4. CASE /\ Place(size, req)
             /\ mem' = Overwrite(mem, CursorPtr(Young), obj)
             /\ UNCHANGED state_stack
    <2>1. size \in Nat \ {0} /\ obj \in Object
      BY <1>2, FreshType DEF HEADER, Kinds
    <2>2. cursor[Young] + size <= RegionSize(Young)
      BY <1>4 DEF Place, Fits
    <2> HIDE DEF size, obj
    <2>3. CursorPtr(Young) \in Addr
      <3>1. Young \in RegionIds /\ RegionSize(Young) \in Nat
        BY RegionsAssumption DEF Young, RegionIds, Tenured, RegionSize
      <3>2. cursor[Young] \in CURSOR .. RegionSize(Young)
        BY <3>1 DEF TypeInv, CursorOK
      <3>3. cursor[Young] \in 0 .. RegionSize(Young) - 1
        BY <2>1, <2>2, <3>1, <3>2 DEF CURSOR
      <3>4. QED
        BY <3>1, <3>3, RegionInHeap DEF CursorPtr
    <2>4. req \in Request
      BY <1>2, <2>3, RequestUpdate DEF Ptr
    <2> HIDE DEF req
    <2>5. MemOK(mem')
      BY <1>4, <2>1, <2>3, OverwriteType DEF MemOK, TypeInv
    <2>6. FramesOK(state_stack')
      BY <1>4 DEF TypeInv
    <2>7. QED
      BY <1>4, <2>1, <2>4, <2>5, <2>6, PlaceType
  <1>5. QED
    BY <1>3, <1>4 DEF NewObjectStorage

\* Constructing a method and storing it in its field keeps the invariant.
LEMMA NewMethodType ==
  ASSUME TypeInv, NewMethod
  PROVE  TypeInv'
  <1> DEFINE obj   == Fresh("FUNC", FUNC_SLOTS)
             size  == HEADER + FUNC_SLOTS
             field == request.n - request.methods + request.done + 1
             req   == [request EXCEPT !.done = @ + 1, !.cleaned = FALSE]
             new   == Overwrite(mem, CursorPtr(Young), obj)
  <1>1. Waiting("methods")
    BY DEF NewMethod
  <1>2. request \in Request
    BY <1>1, WaitingType
  <1>3. CASE NoRoom(size)
    BY <1>1, <1>3, NoRoomType
  <1>4. CASE /\ Place(size, req)
             /\ mem' = [new EXCEPT ![request.obj].slots[field] =
                                      CursorPtr(Young)]
             /\ UNCHANGED state_stack
    <2>1. FUNC_SLOTS \in Nat
      BY FrameAssumption DEF FUNC_SLOTS
    <2>2. size \in Nat \ {0} /\ obj \in Object
      BY <2>1, FreshType DEF HEADER, Kinds
    <2>3. req \in Request
      BY <1>2, RequestUpdate
    <2> HIDE DEF size, obj, req, field
    <2>4. CursorPtr(Young) \in Addr
      BY <1>4, <2>2, <2>3, PlaceType
    <2>5. new \in [Addr -> Object \cup {NoObj}]
      BY <2>2, <2>4, OverwriteType DEF MemOK, TypeInv
    <2> HIDE DEF new
    <2>6. MemOK(mem')
      <3>1. CursorPtr(Young) \in Ptr
        BY <2>4 DEF Ptr
      <3>2. MemOK([new EXCEPT ![request.obj].slots[field] = CursorPtr(Young)])
        BY <2>5, <3>1, SlotWriteType DEF MemOK
      <3>3. QED
        BY <1>4, <3>2
    <2>7. FramesOK(state_stack')
      BY <1>4 DEF TypeInv
    <2>8. QED
      BY <1>4, <2>2, <2>3, <2>6, <2>7, PlaceType
  <1>5. QED
    BY <1>3, <1>4 DEF NewMethod

\* EndSequentAllocations keeps the invariant.
LEMMA EndSequentType ==
  ASSUME TypeInv, EndSequentAllocations
  PROVE  TypeInv'
  <1>1. request.obj \in Ptr
    BY WaitingType DEF EndSequentAllocations
  <1>2. FramesOK(SetRoot(ACC, request.obj))
    BY <1>1, SetRootType
  <1>3. FramesOK(state_stack')
    BY <1>2 DEF EndSequentAllocations
  <1>4. QED
    BY <1>3, Carry DEF EndSequentAllocations, TypeInv

\* Every step of an allocation.
LEMMA AllocType ==
  ASSUME TypeInv, AllocStep
  PROVE  TypeInv'
  BY NewSimpleType, PrepareType, NewObjectStorageType, NewMethodType,
     EndSequentType
     DEF AllocStep

----------------------------------------------------------------------------
(* The instructions keep the types *)

\* The roots of the current frame are pointers.
LEMMA RootsType ==
  ASSUME TypeInv
  PROVE  /\ Acc \in Ptr /\ Callee \in Ptr
         /\ \A r \in Regs : Reg(r) \in Ptr
  <1>1. Frame0 \in Frame
    BY DEF TypeInv, FramesOK, Frame0
  <1>2. /\ ACC \in RootIdx /\ CALLEE \in RootIdx
        /\ \A r \in Regs : REG(r) \in RootIdx
    BY FrameAssumption DEF ACC, CALLEE, REG, RootIdx, Regs
  <1>3. QED
    BY <1>1, <1>2 DEF Frame, Acc, Callee, Reg

\* The end of the process changes status alone.
LEMMA StopType ==
  ASSUME TypeInv, NEW why \in Statuses, Stop(why)
  PROVE  TypeInv'
  BY HaltType DEF Stop, TypeInv

\* An instruction that writes one root of the frame keeps the invariant.
LEMMA WriteRootType ==
  ASSUME TypeInv, NEW i, NEW p \in Ptr, WriteRoot(i, p)
  PROVE  TypeInv'
  <1>1. FramesOK(SetRoot(i, p))
    BY SetRootType
  <1>2. FramesOK(state_stack')
    BY <1>1 DEF WriteRoot
  <1>3. QED
    BY <1>2, Carry DEF WriteRoot, Rest, TypeInv

\* An instruction that writes one register of an object keeps the invariant.
LEMMA WriteSlotType ==
  ASSUME TypeInv, NEW a, NEW i, NEW p \in Ptr, WriteSlot(a, i, p)
  PROVE  TypeInv'
  <1>1. MemOK([mem EXCEPT ![a].slots[i] = p])
    BY SlotWriteType DEF MemOK, TypeInv
  <1>2. MemOK(mem')
    BY <1>1 DEF WriteSlot
  <1>3. QED
    BY <1>2, Carry DEF WriteSlot, Rest, TypeInv

\* An unchecked read writes a pointer, or behaves in an undefined way.
LEMMA ReadIntoType ==
  ASSUME TypeInv, NEW root, NEW a \in Ptr, NEW i \in Nat, ReadInto(root, a, i)
  PROVE  TypeInv'
  <1>1. CASE IsPlace(HeapSlot(a, i))
    <2>1. HeapSlot(a, i) \in Slot
      BY DEF HeapSlot, Slot
    <2>2. Load(HeapSlot(a, i)) \in Ptr
      BY <1>1, <2>1, LoadType
    <2>3. ~IsRoot(HeapSlot(a, i))
      BY <1>1 DEF IsPlace, HeapSlot, TypeInv, FramesOK
    <2>4. mem[a].slots[i] \in Ptr
      BY <2>2, <2>3 DEF Load, HeapSlot
    <2>5. WriteRoot(root, mem[a].slots[i])
      BY <1>1 DEF ReadInto
    <2>6. QED
      BY <2>4, <2>5, WriteRootType
  <1>2. CASE ~IsPlace(HeapSlot(a, i))
    BY <1>2, StopType DEF ReadInto, Statuses
  <1>3. QED
    BY <1>1, <1>2

\* Asking for memory.
LEMMA AwaitType ==
  ASSUME TypeInv, NEW k \in Kinds, NEW n \in Nat, NEW m \in Nat,
         Await(Ask(k, n, m))
  PROVE  TypeInv'
  <1>1. Ask(k, n, m) \in Request
    BY DEF Ask, Request, Ptr
  <1>2. QED
    BY <1>1, Carry DEF Await, gcVars, TypeInv

\* CALL pushes a frame within the stack region and keeps the invariant.
LEMMA CallType ==
  ASSUME TypeInv, CALL
  PROVE  TypeInv'
  <1>1. CASE Len(state_stack) < MAX_FRAMES
    <2>1. NewFrame(Acc) \in Frame
      BY RootsType DEF NewFrame, Frame, Ptr
    <2>2. FramesOK(Append(state_stack, NewFrame(Acc)))
      BY <1>1, <2>1, ProgramAssumption DEF FramesOK, TypeInv
    <2>3. FramesOK(state_stack')
      BY <1>1, <2>2 DEF CALL
    <2>4. QED
      BY <1>1, <2>3, Carry DEF CALL, Rest, TypeInv
  <1>2. CASE ~(Len(state_stack) < MAX_FRAMES)
    BY <1>2, StopType DEF CALL, Statuses
  <1>3. QED
    BY <1>1, <1>2

\* RET pops a frame, never the last one, and keeps the invariant.
LEMMA RetType ==
  ASSUME TypeInv, RET
  PROVE  TypeInv'
  <1>1. CASE Len(state_stack) = 1
    BY <1>1, StopType DEF RET, Statuses
  <1>2. CASE Len(state_stack) # 1
    <2>1. state_stack \in Seq(Frame) /\ Len(state_stack) \in 1 .. MAX_FRAMES
      BY DEF TypeInv, FramesOK
    <2>2. FramesOK(Front(state_stack))
      <3>1. Len(state_stack) - 1 \in 1 .. MAX_FRAMES
        <4> DEFINE n == Len(state_stack)
        <4>1. n \in 1 .. MAX_FRAMES /\ n # 1 /\ MAX_FRAMES \in Nat
          BY <1>2, <2>1, ProgramAssumption
        <4> HIDE DEF n
        <4>2. n - 1 \in 1 .. MAX_FRAMES
          BY <4>1
        <4>3. QED
          BY <4>2 DEF n
      <3>2. state_stack # <<>>
        BY <2>1
      <3>3. /\ Front(state_stack) \in Seq(Frame)
            /\ Len(Front(state_stack)) = Len(state_stack) - 1
        BY <2>1, <3>2, FrontFacts
      <3>4. QED
        BY <3>1, <3>3 DEF FramesOK
    <2>3. FramesOK(state_stack')
      BY <1>2, <2>2 DEF RET
    <2>4. QED
      BY <1>2, <2>3, Carry DEF RET, Rest, TypeInv
  <1>3. QED
    BY <1>1, <1>2

\* A method read from an object is bound to it.
LEMMA GetElemObjType ==
  ASSUME TypeInv, GETELEM_OBJ
  PROVE  TypeInv'
  <1>1. PICK r \in Regs :
          /\ IsKind(Reg(r), "OBJ")
          /\ \/ \E i \in DOMAIN mem[Reg(r)].slots :
                  LET elem == mem[Reg(r)].slots[i]
                  IN  /\ state_stack' = SetRoot(ACC, elem)
                      /\ mem' = IF IsKind(elem, "FUNC")
                                THEN [mem EXCEPT ![elem].slots[THIS] = Reg(r)]
                                ELSE mem
                      /\ Rest /\ UNCHANGED request
             \/ Stop("FATAL")
    BY DEF GETELEM_OBJ
  <1>2. Reg(r) \in Ptr /\ Reg(r) \in Addr
    BY <1>1, RootsType DEF IsKind, Ptr
  <1>3. CASE Stop("FATAL")
    BY <1>3, StopType DEF Statuses
  <1>4. ASSUME NEW i \in DOMAIN mem[Reg(r)].slots, NEW elem,
               elem = mem[Reg(r)].slots[i],
               state_stack' = SetRoot(ACC, elem),
               mem' = IF IsKind(elem, "FUNC")
                      THEN [mem EXCEPT ![elem].slots[THIS] = Reg(r)]
                      ELSE mem,
               Rest, UNCHANGED request
        PROVE  TypeInv'
    <2>1. elem \in Ptr
      <3>1. mem[Reg(r)].slots \in Seq(Ptr)
        BY <1>2, CellType DEF TypeInv
      <3>2. QED
        BY <1>4, <3>1
    <2>2. FramesOK(state_stack')
      <3>1. FramesOK(SetRoot(ACC, elem))
        BY <2>1, SetRootType
      <3>2. QED
        BY <1>4, <3>1
    <2>3. MemOK(mem')
      <3>1. MemOK([mem EXCEPT ![elem].slots[THIS] = Reg(r)])
        BY <1>2, SlotWriteType DEF MemOK, TypeInv
      <3>2. QED
        BY <1>4, <3>1 DEF TypeInv
    <2>4. QED
      BY <1>4, <2>2, <2>3, Carry DEF Rest, TypeInv
  <1>5. QED
    BY <1>1, <1>3, <1>4

\* Every instruction.
LEMMA InstructionType ==
  ASSUME TypeInv, Instruction
  PROVE  TypeInv'
  <1> USE RootsType
  <1>1. nullptr \in Ptr /\ FUNC_SLOTS \in Nat /\ RET0 \in Nat /\ THIS \in Nat
        /\ \A i \in ArgOps : ARG(i) \in Nat
    BY FrameAssumption DEF Ptr, FUNC_SLOTS, RET0, THIS, ARG, ArgOps
  <1>2. CASE LDAI_NUM
    BY <1>1, <1>2, WriteRootType DEF LDAI_NUM
  <1>3. CASE LDAI_FUNC
    BY <1>1, <1>3, AwaitType DEF LDAI_FUNC, Kinds
  <1>4. CASE LDAI_STR
    BY <1>4, AwaitType, ProgramAssumption DEF LDAI_STR, Kinds
  <1>5. CASE LDAI_OBJ
    <2>1. PICK l \in OBJ_LAYOUTS :
                 Await(Ask("OBJ", l.data + l.methods, l.methods))
      BY <1>5 DEF LDAI_OBJ
    <2>2. l.data + l.methods \in Nat /\ l.methods \in Nat
      BY ProgramAssumption
    <2>3. QED
      BY <2>1, <2>2, AwaitType DEF Kinds
  <1>6. CASE NEWARR
    BY <1>6, AwaitType, ProgramAssumption DEF NEWARR, Kinds
  <1>7. CASE LDA \/ STA \/ STNULL \/ MOV
    BY <1>1, <1>7, WriteRootType DEF LDA, STA, STNULL, MOV
  <1>8. CASE GETARG
    BY <1>1, <1>8, ReadIntoType DEF GETARG
  <1>9. CASE GETTHIS
    BY <1>1, <1>9, ReadIntoType DEF GETTHIS
  <1>10. CASE SETARG
    BY <1>10, WriteSlotType DEF SETARG
  <1>11. CASE GETRET0
    BY <1>1, <1>11, ReadIntoType DEF GETRET0
  <1>12. CASE SETRET0
    BY <1>12, WriteSlotType DEF SETRET0
  <1>13. CASE CALL \/ RET
    BY <1>13, CallType, RetType
  <1>14. CASE SETELEM_ARR
    BY <1>14, WriteSlotType, StopType DEF SETELEM_ARR, Statuses
  <1>15. CASE GETELEM_ARR
    <2>1. PICK r \in Regs :
            /\ IsKind(Reg(r), "ARR")
            /\ \E i \in 1 .. Len(mem[Reg(r)].slots) + 1 :
                 ReadInto(ACC, Reg(r), i)
      BY <1>15 DEF GETELEM_ARR
    <2>2. Reg(r) \in Addr
      BY <2>1 DEF IsKind, Ptr
    <2>3. Len(mem[Reg(r)].slots) \in Nat
      BY <2>2, CellType DEF TypeInv
    <2>4. \A i \in 1 .. Len(mem[Reg(r)].slots) + 1 : i \in Nat
      BY <2>3
    <2>5. Reg(r) \in Ptr
      OBVIOUS
    <2>6. QED
      BY <2>1, <2>4, <2>5, ReadIntoType
  <1>16. CASE SETELEM_OBJ
    BY <1>16, WriteSlotType, StopType DEF SETELEM_OBJ, Statuses
  <1>17. CASE GETELEM_OBJ
    BY <1>17, GetElemObjType
  <1>18. CASE NoOverload
    BY <1>18, StopType DEF NoOverload, Statuses
  <1>19. QED
    BY <1>2, <1>3, <1>4, <1>5, <1>6, <1>7, <1>8, <1>9, <1>10, <1>11, <1>12,
       <1>13, <1>14, <1>15, <1>16, <1>17, <1>18 DEF Instruction
----------------------------------------------------------------------------
(* The first theorem *)

\* The state Interpreter::Invoke starts in.
LEMMA InitType ==
  ASSUME Init
  PROVE  TypeInv
  <1>1. FUNC_SLOTS \in Nat /\ Main \in Object /\ Main.allocated_size = 1 + FUNC_SLOTS
    BY FreshType, FrameAssumption DEF FUNC_SLOTS, Main, Kinds, Fresh, HEADER
  <1>2. Young \in RegionIds /\ RegionSize(Young) \in Nat
        /\ CURSOR + Main.allocated_size \in CURSOR .. RegionSize(Young)
    BY <1>1, RegionsAssumption, ProgramAssumption, FrameAssumption
       DEF Young, RegionIds, Tenured, RegionSize, CURSOR, MAX_ALLOC_SIZE,
           FUNC_SLOTS
  <1>3. MemOK(mem)
    BY <1>1 DEF Init, MemOK
  <1>4. CursorOK(cursor)
    <2>1. \A r \in RegionIds : CURSOR \in CURSOR .. RegionSize(r)
      BY RegionsAssumption DEF CURSOR, RegionSize
    <2>2. CURSOR \in Nat /\ CURSOR + Main.allocated_size \in Nat
      BY <1>1 DEF CURSOR
    <2>3. QED
      BY <1>2, <2>1, <2>2 DEF Init, CursorOK
  <1>5. FramesOK(state_stack)
    <2>1. MainPtr \in Addr
      <3>1. CURSOR \in 0 .. RegionSize(Young) - 1
        BY RegionsAssumption DEF CURSOR, RegionSize
      <3>2. QED
        BY <1>2, <3>1, RegionInHeap DEF MainPtr
    <2>2. NewFrame(MainPtr) \in Frame
      BY <2>1 DEF NewFrame, Frame, Ptr
    <2>3. QED
      BY <2>2, ProgramAssumption DEF Init, FramesOK
  <1>6. StagesOK(stages_stack)
    BY RegionsAssumption DEF Init, StagesOK
  <1>7. /\ marked \subseteq Addr /\ work \in Seq(WorkItem)
        /\ status \in Statuses /\ request \in Request \cup {NoRequest}
    BY DEF Init, Statuses
  <1>8. is_trigger_forbidden \in BOOLEAN
    BY DEF Init
  <1>9. QED
    BY <1>3, <1>4, <1>5, <1>6, <1>7, <1>8 DEF TypeInv

\* Every step of the machine keeps the invariant.
LEMMA NextType ==
  ASSUME TypeInv, [Next]_vars
  PROVE  TypeInv'
  <1>1. CASE Instruction
    BY <1>1, InstructionType
  <1>2. CASE AllocStep
    BY <1>2, AllocType
  <1>3. CASE GC
    BY <1>3, GCType
  <1>4. CASE Ended \/ UNCHANGED vars
    BY <1>4, Carry DEF Ended, vars, TypeInv
  <1>5. QED
    BY <1>1, <1>2, <1>3, <1>4 DEF Next

\* For every heap, every number of regions, registers and frames and every
\* program: cursors stay in their regions, every object constructed or moved
\* lies in the heap with its header intact, no stage cleans the tenured
\* region, and every register and slot holds a pointer into the heap or null.
THEOREM TypeCorrect == Spec => []TypeOK
  <1>1. Init => TypeInv
    BY InitType
  <1>2. TypeInv /\ [Next]_vars => TypeInv'
    BY NextType
  <1>3. QED
    BY <1>1, <1>2, TypeInvImplies, PTL DEF Spec
=============================================================================
