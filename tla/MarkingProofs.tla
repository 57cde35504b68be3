--------------------------- MODULE MarkingProofs ---------------------------
(***************************************************************************)
(* The marking of a stage misses nothing, whatever the object graph (its   *)
(* cycles, its shared objects, its pointers between regions), the number   *)
(* of frames and the depth of the cascade.                                 *)
(***************************************************************************)
EXTENDS MachineProofs

\* The stages below the innermost one have marked: they wait in MoveObjects
\* for the nested cleanup, and do not go back to marking.
OutersWait == \A d \in 1 .. Depth - 1 : stages_stack[d].phase = "fix"

\* A slot the recursion comes back to leads to an object it has marked.
ComeBack ==
  Marking => \A k \in DOMAIN work :
               work[k].post => Load(work[k].slot) \in marked

MarkInv == TypeInv /\ OutersWait /\ ComeBack /\ MarkingComplete

----------------------------------------------------------------------------
(* Slots stay settled *)

\* A settled slot stays settled in a step that moves nothing and forgets
\* neither a mark nor a recorded reference, if it does when it was pending.
LEMMA KeepSettled ==
  ASSUME NEW s, Settled(s), UNCHANGED <<mem, state_stack>>, Depth' = Depth,
         marked \subseteq marked',
         \A k \in DOMAIN Top.references_to_targets :
            \E j \in DOMAIN Top'.references_to_targets :
               Top'.references_to_targets[j] = Top.references_to_targets[k],
         Pending(s) => Settled(s)'
  PROVE  Settled(s)'
  <1>1. Load(s)' = Load(s)
    BY DEF Load
  <1>2. CASE Load(s) = nullptr
    BY <1>1, <1>2 DEF Settled
  <1>3. CASE Pending(s)
    BY <1>3
  <1>4. CASE /\ Load(s) \in marked
             /\ RegionContains(Depth, Load(s)) =>
                  \E k \in DOMAIN Top.references_to_targets :
                     Top.references_to_targets[k] = s
    <2>1. Load(s)' \in marked'
      BY <1>1, <1>4
    <2>2. ASSUME RegionContains(Depth', Load(s)')
          PROVE  \E j \in DOMAIN Top'.references_to_targets :
                    Top'.references_to_targets[j] = s
      <3>1. PICK k \in DOMAIN Top.references_to_targets :
                   Top.references_to_targets[k] = s
        BY <1>1, <1>4, <2>2
      <3>2. QED
        BY <3>1
    <2>3. QED
      BY <2>1, <2>2 DEF Settled
  <1>5. QED
    BY <1>2, <1>3, <1>4 DEF Settled

\* What MarkingComplete says, slot by slot.
Complete ==
  /\ \A f \in DOMAIN state_stack, i \in RootIdx :
       f <= Top.scanned => Settled(RootSlot(f, i))
  /\ \A a \in marked : \A i \in DOMAIN mem[a].slots :
       Settled(HeapSlot(a, i))
  /\ \A a \in marked :
       RegionContains(Depth, a) =>
         \E k \in DOMAIN Top.target_objects : Top.target_objects[k] = a

\* MarkingComplete, with its three parts under names.
LEMMA CompleteForm == MarkingComplete <=> (Marking => Complete)
  <1>1. (\A s \in RootSlots : s.frame <= Top.scanned => Settled(s)) <=>
        (\A f \in DOMAIN state_stack, i \in RootIdx :
            f <= Top.scanned => Settled(RootSlot(f, i)))
    <2>1. \A f, i : RootSlot(f, i).frame = f
      BY DEF RootSlot
    <2>2. QED
      BY <2>1 DEF RootSlots
  <1>2. (\A s \in SlotsIn(marked) : Settled(s)) <=>
        (\A a \in marked : \A i \in DOMAIN mem[a].slots :
            Settled(HeapSlot(a, i)))
    BY DEF SlotsIn
  <1>3. QED
    BY <1>1, <1>2 DEF MarkingComplete, Complete

----------------------------------------------------------------------------
(* The steps of the marking *)

\* Entering a frame leaves each of its roots pending, so none is missed.
LEMMA MarkFrameComplete ==
  ASSUME MarkInv, MarkFrame, UNCHANGED request
  PROVE  OutersWait' /\ ComeBack' /\ MarkingComplete'
  <1> DEFINE st == [Top EXCEPT !.scanned = @ + 1]
  <1>1. /\ TypeInv /\ InGC /\ Marking /\ work = <<>>
        /\ stages_stack' = SetTop(st)
        /\ work' = FrameRoots(Top.scanned + 1)
        /\ UNCHANGED <<mem, state_stack, marked, status>>
    BY DEF MarkFrame, Marking, MarkInv
  <1>2. /\ Top \in Stage /\ InItsRegion(Top, Depth) /\ Depth \in 1 .. SURVIVORS_N
    BY <1>1, TopType DEF TypeInv
  <1>3. Top.scanned \in Nat /\ st \in Stage /\ st.scanned = Top.scanned + 1
        /\ st.phase = Top.phase
        /\ st.target_objects = Top.target_objects
        /\ st.references_to_targets = Top.references_to_targets
    BY <1>2 DEF Stage
  <1>4. /\ Depth' = Depth /\ Top' = st
        /\ \A d \in 1 .. Depth - 1 : stages_stack'[d] = stages_stack[d]
    BY <1>1, <1>2, <1>3, SetTopType DEF TypeInv, InItsRegion, Depth, Top
  <1>5. OutersWait'
    BY <1>4 DEF OutersWait, MarkInv
  <1>6. \A k \in DOMAIN work' :
           k \in 1 .. NREGS + 2
           /\ work'[k] = Item(RootSlot(Top.scanned + 1, k - 1))
    BY <1>1 DEF FrameRoots
  <1>7. ComeBack'
    BY <1>6 DEF ComeBack, Item
  <1>8. \A s : ~Pending(s)
    BY <1>1 DEF Pending
  <1>9. \A s : Settled(s) => Settled(s)'
    BY <1>1, <1>3, <1>4, <1>8, KeepSettled
  <1>10. ASSUME NEW f \in DOMAIN state_stack, NEW i \in RootIdx,
                f <= Top.scanned + 1
         PROVE  Settled(RootSlot(f, i))'
    <2>1. f \in Nat
      BY <1>1 DEF TypeInv, FramesOK
    <2>2. CASE f <= Top.scanned
      BY <1>1, <1>9, <2>2, CompleteForm DEF MarkInv, Complete
    <2>3. CASE f = Top.scanned + 1
      <3>1. i + 1 \in 1 .. NREGS + 2 /\ (i + 1) - 1 = i
        BY FrameAssumption DEF RootIdx
      <3>2. i + 1 \in DOMAIN work'
        BY <1>1, <3>1 DEF FrameRoots
      <3>3. work'[i + 1].slot = RootSlot(f, i)
        BY <1>6, <2>3, <3>1, <3>2 DEF Item
      <3>4. Pending(RootSlot(f, i))'
        BY <3>2, <3>3 DEF Pending, RootSlot
      <3>5. QED
        BY <3>4 DEF Settled
    <2>4. QED
      BY <1>3, <1>10, <2>1, <2>2, <2>3
  <1>11. MarkingComplete'
    <2>1. \A f \in DOMAIN state_stack', i \in RootIdx :
             f <= Top'.scanned => Settled(RootSlot(f, i))'
      BY <1>1, <1>3, <1>4, <1>10
    <2>2. \A a \in marked' : \A i \in DOMAIN mem'[a].slots :
             Settled(HeapSlot(a, i))'
      BY <1>1, <1>9, CompleteForm DEF MarkInv, Complete
    <2>3. \A a \in marked' :
             RegionContains(Depth', a) =>
               \E k \in DOMAIN Top'.target_objects :
                  Top'.target_objects[k] = a
      BY <1>1, <1>3, <1>4, CompleteForm DEF MarkInv, Complete
    <2>4. Complete'
      BY <2>1, <2>2, <2>3 DEF Complete
    <2>5. QED
      BY <2>4, CompleteForm, PTL
  <1>12. QED
    BY <1>5, <1>7, <1>11

\* Appending to a sequence forgets none of its elements.
LEMMA AppendKeeps ==
  ASSUME NEW T, NEW q \in Seq(T), NEW e \in T
  PROVE  /\ \A k \in DOMAIN q :
              \E j \in DOMAIN Append(q, e) : Append(q, e)[j] = q[k]
         /\ \E j \in DOMAIN Append(q, e) : Append(q, e)[j] = e
  <1>1. /\ Len(q) \in Nat /\ DOMAIN q = 1 .. Len(q)
        /\ DOMAIN Append(q, e) = 1 .. Len(q) + 1
        /\ Append(q, e)[Len(q) + 1] = e
        /\ \A k \in 1 .. Len(q) : Append(q, e)[k] = q[k]
    OBVIOUS
  <1>2. QED
    BY <1>1

\* What is left of the work after its head.
LEMMA TailKeeps ==
  ASSUME NEW T, NEW q \in Seq(T), q # <<>>
  PROVE  /\ \A k \in DOMAIN q :
              q[k] = Head(q) \/ \E j \in DOMAIN Tail(q) : Tail(q)[j] = q[k]
         /\ \A j \in DOMAIN Tail(q) : \E k \in DOMAIN q : Tail(q)[j] = q[k]
  <1>1. /\ Len(q) \in Nat \ {0} /\ DOMAIN q = 1 .. Len(q)
        /\ DOMAIN Tail(q) = 1 .. Len(q) - 1
        /\ Head(q) = q[1]
        /\ \A j \in 1 .. Len(q) - 1 : Tail(q)[j] = q[j + 1]
    OBVIOUS
  <1>2. ASSUME NEW k \in 1 .. Len(q), k # 1
        PROVE  \E j \in DOMAIN Tail(q) : Tail(q)[j] = q[k]
    <2>1. k - 1 \in 1 .. Len(q) - 1 /\ (k - 1) + 1 = k
      BY <1>1, <1>2
    <2>2. QED
      BY <1>1, <2>1
  <1>3. \A j \in 1 .. Len(q) - 1 : j + 1 \in 1 .. Len(q)
    BY <1>1
  <1>4. QED
    BY <1>1, <1>2, <1>3

\* The elements of two sequences put together around another element.
Around(c, p, e, q) == c = p \o <<e>> \o q

\* Every element of both halves of a concatenation is an element of it.
LEMMA ConcatKeeps ==
  ASSUME NEW T, NEW p \in Seq(T), NEW e \in T, NEW q \in Seq(T),
         NEW c, Around(c, p, e, q)
  PROVE  /\ \A k \in DOMAIN p : \E j \in DOMAIN c : c[j] = p[k]
         /\ \E j \in DOMAIN c : c[j] = e
         /\ \A k \in DOMAIN q : \E j \in DOMAIN c : c[j] = q[k]
         /\ \A j \in DOMAIN c :
              \/ \E k \in DOMAIN p : c[j] = p[k]
              \/ c[j] = e
              \/ \E k \in DOMAIN q : c[j] = q[k]
  <1> DEFINE L == Len(p)
             M == Len(q)
  <1>1. /\ L \in Nat /\ M \in Nat /\ DOMAIN p = 1 .. L /\ DOMAIN q = 1 .. M
        /\ DOMAIN c = 1 .. L + 1 + M
        /\ \A k \in 1 .. L : c[k] = p[k]
        /\ c[L + 1] = e
        /\ \A k \in 1 .. M : c[L + 1 + k] = q[k]
    BY DEF Around
  <1> HIDE DEF L, M
  <1>2. \A k \in 1 .. L : k \in 1 .. L + 1 + M
    BY <1>1
  <1>3. L + 1 \in 1 .. L + 1 + M
    BY <1>1
  <1>4. \A k \in 1 .. M : L + 1 + k \in 1 .. L + 1 + M
    BY <1>1
  <1>5. ASSUME NEW j \in 1 .. L + 1 + M
        PROVE  \/ \E k \in DOMAIN p : c[j] = p[k]
               \/ c[j] = e
               \/ \E k \in DOMAIN q : c[j] = q[k]
    <2>1. CASE j \in 1 .. L
      BY <1>1, <2>1
    <2>2. CASE j = L + 1
      BY <1>1, <2>2
    <2>3. CASE j > L + 1
      <3> DEFINE k == j - (L + 1)
      <3>1. k \in 1 .. M /\ L + 1 + k = j
        BY <1>1, <1>5, <2>3
      <3> HIDE DEF k
      <3>2. c[j] = q[k] /\ k \in DOMAIN q
        BY <1>1, <3>1
      <3>3. QED
        BY <3>2
    <2>4. QED
      BY <1>1, <1>5, <2>1, <2>2, <2>3
  <1>6. QED
    BY <1>1, <1>2, <1>3, <1>4, <1>5

\* A pending slot other than the one visited stays pending.
LEMMA PendingStep ==
  ASSUME work \in Seq(WorkItem), work # <<>>,
         \A k \in DOMAIN Tail(work) :
            \E j \in DOMAIN work' : work'[j] = Tail(work)[k],
         NEW s, Pending(s)
  PROVE  s = Head(work).slot \/ Pending(s)'
  <1>1. PICK k \in DOMAIN work : work[k].slot = s
    BY DEF Pending
  <1>2. CASE work[k] = Head(work)
    BY <1>1, <1>2
  <1>3. CASE \E j \in DOMAIN Tail(work) : Tail(work)[j] = work[k]
    BY <1>1, <1>3 DEF Pending
  <1>4. QED
    BY <1>2, <1>3, TailKeeps

\* The process is gone, or the stage has marked: nothing is left to show.
LEMMA NotMarking ==
  ASSUME ~Marking'
  PROVE  ComeBack' /\ MarkingComplete'
  BY DEF ComeBack, MarkingComplete

\* A visit of MarkAndFetchRecursively: an empty slot, a marked object, or an
\* object that is marked now and whose own slots are visited next.
LEMMA MarkComplete ==
  ASSUME MarkInv, MarkAndFetchRecursively, UNCHANGED request
  PROVE  OutersWait' /\ ComeBack' /\ MarkingComplete'
  <1>a. PICK s : s = Head(work).slot
    OBVIOUS
  <1>b. PICK obj : obj = Load(s)
    OBVIOUS
  <1> DEFINE hit == obj # nullptr /\ RegionContains(Depth, obj)
             withRef   == [Top EXCEPT !.references_to_targets = Append(@, s)]
             withAlive == [Top EXCEPT !.target_objects = Append(@, obj),
                                      !.estimating_realloc_size =
                                         @ + mem[obj].allocated_size]
             check == IsPlace(s) /\ (obj # nullptr => mem[obj] # NoObj)
             same  == UNCHANGED <<mem, cursor, state_stack,
                                  is_trigger_forbidden, status>>
             refs  == Top.references_to_targets
  <1>1. /\ TypeInv /\ Marking /\ InGC /\ work # <<>> /\ work \in Seq(WorkItem)
        /\ OutersWait /\ Complete
        /\ \A k \in DOMAIN work : work[k].post => Load(work[k].slot) \in marked
    <2>1. /\ TypeInv /\ OutersWait /\ ComeBack /\ MarkingComplete
          /\ Marking /\ InGC /\ work # <<>>
      BY DEF MarkAndFetchRecursively, Marking, MarkInv
    <2>2. work \in Seq(WorkItem)
      BY <2>1 DEF TypeInv
    <2>3. QED
      BY <2>1, <2>2, CompleteForm DEF ComeBack
  <1>2. Head(work) \in WorkItem /\ Tail(work) \in Seq(WorkItem) /\ s \in Slot
    <2>1. work \in Seq(WorkItem) /\ work # <<>>
      BY <1>1
    <2>2. Head(work) \in WorkItem /\ Tail(work) \in Seq(WorkItem)
      BY <2>1
    <2>3. QED
      BY <1>a, <2>2 DEF WorkItem
  <1>3. /\ Top \in Stage /\ InItsRegion(Top, Depth) /\ Depth \in 1 .. SURVIVORS_N
        /\ refs \in Seq(Slot) /\ Top.target_objects \in Seq(Addr)
        /\ Top.estimating_realloc_size \in Nat
    BY <1>1, TopType DEF TypeInv, Stage
  <1>4. \A k \in DOMAIN Tail(work) :
           Tail(work)[k].post => Load(Tail(work)[k].slot) \in marked
    BY <1>1, TailKeeps
  <1>5. ASSUME UNCHANGED <<mem, state_stack>>
        PROVE  \A t : Load(t)' = Load(t)
    BY <1>5 DEF Load
  <1>6. CASE ~check /\ Halt("ASSERT")
    <2>1. ~Marking'
      BY <1>6 DEF Halt, Marking
    <2>2. OutersWait'
      BY <1>1, <1>6 DEF Halt, OutersWait, Depth
    <2>3. QED
      BY <2>1, <2>2, NotMarking
  <1>7. CASE check /\ obj = nullptr /\ work' = Tail(work)
             /\ UNCHANGED <<stages_stack, marked>> /\ same
    <2>1. /\ Depth' = Depth /\ Top' = Top /\ OutersWait'
      BY <1>1, <1>7 DEF Depth, Top, OutersWait
    <2>2. ASSUME NEW t, Settled(t)
          PROVE  Settled(t)'
      <3>1. ASSUME Pending(t) PROVE Settled(t)'
        <4>1. t = s \/ Pending(t)'
          BY <1>a, <1>1, <1>7, <3>1, PendingStep
        <4>2. QED
          BY <1>b, <1>5, <1>7, <4>1 DEF Settled
      <3>2. QED
        BY <1>7, <2>1, <2>2, <3>1, KeepSettled
    <2>3. Complete'
      BY <1>1, <1>7, <2>1, <2>2 DEF Complete
    <2>4. ComeBack'
      BY <1>4, <1>5, <1>7 DEF ComeBack
    <2>5. QED
      BY <2>1, <2>3, <2>4, CompleteForm, PTL
  <1>8. CASE check /\ obj # nullptr /\ (Head(work).post \/ obj \in marked)
             /\ work' = Tail(work)
             /\ stages_stack' = (IF hit THEN SetTop(withRef) ELSE stages_stack)
             /\ UNCHANGED marked /\ same
    <2>1. obj \in marked
      <3>1. Head(work) = work[1] /\ 1 \in DOMAIN work
        BY <1>1
      <3>2. QED
        BY <1>a, <1>b, <1>1, <1>8, <3>1
    <2>2. /\ withRef \in Stage /\ InItsRegion(withRef, Depth)
          /\ withRef.target_objects = Top.target_objects
          /\ withRef.scanned = Top.scanned
          /\ withRef.references_to_targets = Append(refs, s)
      <3>1. Append(refs, s) \in Seq(Slot)
        BY <1>2, <1>3
      <3>2. /\ withRef \in Stage
            /\ withRef.target_objects = Top.target_objects
            /\ withRef.scanned = Top.scanned
            /\ withRef.references_to_targets = Append(refs, s)
        BY <1>3, <3>1 DEF Stage
      <3>3. QED
        BY <1>3, <3>2 DEF InItsRegion
    <2>3. /\ Depth' = Depth
          /\ Top' = IF hit THEN withRef ELSE Top
          /\ \A d \in 1 .. Depth - 1 : stages_stack'[d] = stages_stack[d]
      <3>1. CASE hit
        <4>1. stages_stack' = SetTop(withRef)
          BY <1>8, <3>1
        <4>2. /\ Len(SetTop(withRef)) = Depth /\ SetTop(withRef)[Depth] = withRef
              /\ \A d \in 1 .. Depth - 1 : SetTop(withRef)[d] = stages_stack[d]
          BY <1>1, <2>2, SetTopType DEF TypeInv
        <4> HIDE DEF withRef, hit
        <4>3. QED
          BY <3>1, <4>1, <4>2 DEF Depth, Top
      <3>2. CASE ~hit
        BY <1>8, <3>2 DEF Depth, Top
      <3>3. QED
        BY <3>1, <3>2
    <2>4. OutersWait'
      BY <1>1, <2>3 DEF OutersWait
    <2>5. /\ \A k \in DOMAIN refs :
               \E j \in DOMAIN Top'.references_to_targets :
                  Top'.references_to_targets[j] = refs[k]
          /\ hit => \E j \in DOMAIN Top'.references_to_targets :
                       Top'.references_to_targets[j] = s
      <3>1. CASE hit
        <4>1. Top'.references_to_targets = Append(refs, s)
          BY <2>2, <2>3, <3>1
        <4>2. refs \in Seq(Slot) /\ s \in Slot
          BY <1>2, <1>3
        <4> HIDE DEF refs, hit
        <4>3. QED
          BY <4>1, <4>2, AppendKeeps
      <3>2. CASE ~hit
        BY <2>3, <3>2
      <3>3. QED
        BY <3>1, <3>2
    <2>6. Settled(s)'
      <3>1. Load(s)' = obj /\ obj \in marked'
        BY <1>b, <1>5, <1>8, <2>1
      <3>2. RegionContains(Depth', Load(s)') => hit
        BY <1>8, <2>3, <3>1
      <3>3. QED
        BY <2>5, <3>1, <3>2 DEF Settled
    <2>7. ASSUME NEW t, Settled(t)
          PROVE  Settled(t)'
      <3>1. ASSUME Pending(t) PROVE Settled(t)'
        <4>1. t = s \/ Pending(t)'
          BY <1>a, <1>1, <1>8, <3>1, PendingStep
        <4>2. QED
          BY <2>6, <4>1 DEF Settled
      <3>2. QED
        BY <1>8, <2>3, <2>5, <2>7, <3>1, KeepSettled
    <2>8. Complete'
      <3>1. Top'.scanned = Top.scanned
            /\ Top'.target_objects = Top.target_objects
        BY <2>2, <2>3
      <3>2. QED
        BY <1>1, <1>8, <2>3, <2>7, <3>1 DEF Complete
    <2>9. ComeBack'
      BY <1>4, <1>5, <1>8 DEF ComeBack
    <2>10. QED
      BY <2>4, <2>8, <2>9, CompleteForm, PTL
  <1>9. CASE check /\ obj # nullptr
             /\ marked' = marked \cup {obj}
             /\ work' = SlotsOf(obj) \o <<[slot |-> s, post |-> TRUE]>>
                                     \o Tail(work)
             /\ stages_stack' = (IF hit THEN SetTop(withAlive)
                                        ELSE stages_stack)
             /\ same
    <2>1. obj \in Addr /\ mem[obj].allocated_size \in Nat
      BY <1>b, <1>1, <1>2, <1>9, LoadType, CellType DEF Ptr, TypeInv
    <2>2. hit =>
             /\ withAlive \in Stage /\ InItsRegion(withAlive, Depth)
             /\ withAlive.target_objects = Append(Top.target_objects, obj)
             /\ withAlive.scanned = Top.scanned
             /\ withAlive.references_to_targets = refs
      <3>1. /\ Append(Top.target_objects, obj) \in Seq(Addr)
            /\ Top.estimating_realloc_size + mem[obj].allocated_size \in Nat
        BY <1>3, <2>1
      <3>2. /\ withAlive \in Stage
            /\ withAlive.target_objects = Append(Top.target_objects, obj)
            /\ withAlive.scanned = Top.scanned
            /\ withAlive.references_to_targets = refs
        BY <1>3, <3>1 DEF Stage
      <3>3. hit => InItsRegion(withAlive, Depth)
        BY <1>3, <2>1, <3>2 DEF InItsRegion
      <3>4. QED
        BY <3>2, <3>3
    <2>3. /\ Depth' = Depth
          /\ Top' = IF hit THEN withAlive ELSE Top
          /\ \A d \in 1 .. Depth - 1 : stages_stack'[d] = stages_stack[d]
      <3>1. CASE hit
        <4>1. stages_stack' = SetTop(withAlive)
          BY <1>9, <3>1
        <4>2. /\ Len(SetTop(withAlive)) = Depth
              /\ SetTop(withAlive)[Depth] = withAlive
              /\ \A d \in 1 .. Depth - 1 : SetTop(withAlive)[d] = stages_stack[d]
          BY <1>1, <2>2, <3>1, SetTopType DEF TypeInv
        <4> HIDE DEF withAlive, hit
        <4>3. QED
          BY <3>1, <4>1, <4>2 DEF Depth, Top
      <3>2. CASE ~hit
        BY <1>9, <3>2 DEF Depth, Top
      <3>3. QED
        BY <3>1, <3>2
    <2>4. OutersWait'
      BY <1>1, <2>3 DEF OutersWait
    <2>5. /\ Top'.scanned = Top.scanned
          /\ Top'.references_to_targets = refs
          /\ Top'.target_objects = IF hit THEN Append(Top.target_objects, obj)
                                          ELSE Top.target_objects
      BY <2>2, <2>3
    <2> DEFINE back == [slot |-> s, post |-> TRUE]
    <2>6. SlotsOf(obj) \in Seq(WorkItem) /\ back \in WorkItem
      BY <1>1, <1>2, <2>1, SlotsOfType DEF WorkItem
    <2>7. work' = SlotsOf(obj) \o <<back>> \o Tail(work)
      BY <1>9
    <2>8. /\ \A k \in DOMAIN SlotsOf(obj) :
               \E j \in DOMAIN work' : work'[j] = SlotsOf(obj)[k]
          /\ \E j \in DOMAIN work' : work'[j] = back
          /\ \A k \in DOMAIN Tail(work) :
               \E j \in DOMAIN work' : work'[j] = Tail(work)[k]
          /\ \A j \in DOMAIN work' :
               \/ \E k \in DOMAIN SlotsOf(obj) : work'[j] = SlotsOf(obj)[k]
               \/ work'[j] = back
               \/ \E k \in DOMAIN Tail(work) : work'[j] = Tail(work)[k]
      <3> DEFINE below == SlotsOf(obj)
                 rest  == Tail(work)
      <3>1. /\ below \in Seq(WorkItem) /\ rest \in Seq(WorkItem)
            /\ back \in WorkItem /\ Around(work', below, back, rest)
        BY <1>2, <2>6, <2>7 DEF Around
      <3> HIDE DEF back, below, rest
      <3>2. /\ \A k \in DOMAIN below : \E j \in DOMAIN work' : work'[j] = below[k]
            /\ \E j \in DOMAIN work' : work'[j] = back
            /\ \A k \in DOMAIN rest : \E j \in DOMAIN work' : work'[j] = rest[k]
            /\ \A j \in DOMAIN work' :
                 \/ \E k \in DOMAIN below : work'[j] = below[k]
                 \/ work'[j] = back
                 \/ \E k \in DOMAIN rest : work'[j] = rest[k]
        BY <3>1, ConcatKeeps
      <3>3. QED
        BY <3>2 DEF below, rest
    <2>9. Settled(s)'
      <3>1. back.slot = s
        OBVIOUS
      <3>2. Pending(s)'
        BY <2>8, <3>1 DEF Pending
      <3>3. QED
        BY <3>2 DEF Settled
    <2>10. ASSUME NEW t, Settled(t)
           PROVE  Settled(t)'
      <3>1. ASSUME Pending(t) PROVE Settled(t)'
        <4>1. t = s \/ Pending(t)'
          BY <1>a, <1>1, <2>8, <3>1, PendingStep
        <4>2. QED
          BY <2>9, <4>1 DEF Settled
      <3>2. marked \subseteq marked'
        BY <1>9
      <3>3. QED
        BY <1>9, <2>3, <2>5, <2>10, <3>1, <3>2, KeepSettled
    <2>11. \A i \in DOMAIN mem[obj].slots : Settled(HeapSlot(obj, i))'
      <3>1. mem[obj].slots \in Seq(Ptr)
        BY <1>1, <2>1, CellType DEF TypeInv
      <3>2. \A i \in DOMAIN mem[obj].slots :
               i \in DOMAIN SlotsOf(obj)
               /\ SlotsOf(obj)[i].slot = HeapSlot(obj, i)
        BY <3>1 DEF SlotsOf, Item
      <3>3. ASSUME NEW i \in DOMAIN mem[obj].slots
            PROVE  Settled(HeapSlot(obj, i))'
        <4>1. PICK j \in DOMAIN work' : work'[j] = SlotsOf(obj)[i]
          BY <2>8, <3>2, <3>3
        <4>2. work'[j].slot = HeapSlot(obj, i)
          BY <3>2, <3>3, <4>1
        <4>3. \E k \in DOMAIN work' : work'[k].slot = HeapSlot(obj, i)
          BY <4>2
        <4>4. QED
          BY <4>3 DEF Settled, Pending, HeapSlot
      <3>4. QED
        BY <3>3
    <2>12. \A a \in marked' :
              RegionContains(Depth', a) =>
                \E k \in DOMAIN Top'.target_objects :
                   Top'.target_objects[k] = a
      <3> DEFINE old == Top.target_objects
      <3>7. old \in Seq(Addr)
        BY <1>3
      <3>2. \A a \in marked : RegionContains(Depth, a) =>
               \E k \in DOMAIN old : old[k] = a
        BY <1>1 DEF Complete
      <3>5. Top'.target_objects = IF hit THEN Append(old, obj) ELSE old
        BY <2>5
      <3>3. RegionContains(Depth, obj) => hit
        BY <1>9
      <3>4. marked' = marked \cup {obj}
        BY <1>9
      <3> HIDE DEF old, hit
      <3>1. /\ \A k \in DOMAIN old :
                 \E j \in DOMAIN Append(old, obj) : Append(old, obj)[j] = old[k]
            /\ \E j \in DOMAIN Append(old, obj) : Append(old, obj)[j] = obj
        <4>1. obj \in Addr
          BY <2>1
        <4>2. \A k \in DOMAIN old :
                 \E j \in DOMAIN Append(old, obj) :
                    Append(old, obj)[j] = old[k]
          BY <3>7, <4>1, AppendKeeps
        <4>3. \E j \in DOMAIN Append(old, obj) : Append(old, obj)[j] = obj
          BY <3>7, <4>1, AppendKeeps
        <4>4. QED
          BY <4>2, <4>3
      <3>6. ASSUME NEW a \in marked', RegionContains(Depth, a)
            PROVE  \E k \in DOMAIN Top'.target_objects :
                      Top'.target_objects[k] = a
        <4>1. a = obj \/ \E k \in DOMAIN old : old[k] = a
          BY <3>2, <3>4, <3>6
        <4>2. CASE hit
          <5>1. Top'.target_objects = Append(old, obj)
            BY <3>5, <4>2
          <5>2. \E j \in DOMAIN Append(old, obj) : Append(old, obj)[j] = a
            BY <3>1, <4>1, Zenon
          <5>3. QED
            BY <5>1, <5>2, Zenon
        <4>3. CASE ~hit
          <5>1. Top'.target_objects = old
            BY <3>5, <4>3
          <5>2. QED
            BY <3>3, <3>6, <4>1, <4>3, <5>1
        <4>4. QED
          BY <4>2, <4>3
      <3>8. QED
        BY <2>3, <3>6
    <2>13. Complete'
      <3>1. \A f \in DOMAIN state_stack', i \in RootIdx :
               f <= Top'.scanned => Settled(RootSlot(f, i))'
        BY <1>1, <1>9, <2>5, <2>10 DEF Complete
      <3>2. ASSUME NEW a \in marked', NEW i \in DOMAIN mem'[a].slots
            PROVE  Settled(HeapSlot(a, i))'
        <4>1. mem' = mem
          BY <1>9
        <4>2. CASE a \in marked
          BY <1>1, <2>10, <3>2, <4>1, <4>2 DEF Complete
        <4>3. CASE a = obj
          BY <2>11, <3>2, <4>1, <4>3
        <4>4. QED
          BY <1>9, <3>2, <4>2, <4>3
      <3>3. QED
        BY <2>12, <3>1, <3>2 DEF Complete
    <2>14. ComeBack'
      <3>1. \A k \in DOMAIN SlotsOf(obj) : ~SlotsOf(obj)[k].post
        BY DEF SlotsOf, Item
      <3>2. back.slot = s
        OBVIOUS
      <3>3. ASSUME NEW j \in DOMAIN work', work'[j].post
            PROVE  Load(work[j].slot)' \in marked'
        <4>1. ASSUME NEW t, t = work'[j].slot, Load(t) \in marked'
              PROVE  Load(work[j].slot)' \in marked'
          BY <1>9, <4>1 DEF Load
        <4>2. CASE \E k \in DOMAIN SlotsOf(obj) : work'[j] = SlotsOf(obj)[k]
          BY <3>1, <3>3, <4>2
        <4>3. CASE work'[j] = back
          BY <1>b, <1>9, <3>2, <4>1, <4>3
        <4>4. CASE \E k \in DOMAIN Tail(work) : work'[j] = Tail(work)[k]
          BY <1>4, <1>9, <3>3, <4>1, <4>4
        <4>5. QED
          BY <2>8, <4>2, <4>3, <4>4
      <3>4. QED
        BY <3>3 DEF ComeBack
    <2>15. QED
      BY <2>4, <2>13, <2>14, CompleteForm, PTL
  <1>10. QED
    BY <1>a, <1>b, <1>6, <1>7, <1>8, <1>9 DEF MarkAndFetchRecursively

----------------------------------------------------------------------------
(* The other steps *)

\* The process ends.
LEMMA HaltComplete ==
  ASSUME OutersWait, NEW why, why # "run", Halt(why)
  PROVE  OutersWait' /\ ComeBack' /\ MarkingComplete'
  <1>1. ~Marking'
    BY DEF Halt, Marking
  <1>2. OutersWait'
    BY DEF Halt, OutersWait, Depth
  <1>3. QED
    BY <1>1, <1>2, NotMarking

\* A new stage has marked nothing and entered no frame yet.
LEMMA BeginStageComplete ==
  ASSUME TypeInv, NEW st, st \in Seq(Stage),
         \A d \in 1 .. Len(st) : st[d].phase = "fix", BeginStage(st)
  PROVE  OutersWait' /\ ComeBack' /\ MarkingComplete'
  <1>1. NewStage \in Stage /\ NewStage.scanned = 0
    BY DEF NewStage, Stage
  <1>2. /\ Depth' = Len(st) + 1 /\ Top' = NewStage
        /\ \A d \in 1 .. Len(st) : stages_stack'[d] = st[d]
    <2>1. stages_stack' = Append(st, NewStage)
      BY DEF BeginStage
    <2>2. QED
      BY <1>1, <2>1 DEF Depth, Top
  <1>3. marked' = {} /\ work' = <<>> /\ state_stack' = state_stack
    BY DEF BeginStage
  <1>4. OutersWait'
    BY <1>2 DEF OutersWait
  <1>5. ComeBack'
    BY <1>3 DEF ComeBack
  <1>6. Complete'
    <2>1. \A f \in DOMAIN state_stack' : ~(f <= Top'.scanned)
      BY <1>1, <1>2, <1>3 DEF TypeInv, FramesOK
    <2>2. QED
      BY <1>3, <2>1 DEF Complete
  <1>7. QED
    BY <1>4, <1>5, <1>6, CompleteForm, PTL

\* RegionsPool::CleanupThis when no stage is under way.
LEMMA CleanupComplete ==
  ASSUME MarkInv, ~InGC, CleanupThis(stages_stack)
  PROVE  OutersWait' /\ ComeBack' /\ MarkingComplete'
  <1>1. TypeInv /\ OutersWait
    BY DEF MarkInv
  <1>2. stages_stack \in Seq(Stage)
        /\ \A d \in 1 .. Len(stages_stack) : stages_stack[d].phase = "fix"
    BY <1>1 DEF TypeInv, StagesOK, InGC, Depth
  <1>3. CASE BeginStage(stages_stack)
    BY <1>1, <1>2, <1>3, BeginStageComplete
  <1>4. CASE Halt("FORBIDDEN")
    BY <1>1, <1>4, HaltComplete
  <1>5. QED
    BY <1>3, <1>4 DEF CleanupThis

\* The innermost stage has marked.
LEMMA MovedOn ==
  ASSUME MarkInv, InGC, NEW st \in Stage, InItsRegion(st, Depth),
         st.phase # "mark", stages_stack' = SetTop(st)
  PROVE  OutersWait' /\ ComeBack' /\ MarkingComplete'
  <1>1. /\ Len(SetTop(st)) = Depth /\ SetTop(st)[Depth] = st
        /\ \A d \in 1 .. Depth - 1 : SetTop(st)[d] = stages_stack[d]
    BY SetTopType DEF MarkInv, TypeInv
  <1>2. Depth' = Depth /\ Top' = st
        /\ \A d \in 1 .. Depth - 1 : stages_stack'[d] = stages_stack[d]
    BY <1>1 DEF Depth, Top
  <1>3. ~Marking'
    BY <1>2 DEF Marking
  <1>4. OutersWait'
    BY <1>2 DEF OutersWait, MarkInv
  <1>5. QED
    BY <1>3, <1>4, NotMarking

\* Once the stage moves objects it no longer marks.
LEMMA StartMovingComplete ==
  ASSUME MarkInv, StartMoving
  PROVE  OutersWait' /\ ComeBack' /\ MarkingComplete'
  <1> DEFINE st == [Top EXCEPT !.phase = "move"]
  <1>1. InGC /\ stages_stack' = SetTop(st)
    BY DEF StartMoving, Marked, Marking
  <1>2. Top \in Stage /\ InItsRegion(Top, Depth)
    BY <1>1, TopType DEF MarkInv, TypeInv
  <1>3. st \in Stage /\ InItsRegion(st, Depth) /\ st.phase # "mark"
    BY <1>2 DEF Stage, InItsRegion
  <1> HIDE DEF st
  <1>4. QED
    BY <1>1, <1>3, MovedOn

\* A nested stage starts with nothing marked and no frame entered; the stage
\* around it waits in phase fix.
LEMMA CleanupNextComplete ==
  ASSUME MarkInv, CleanupNextRegion
  PROVE  OutersWait' /\ ComeBack' /\ MarkingComplete'
  <1> DEFINE top    == [Top EXCEPT !.phase = "fix"]
             stages == SetTop(top)
  <1>1. TypeInv /\ OutersWait /\ InGC /\ CleanupThis(stages)
    BY DEF CleanupNextRegion, Marked, Marking, MarkInv
  <1>2. Top \in Stage /\ InItsRegion(Top, Depth) /\ Depth \in 1 .. SURVIVORS_N
    BY <1>1, TopType DEF TypeInv
  <1>3. top \in Stage /\ InItsRegion(top, Depth) /\ top.phase = "fix"
    BY <1>2 DEF Stage, InItsRegion
  <1> HIDE DEF top
  <1>4. /\ stages \in Seq(Stage) /\ Len(stages) = Depth
        /\ stages[Depth] = top
        /\ \A d \in 1 .. Depth - 1 : stages[d] = stages_stack[d]
    BY <1>1, <1>3, SetTopType DEF TypeInv, StagesOK
  <1> HIDE DEF stages
  <1>5. \A d \in 1 .. Len(stages) : stages[d].phase = "fix"
    <2>1. \A d \in 1 .. Depth : d = Depth \/ d \in 1 .. Depth - 1
      BY <1>2
    <2>2. QED
      BY <1>1, <1>3, <1>4, <2>1 DEF OutersWait
  <1>6. CASE BeginStage(stages)
    BY <1>1, <1>4, <1>5, <1>6, BeginStageComplete
  <1>7. CASE Halt("FORBIDDEN")
    BY <1>1, <1>7, HaltComplete
  <1>8. QED
    BY <1>1, <1>6, <1>7 DEF CleanupThis

\* Fixing the references of the waiting stages starts no marking.
LEMMA FixInvalidComplete ==
  ASSUME MarkInv, FixInvalidDanglingReferences
  PROVE  OutersWait' /\ ComeBack' /\ MarkingComplete'
  <1> DEFINE fixed(d) ==
        [stages_stack[d] EXCEPT
           !.phase = IF d = Depth THEN "move" ELSE @,
           !.references_to_targets = [k \in DOMAIN @ |-> FollowHolder(@[k])]]
  <1>1. CASE Halt("ASSERT")
    BY <1>1, HaltComplete DEF MarkInv
  <1>2. CASE stages_stack' = [d \in 1 .. Depth |-> fixed(d)]
    <2>1. stages_stack \in Seq(Stage) /\ Depth \in Nat /\ Depth > 0
      <3>1. InGC
        BY DEF FixInvalidDanglingReferences
      <3>2. stages_stack \in Seq(Stage)
        BY DEF MarkInv, TypeInv, StagesOK
      <3>3. QED
        BY <3>1, <3>2 DEF InGC, Depth
    <2>2. \A d \in 1 .. Depth :
             fixed(d).phase =
               IF d = Depth THEN "move" ELSE stages_stack[d].phase
      <3>1. \A d \in 1 .. Depth : stages_stack[d] \in Stage
        BY <2>1 DEF Depth
      <3>2. QED
        BY <3>1 DEF Stage
    <2> HIDE DEF fixed
    <2>3. Depth' = Depth
      <3>1. Len(stages_stack') = Depth
        BY <1>2, <2>1
      <3>2. QED
        BY <3>1 DEF Depth
    <2>4. \A d \in 1 .. Depth :
             stages_stack'[d].phase =
               IF d = Depth THEN "move" ELSE stages_stack[d].phase
      BY <1>2, <2>2
    <2>5. ~Marking'
      BY <2>1, <2>3, <2>4 DEF Marking, Top
    <2>6. OutersWait'
      <3>1. \A d \in 1 .. Depth - 1 : d \in 1 .. Depth /\ d # Depth
        BY <2>1
      <3>2. QED
        BY <2>3, <2>4, <3>1 DEF OutersWait, MarkInv
    <2>7. QED
      BY <2>5, <2>6, NotMarking
  <1>3. QED
    BY <1>1, <1>2 DEF FixInvalidDanglingReferences

\* The rounds of MoveObjects and RebindLinks.
LEMMA MovingComplete ==
  ASSUME MarkInv, MoveObject \/ RebindLink
  PROVE  OutersWait' /\ ComeBack' /\ MarkingComplete'
  <1> DEFINE moved  == [Top EXCEPT !.target_objects = Front(@)]
             rebound == [Top EXCEPT !.references_to_targets = Front(@)]
  <1>1. InGC /\ Top.phase = "move"
    BY DEF MoveObject, RebindLink, Moving
  <1>2. Top \in Stage /\ InItsRegion(Top, Depth)
    BY <1>1, TopType DEF MarkInv, TypeInv
  <1>3. CASE Halt("ASSERT") \/ Halt("GC_OOM")
    BY <1>3, HaltComplete DEF MarkInv
  <1>4. CASE stages_stack' = SetTop(moved) /\ Top.target_objects # <<>>
    <2> DEFINE old == Top.target_objects
    <2>1. old \in Seq(Addr) /\ old # <<>>
      BY <1>2, <1>4 DEF Stage
    <2>2. /\ Front(old) \in Seq(Addr) /\ Len(Front(old)) = Len(old) - 1
          /\ \A i \in 1 .. Len(old) - 1 : Front(old)[i] = old[i]
      <3> HIDE DEF old
      <3>1. QED
        BY <2>1, FrontFacts
    <2>3. moved \in Stage /\ moved.target_objects = Front(old)
          /\ moved.phase = "move"
      BY <1>1, <1>2, <2>2 DEF Stage
    <2>4. InItsRegion(moved, Depth)
      BY <1>2, <2>1, <2>2, <2>3 DEF InItsRegion
    <2> HIDE DEF moved
    <2>5. QED
      BY <1>1, <1>4, <2>3, <2>4, MovedOn
  <1>5. CASE stages_stack' = SetTop(rebound) /\ Top.references_to_targets # <<>>
    <2> DEFINE old == Top.references_to_targets
    <2>1. old \in Seq(Slot) /\ old # <<>>
      BY <1>2, <1>5 DEF Stage
    <2>2. Front(old) \in Seq(Slot)
      <3> HIDE DEF old
      <3>1. QED
        BY <2>1, FrontFacts
    <2>3. rebound \in Stage /\ rebound.target_objects = Top.target_objects
          /\ rebound.phase = "move"
      BY <1>1, <1>2, <2>2 DEF Stage
    <2>4. InItsRegion(rebound, Depth)
      BY <1>2, <2>3 DEF InItsRegion
    <2> HIDE DEF rebound
    <2>5. QED
      BY <1>1, <1>5, <2>3, <2>4, MovedOn
  <1>6. CASE MoveObject
    BY <1>3, <1>4, <1>6 DEF MoveObject
  <1>7. CASE RebindLink
    BY <1>3, <1>5, <1>7 DEF RebindLink
  <1>8. QED
    BY <1>6, <1>7

\* The stage that waited for this one does not mark again.
LEMMA FinalizeComplete ==
  ASSUME MarkInv, FinalizeStage
  PROVE  OutersWait' /\ ComeBack' /\ MarkingComplete'
  <1>1. InGC /\ stages_stack' = Front(stages_stack)
    BY DEF FinalizeStage, Moving
  <1>2. stages_stack \in Seq(Stage) /\ stages_stack # <<>> /\ Depth \in Nat \ {0}
    BY <1>1 DEF MarkInv, TypeInv, StagesOK, InGC, Depth
  <1>3. /\ Depth' = Depth - 1
        /\ \A i \in 1 .. Depth - 1 : stages_stack'[i] = stages_stack[i]
    BY <1>1, <1>2, FrontFacts DEF Depth
  <1>4. \A i \in 1 .. Depth' : stages_stack'[i].phase = "fix"
    BY <1>3 DEF OutersWait, MarkInv
  <1>5. ~Marking'
    <2>1. CASE Depth' = 0
      BY <2>1 DEF Marking, InGC
    <2>2. CASE Depth' # 0
      <3>1. Depth' \in 1 .. Depth'
        BY <1>2, <1>3, <2>2
      <3>2. QED
        BY <1>4, <3>1 DEF Marking, Top
    <2>3. QED
      BY <2>1, <2>2
  <1>6. OutersWait'
    <2>1. \A i \in 1 .. Depth' - 1 : i \in 1 .. Depth'
      BY <1>2, <1>3
    <2>2. QED
      BY <1>4, <2>1 DEF OutersWait
  <1>7. QED
    BY <1>5, <1>6, NotMarking

\* An instruction, or a step of an allocation that starts no stage.
LEMMA NoStage ==
  ASSUME MarkInv, ~InGC, UNCHANGED stages_stack
  PROVE  OutersWait' /\ ComeBack' /\ MarkingComplete'
  <1>1. Depth' = Depth
    BY DEF Depth
  <1>2. ~Marking'
    BY <1>1 DEF Marking, InGC
  <1>3. OutersWait'
    BY <1>1 DEF MarkInv, OutersWait
  <1>4. QED
    BY <1>2, <1>3, NotMarking

\* An allocation either starts a stage with nothing marked or leaves the
\* collector at rest.
LEMMA AllocComplete ==
  ASSUME MarkInv, AllocStep
  PROVE  OutersWait' /\ ComeBack' /\ MarkingComplete'
  <1>1. ~InGC
    BY DEF AllocStep, NewSimple, PrepareForSequentAllocations,
           NewObjectStorage, NewMethod, EndSequentAllocations, Waiting, Running
  <1>2. ASSUME NEW size, NoRoom(size)
        PROVE  CleanupThis(stages_stack) \/ UNCHANGED stages_stack
    BY <1>2 DEF NoRoom, Stop, Halt
  <1>3. ASSUME NEW size, NEW req, Place(size, req)
        PROVE  UNCHANGED stages_stack
    BY <1>3 DEF Place
  <1>4. CleanupThis(stages_stack) \/ UNCHANGED stages_stack
    <2>1. CASE NewSimple
      BY <1>2, <1>3, <2>1 DEF NewSimple
    <2>2. CASE PrepareForSequentAllocations
      BY <2>2 DEF PrepareForSequentAllocations, Halt
    <2>3. CASE NewObjectStorage
      BY <1>2, <1>3, <2>3 DEF NewObjectStorage
    <2>4. CASE NewMethod
      BY <1>2, <1>3, <2>4 DEF NewMethod
    <2>5. CASE EndSequentAllocations
      BY <2>5 DEF EndSequentAllocations
    <2>6. QED
      BY <2>1, <2>2, <2>3, <2>4, <2>5 DEF AllocStep
  <1>5. QED
    BY <1>1, <1>4, CleanupComplete, NoStage

\* Instructions run between collections only.
LEMMA InstructionComplete ==
  ASSUME MarkInv, Instruction
  PROVE  OutersWait' /\ ComeBack' /\ MarkingComplete'
  <1>1. ~InGC /\ UNCHANGED stages_stack
    BY DEF Instruction, LDAI_NUM, LDAI_FUNC, LDAI_STR, LDAI_OBJ, NEWARR, LDA,
           STA, STNULL, MOV, GETARG, GETTHIS, SETARG, GETRET0, SETRET0, CALL,
           RET, SETELEM_ARR, GETELEM_ARR, SETELEM_OBJ, GETELEM_OBJ, NoOverload,
           Idle, Running, Await, gcVars, WriteRoot, WriteSlot, ReadInto, Rest,
           Stop, Halt
  <1>2. QED
    BY <1>1, NoStage
----------------------------------------------------------------------------
(* The theorem *)

\* Every step of the machine keeps the invariant.
LEMMA NextMark ==
  ASSUME MarkInv, [Next]_vars
  PROVE  MarkInv'
  <1>1. TypeInv'
    BY NextType DEF MarkInv
  <1>2. OutersWait' /\ ComeBack' /\ MarkingComplete'
    <2>1. CASE Instruction
      BY <2>1, InstructionComplete
    <2>2. CASE AllocStep
      BY <2>2, AllocComplete
    <2>3. CASE GC
      <3>1. CASE TenuredIsFull
        BY <3>1, HaltComplete DEF TenuredIsFull, MarkInv
      <3>2. QED
        BY <2>3, <3>1, MarkFrameComplete, MarkComplete, StartMovingComplete,
           CleanupNextComplete, FixInvalidComplete, MovingComplete,
           FinalizeComplete DEF GC, GCStep
    <2>4. CASE Ended \/ UNCHANGED vars
      <3>1. OutersWait' /\ ComeBack'
        BY <2>4
           DEF Ended, vars, MarkInv, OutersWait, ComeBack, Marking, InGC, Depth,
               Top, Load, IsRoot
      <3>2. MarkingComplete'
        <4>1. UNCHANGED <<Depth, Top, Marking, RootSlots, marked>>
          BY <2>4 DEF Ended, vars, Depth, Top, Marking, InGC, RootSlots
        <4>2. SlotsIn(marked)' = SlotsIn(marked)
          BY <2>4 DEF Ended, vars, SlotsIn
        <4>3. ASSUME NEW s
              PROVE  Settled(s)' <=> Settled(s)
          BY <2>4 DEF Ended, vars, Settled, Load, IsRoot, Pending, Depth, Top
        <4>4. QED
          BY <4>1, <4>2, <4>3 DEF MarkInv, MarkingComplete
      <3>3. QED
        BY <3>1, <3>2
    <2>5. QED
      BY <2>1, <2>2, <2>3, <2>4 DEF Next
  <1>3. QED
    BY <1>1, <1>2 DEF MarkInv

\* For every heap and every program: while a stage marks, each root of the
\* frames it has entered and each register of a marked object is empty, still
\* to be visited, or leads to a marked object, and is recorded if that object
\* is to move.  So the marking ends with every object to move and every slot
\* to rebind collected.
THEOREM MarkingMissesNothing == Spec => []MarkingComplete
  <1>1. Init => MarkInv
    <2>1. ASSUME Init PROVE MarkInv
      <3>1. TypeInv
        BY <2>1, InitType
      <3>2. ~InGC /\ Depth = 0
        BY <2>1 DEF Init, InGC, Depth
      <3>3. ~Marking
        BY <3>2 DEF Marking
      <3>4. OutersWait /\ ComeBack /\ MarkingComplete
        BY <3>2, <3>3 DEF OutersWait, ComeBack, MarkingComplete
      <3>5. QED
        BY <3>1, <3>4 DEF MarkInv
    <2>2. QED
      BY <2>1
  <1>2. MarkInv /\ [Next]_vars => MarkInv'
    BY NextMark
  <1>3. MarkInv => MarkingComplete
    BY DEF MarkInv
  <1>4. QED
    BY <1>1, <1>2, <1>3, PTL DEF Spec
=============================================================================
