----------------------------- MODULE HeapProofs -----------------------------
(***************************************************************************)
(* The heap between collections: a set of objects that is closed under the *)
(* pointers of the program and in which every object is in place.  What    *)
(* the program reaches lies in every closed set, however long the chain of *)
(* pointers.                                                               *)
(***************************************************************************)
EXTENDS AllocationProofs, WellFoundedInduction

----------------------------------------------------------------------------
(* Closed sets of objects *)

Held(S) == S \cup {nullptr}

\* The pointers in the frames lead into S, and so do those of its objects.
Closed(S) ==
  /\ \A f \in DOMAIN state_stack : \A i \in RootIdx :
       state_stack[f][i] \in Held(S)
  /\ \A a \in S : \A i \in DOMAIN mem[a].slots : mem[a].slots[i] \in Held(S)

\* A nonempty set of naturals has a least element.
LEMMA LeastNat ==
  ASSUME NEW T \in SUBSET Nat, T # {}
  PROVE  \E x \in T : \A y \in T : x <= y
  <1>1. IsWellFoundedOn(OpToRel(<, Nat), Nat)
    BY NatLessThanWellFounded
  <1>2. PICK x \in T : \A y \in T : <<y, x>> \notin OpToRel(<, Nat)
    BY <1>1, WFMin
  <1>3. ASSUME NEW y \in T
        PROVE  x <= y
    <2>1. x \in Nat /\ y \in Nat
      BY <1>2
    <2>2. ~(y < x)
      <3>1. <<y, x>> \notin OpToRel(<, Nat)
        BY <1>2
      <3>2. QED
        BY <2>1, <3>1 DEF OpToRel
    <2>3. QED
      BY <2>1, <2>2
  <1>4. QED
    BY <1>3

\* The sets that Reachable computes one after the other.
Within(f, n) ==
  IF n = 0 THEN Targets(RootSlots)
  ELSE LET near == f[n - 1] IN near \cup Targets(SlotsIn(near))

\* There is such a chain of sets, of every length.
LEMMA ChainExists ==
  ASSUME NEW N \in Nat
  PROVE  \E f : f = [n \in 0 .. N |-> Within(f, n)]
  <1> DEFINE Chain(f, n) == /\ f = [k \in 0 .. n |-> f[k]]
                            /\ \A k \in 0 .. n : f[k] = Within(f, k)
             Bad == {n \in Nat : \A f : ~Chain(f, n)}
  <1>1. Bad = {}
    <2>1. SUFFICES ASSUME Bad # {}
                   PROVE  FALSE
      OBVIOUS
    <2>2. Bad \in SUBSET Nat
      OBVIOUS
    <2>3. PICK x \in Bad : \A y \in Bad : x <= y
      <3> HIDE DEF Bad
      <3>1. QED
        BY <2>1, <2>2, LeastNat
    <2>4. x \in Nat
      OBVIOUS
    <2>5. CASE x = 0
      <3> DEFINE g == [k \in 0 .. 0 |-> Targets(RootSlots)]
      <3>1. Chain(g, 0)
        BY DEF Within
      <3>2. QED
        BY <2>5, <3>1
    <2>6. CASE x # 0
      <3>1. x - 1 \in Nat /\ ~(x <= x - 1)
        BY <2>4, <2>6
      <3>2. x - 1 \notin Bad
        BY <2>3, <3>1
      <3>3. PICK f : Chain(f, x - 1)
        BY <3>1, <3>2
      <3> DEFINE g == [k \in 0 .. x |-> IF k = x THEN Within(f, x) ELSE f[k]]
      <3>4. ASSUME NEW k \in 0 .. x
            PROVE  g[k] = Within(g, k)
        <4>1. CASE k = 0
          <5>1. k \in 0 .. x - 1 /\ k # x
            BY <2>4, <2>6, <4>1
          <5>2. g[k] = f[k] /\ f[k] = Within(f, k)
            BY <3>3, <5>1
          <5>3. QED
            BY <4>1, <5>2 DEF Within
        <4>2. CASE k # 0
          <5>1. k - 1 \in 0 .. x - 1 /\ k - 1 # x /\ k - 1 \in 0 .. x
            BY <2>4, <3>4, <4>2
          <5>2. g[k - 1] = f[k - 1]
            BY <5>1
          <5>3. g[k] = Within(f, k)
            <6>1. CASE k = x
              BY <6>1
            <6>2. CASE k # x
              <7>1. k \in 0 .. x - 1
                BY <2>4, <3>4, <6>2
              <7>2. QED
                BY <3>3, <6>2, <7>1
            <6>3. QED
              BY <6>1, <6>2
          <5> HIDE DEF g
          <5>4. QED
            BY <5>2, <5>3 DEF Within
        <4>3. QED
          BY <4>1, <4>2
      <3>5. Chain(g, x)
        <4>1. g = [k \in 0 .. x |-> g[k]]
          OBVIOUS
        <4> HIDE DEF g
        <4>2. QED
          BY <3>4, <4>1
      <3> HIDE DEF g
      <3>6. QED
        BY <3>5, <2>3
    <2>7. QED
      BY <2>5, <2>6
  <1>2. PICK f : Chain(f, N)
    BY <1>1
  <1>3. QED
    BY <1>2

\* What the program reaches is the last of them.
LEMMA ReachableChain ==
  /\ HeapSize \in Nat
  /\ \E f : /\ \A n \in 0 .. HeapSize : f[n] = Within(f, n)
            /\ Reachable = f[HeapSize]
  <1> DEFINE W == CHOOSE f : f = [n \in 0 .. HeapSize |-> Within(f, n)]
  <1>1. HeapSize \in Nat
    BY RegionsAssumption DEF HeapSize
  <1>2. W = [n \in 0 .. HeapSize |-> Within(W, n)]
    BY <1>1, ChainExists
  <1>3. Reachable = W[HeapSize]
    BY Zenon DEF Reachable, Within
  <1> HIDE DEF W
  <1>4. \A n \in 0 .. HeapSize : W[n] = Within(W, n)
    BY <1>2
  <1>5. QED
    BY <1>1, <1>3, <1>4

\* What the program reaches lies in every closed set.
LEMMA ReachableClosed ==
  ASSUME TypeInv, NEW S \in SUBSET Addr, Closed(S)
  PROVE  Reachable \subseteq S
  <1>a. Targets(RootSlots) \subseteq S
    <2>1. \A f, i : IsRoot(RootSlot(f, i))
                    /\ Load(RootSlot(f, i)) = state_stack[f][i]
      BY DEF IsRoot, RootSlot, Load
    <2>2. QED
      BY <2>1 DEF Targets, RootSlots, Closed, Held
  <1>b. Targets(SlotsIn(S)) \subseteq S
    <2>1. \A a \in S : \A i : Load(HeapSlot(a, i)) = mem[a].slots[i]
      BY DEF IsRoot, HeapSlot, Load, nullptr, Addr, START_PTR
    <2>2. QED
      BY <2>1 DEF Targets, SlotsIn, Closed, Held
  <1>1. HeapSize \in Nat
    BY ReachableChain
  <1>2. PICK W : /\ \A n \in 0 .. HeapSize : W[n] = Within(W, n)
                 /\ Reachable = W[HeapSize]
    BY ReachableChain
  <1> DEFINE Bad == {n \in 0 .. HeapSize : ~(W[n] \subseteq S)}
  <1>4. Bad = {}
    <2>1. SUFFICES ASSUME Bad # {}
                   PROVE  FALSE
      OBVIOUS
    <2>2. Bad \in SUBSET Nat
      BY <1>1
    <2>3. PICK x \in Bad : \A y \in Bad : x <= y
      <3> HIDE DEF Bad
      <3>1. QED
        BY <2>1, <2>2, LeastNat
    <2>4. x \in 0 .. HeapSize /\ x \in Nat
      BY <1>1
    <2>5. W[x] = Within(W, x)
      BY <1>2, <2>4
    <2>6. CASE x = 0
      BY <1>a, <2>4, <2>5, <2>6 DEF Within
    <2>7. CASE x # 0
      <3>1. x - 1 \in 0 .. HeapSize /\ ~(x <= x - 1)
        BY <1>1, <2>4, <2>7
      <3>2. W[x - 1] \subseteq S
        BY <2>3, <3>1
      <3> DEFINE near == W[x - 1]
      <3>3. Targets(SlotsIn(near)) \subseteq S
        <4>1. SlotsIn(near) \subseteq SlotsIn(S)
          BY <3>2 DEF SlotsIn
        <4>2. Targets(SlotsIn(near)) \subseteq Targets(SlotsIn(S))
          BY <4>1 DEF Targets
        <4>3. QED
          BY <1>b, <4>2
      <3>4. Within(W, x) = near \cup Targets(SlotsIn(near))
        BY <2>7 DEF Within
      <3>5. W[x] \subseteq S
        BY <2>5, <3>2, <3>3, <3>4
      <3>6. QED
        BY <3>5
    <2>8. QED
      BY <2>6, <2>7
  <1>5. HeapSize \in 0 .. HeapSize
    BY <1>1
  <1>6. QED
    BY <1>2, <1>4, <1>5

----------------------------------------------------------------------------
(* Objects in place *)

\* An object a pointer may lead to: below the cursor of its region, with its
\* header, and no forwarded leftover.
Good(a) == Allocated(a) /\ mem[a] # NoObj /\ ~WasRelocated(a)

SafeSet(S) == S \subseteq Addr /\ Closed(S) /\ \A a \in S : Good(a)

\* Between collections some closed set of objects in place holds everything
\* the program and the constructor under way point to.
HeapSafe ==
  status = "run" /\ ~InGC =>
    \E S \in SUBSET Addr :
      /\ SafeSet(S)
      /\ request # NoRequest => request.obj \in Held(S)

\* That is what NoDanglingPointer asks for.
LEMMA HeapSafeImplies ==
  ASSUME TypeInv, HeapSafe
  PROVE  NoDanglingPointer
  BY ReachableClosed DEF HeapSafe, SafeSet, Good, NoDanglingPointer

\* An address lies in one region.
LEMMA OneRegion ==
  ASSUME NEW a \in Int, NEW q \in RegionIds, NEW r \in RegionIds,
         RegionContains(q, a), RegionContains(r, a)
  PROVE  q = r
  <1>1. /\ StartPtr(q) \in Int /\ StartPtr(r) \in Int
        /\ RegionSize(q) \in Nat /\ RegionSize(r) \in Nat
    BY RegionsAssumption
       DEF StartPtr, START_PTR, RegionIds, Tenured, RegionSize
  <1>2. ~(q < r)
    BY <1>1, RegionsApart DEF RegionContains
  <1>3. ~(r < q)
    BY <1>1, RegionsApart DEF RegionContains
  <1>4. q \in Int /\ r \in Int
    BY DEF RegionIds
  <1>5. QED
    BY <1>2, <1>3, <1>4

\* An allocated address is below the cursor of the region it lies in.
LEMMA AllocatedBelow ==
  ASSUME NEW a \in Int, NEW r \in RegionIds, RegionContains(r, a)
  PROVE  Allocated(a) <=> (a >= StartPtr(r) + CURSOR /\ a < CursorPtr(r))
  BY OneRegion DEF Allocated

\* The program's steps between collections keep a safe set safe: no cursor
\* moves back, no header of the set changes, and what is written leads into
\* the set.
LEMMA KeepSafe ==
  ASSUME TypeInv, NEW S \in SUBSET Addr, SafeSet(S), UNCHANGED cursor,
         \A f \in DOMAIN state_stack' : \A i \in RootIdx :
            state_stack'[f][i] \in Held(S),
         \A a \in S :
            /\ mem'[a] # NoObj
            /\ mem'[a].relocated_ptr = mem[a].relocated_ptr
            /\ \A i \in DOMAIN mem'[a].slots : mem'[a].slots[i] \in Held(S)
  PROVE  SafeSet(S)'
  <1>1. Closed(S)'
    BY DEF Closed
  <1>2. ASSUME NEW a \in S
        PROVE  Good(a)'
    <2>1. Good(a)
      BY DEF SafeSet
    <2>2. Allocated(a)'
      BY <2>1 DEF Good, Allocated, CursorPtr
    <2>3. mem'[a] # NoObj /\ ~WasRelocated(a)'
      BY <2>1 DEF Good, WasRelocated
    <2>4. QED
      BY <2>2, <2>3 DEF Good
  <1>3. QED
    BY <1>1, <1>2 DEF SafeSet

\* Writing a register: the set stays safe if the pointer leads into it.
LEMMA SlotWriteSafe ==
  ASSUME TypeInv, NEW S \in SUBSET Addr, SafeSet(S), UNCHANGED cursor,
         \A f \in DOMAIN state_stack' : \A i \in RootIdx :
            state_stack'[f][i] \in Held(S),
         NEW b, NEW j, NEW p \in Held(S),
         mem' = [mem EXCEPT ![b].slots[j] = p]
  PROVE  SafeSet(S)'
  <1>1. SlotWritten(mem, mem', b, j, p)
    BY SlotWriteFacts DEF TypeInv
  <1>2. ASSUME NEW a \in S
        PROVE  /\ mem'[a] # NoObj
               /\ mem'[a].relocated_ptr = mem[a].relocated_ptr
               /\ \A i \in DOMAIN mem'[a].slots : mem'[a].slots[i] \in Held(S)
    <2>1. a \in Addr /\ mem[a] # NoObj
          /\ \A i \in DOMAIN mem[a].slots : mem[a].slots[i] \in Held(S)
      BY DEF SafeSet, Good, Closed
    <2>2. /\ mem'[a] = NoObj <=> mem[a] = NoObj
          /\ mem'[a].relocated_ptr = mem[a].relocated_ptr
          /\ DOMAIN mem'[a].slots = DOMAIN mem[a].slots
          /\ \A i \in DOMAIN mem[a].slots :
               mem'[a].slots[i] = IF a = b /\ i = j THEN p
                                                    ELSE mem[a].slots[i]
      BY <1>1, <2>1 DEF SlotWritten
    <2>3. QED
      BY <2>1, <2>2
  <1>3. QED
    BY <1>2, KeepSafe

\* Writing a root.
LEMMA RootWritten ==
  ASSUME TypeInv, NEW S, Closed(S), NEW i, NEW p \in Held(S),
         state_stack' = SetRoot(i, p)
  PROVE  \A f \in DOMAIN state_stack' : \A j \in RootIdx :
            state_stack'[f][j] \in Held(S)
  <1> SUFFICES ASSUME NEW f \in DOMAIN state_stack', NEW j \in RootIdx
               PROVE  state_stack'[f][j] \in Held(S)
    OBVIOUS
  <1>1. state_stack \in Seq(Frame) /\ f \in DOMAIN state_stack
    BY DEF SetRoot, TypeInv, FramesOK
  <1>2. state_stack[f] \in [RootIdx -> Ptr]
    BY <1>1 DEF Frame
  <1>3. state_stack[f][j] \in Held(S)
    BY <1>1 DEF Closed
  <1>4. CASE f # Len(state_stack)
    BY <1>1, <1>3, <1>4 DEF SetRoot
  <1>5. CASE f = Len(state_stack)
    <2>1. state_stack'[f] = [state_stack[f] EXCEPT ![i] = p]
      BY <1>1, <1>5 DEF SetRoot
    <2>2. QED
      BY <1>2, <1>3, <2>1
  <1>6. QED
    BY <1>4, <1>5

\* The registers of the current frame lead into a closed set.
LEMMA RootsHeld ==
  ASSUME TypeInv, NEW S, Closed(S)
  PROVE  /\ Acc \in Held(S) /\ Callee \in Held(S)
         /\ \A r \in Regs : Reg(r) \in Held(S)
  <1>1. Len(state_stack) \in DOMAIN state_stack
    BY DEF TypeInv, FramesOK
  <1>2. /\ ACC \in RootIdx /\ CALLEE \in RootIdx
        /\ \A r \in Regs : REG(r) \in RootIdx
    BY FrameAssumption DEF ACC, CALLEE, REG, RootIdx, Regs
  <1>3. QED
    BY <1>1, <1>2 DEF Closed, Acc, Callee, Reg, Frame0

\* A step of the program that moves no cursor keeps a safe set.
Mutates(S) ==
  /\ UNCHANGED <<cursor, stages_stack, status>>
  /\ \/ request' = NoRequest
     \/ request'.obj = nullptr
  /\ \A f \in DOMAIN state_stack' : \A i \in RootIdx :
       state_stack'[f][i] \in Held(S)
  /\ \/ mem' = mem
     \/ \E b, j : \E p \in Held(S) : mem' = [mem EXCEPT ![b].slots[j] = p]

\* The heap stays safe, and with the same objects if the process goes on.
StaysSafe(S) == HeapSafe' /\ (status' = "run" => SafeSet(S)')

\* Such a step keeps the heap safe.
LEMMA MutatesSafe ==
  ASSUME TypeInv, NEW S \in SUBSET Addr, SafeSet(S), Mutates(S)
  PROVE  StaysSafe(S)
  <1>1. CASE mem' = mem
    <2>1. SafeSet(S)'
      BY <1>1, KeepSafe DEF SafeSet, Closed, Good, Mutates
    <2>2. QED
      BY <2>1 DEF StaysSafe, HeapSafe, Mutates, Held
  <1>2. ASSUME NEW b, NEW j, NEW p \in Held(S),
               mem' = [mem EXCEPT ![b].slots[j] = p]
        PROVE  StaysSafe(S)
    <2>1. SafeSet(S)'
      BY <1>2, SlotWriteSafe DEF Mutates
    <2>2. QED
      BY <2>1 DEF StaysSafe, HeapSafe, Mutates, Held
  <1>3. QED
    BY <1>1, <1>2 DEF Mutates

----------------------------------------------------------------------------
(* The instructions *)

\* A process that has ended has nothing left to show.
LEMMA HaltSafe ==
  ASSUME NEW why, why # "run", status' = why
  PROVE  HeapSafe' /\ \A S : StaysSafe(S)
  BY DEF HeapSafe, StaysSafe

\* Writing a root of the current frame.
LEMMA WriteRootSafe ==
  ASSUME TypeInv, NEW S \in SUBSET Addr, SafeSet(S), Idle,
         NEW i, NEW p \in Held(S), WriteRoot(i, p)
  PROVE  StaysSafe(S)
  <1>1. \A f \in DOMAIN state_stack' : \A j \in RootIdx :
           state_stack'[f][j] \in Held(S)
    BY RootWritten DEF WriteRoot, SafeSet
  <1>2. Mutates(S)
    BY <1>1 DEF Mutates, WriteRoot, Rest, Idle
  <1>3. QED
    BY <1>2, MutatesSafe

\* Writing a register of an object.
LEMMA WriteSlotSafe ==
  ASSUME TypeInv, NEW S \in SUBSET Addr, SafeSet(S), Idle,
         NEW a, NEW i, NEW p \in Held(S), WriteSlot(a, i, p)
  PROVE  StaysSafe(S)
  <1>1. \A f \in DOMAIN state_stack' : \A j \in RootIdx :
           state_stack'[f][j] \in Held(S)
    BY DEF WriteSlot, SafeSet, Closed
  <1>2. Mutates(S)
    BY <1>1 DEF Mutates, WriteSlot, Rest, Idle
  <1>3. QED
    BY <1>2, MutatesSafe

\* A pointer read from an object of the set leads into the set.
LEMMA ReadIntoSafe ==
  ASSUME TypeInv, NEW S \in SUBSET Addr, SafeSet(S), Idle,
         NEW root, NEW a \in Held(S), NEW i, ReadInto(root, a, i)
  PROVE  StaysSafe(S)
  <1>1. CASE Stop("UNDEFINED")
    BY <1>1, HaltSafe DEF Stop, Halt
  <1>2. CASE IsPlace(HeapSlot(a, i)) /\ WriteRoot(root, mem[a].slots[i])
    <2>1. a \in S /\ i \in DOMAIN mem[a].slots
      <3>1. HeapSlot(a, i).holder = a /\ HeapSlot(a, i).frame = 0
            /\ HeapSlot(a, i).idx = i
        BY DEF HeapSlot
      <3>2. 0 \notin DOMAIN state_stack
        BY DEF TypeInv, FramesOK
      <3>3. QED
        BY <1>2, <3>1, <3>2 DEF IsPlace, IsRoot, Held
    <2>2. mem[a].slots[i] \in Held(S)
      BY <2>1 DEF SafeSet, Closed
    <2>3. QED
      BY <1>2, <2>2, WriteRootSafe
  <1>3. QED
    BY <1>1, <1>2 DEF ReadInto

\* An instruction that asks for memory points nowhere yet.
LEMMA AwaitSafe ==
  ASSUME TypeInv, NEW S \in SUBSET Addr, SafeSet(S),
         NEW k, NEW n, NEW m, Await(Ask(k, n, m))
  PROVE  StaysSafe(S)
  <1>1. Mutates(S)
    BY DEF Await, Ask, Mutates, gcVars, SafeSet, Closed
  <1>2. QED
    BY <1>1, MutatesSafe

\* CALL and RET.
LEMMA FramesSafe ==
  ASSUME TypeInv, NEW S \in SUBSET Addr, SafeSet(S), CALL \/ RET
  PROVE  StaysSafe(S)
  <1>1. state_stack \in Seq(Frame) /\ Len(state_stack) >= 1
    BY DEF TypeInv, FramesOK
  <1>2. CASE Stop("OOM") \/ Stop("EXIT")
    BY <1>2, HaltSafe DEF Stop, Halt
  <1>3. CASE Idle /\ state_stack' = Append(state_stack, NewFrame(Acc))
             /\ Rest /\ UNCHANGED <<mem, request>>
    <2>1. Acc \in Held(S)
      BY RootsHeld DEF SafeSet
    <2>2. ASSUME NEW f \in DOMAIN state_stack', NEW i \in RootIdx
          PROVE  state_stack'[f][i] \in Held(S)
      <3>1. CASE f \in DOMAIN state_stack
        BY <1>1, <1>3, <3>1 DEF SafeSet, Closed
      <3>2. CASE f \notin DOMAIN state_stack
        <4>1. state_stack'[f] = NewFrame(Acc)
          BY <1>1, <1>3, <3>2
        <4>2. QED
          BY <2>1, <4>1 DEF NewFrame, Held
      <3>3. QED
        BY <3>1, <3>2
    <2>3. Mutates(S)
      BY <1>3, <2>2 DEF Mutates, Rest, Idle
    <2>4. QED
      BY <2>3, MutatesSafe
  <1>4. CASE Idle /\ Len(state_stack) # 1 /\ state_stack' = Front(state_stack)
             /\ Rest /\ UNCHANGED <<mem, request>>
    <2>1. /\ Front(state_stack) \in Seq(Frame)
          /\ Len(Front(state_stack)) = Len(state_stack) - 1
          /\ \A f \in 1 .. Len(state_stack) - 1 :
               Front(state_stack)[f] = state_stack[f]
      <3>1. state_stack # <<>>
        BY <1>1
      <3>2. QED
        BY <1>1, <3>1, FrontFacts
    <2>2. ASSUME NEW f \in DOMAIN state_stack', NEW i \in RootIdx
          PROVE  state_stack'[f][i] \in Held(S)
      BY <1>1, <1>4, <2>1, <2>2 DEF SafeSet, Closed
    <2>3. Mutates(S)
      BY <1>4, <2>2 DEF Mutates, Rest, Idle
    <2>4. QED
      BY <2>3, MutatesSafe
  <1>5. QED
    BY <1>2, <1>3, <1>4 DEF CALL, RET

\* GETELEM of an object binds the function it reads to the object.
LEMMA GetElemObjSafe ==
  ASSUME TypeInv, NEW S \in SUBSET Addr, SafeSet(S), GETELEM_OBJ
  PROVE  StaysSafe(S)
  <1>1. CASE Stop("FATAL")
    BY <1>1, HaltSafe DEF Stop, Halt
  <1>2. ASSUME NEW r \in Regs, NEW i \in DOMAIN mem[Reg(r)].slots, Idle,
               IsKind(Reg(r), "OBJ"), NEW elem,
               elem = mem[Reg(r)].slots[i],
               state_stack' = SetRoot(ACC, elem),
               \/ mem' = [mem EXCEPT ![elem].slots[THIS] = Reg(r)]
               \/ mem' = mem,
               Rest /\ UNCHANGED request
        PROVE  StaysSafe(S)
    <2>1. Reg(r) \in S
      BY <1>2, RootsHeld DEF SafeSet, IsKind, Held
    <2>2. elem \in Held(S) /\ Reg(r) \in Held(S)
      BY <1>2, <2>1 DEF SafeSet, Closed, Held
    <2>3. \A f \in DOMAIN state_stack' : \A j \in RootIdx :
             state_stack'[f][j] \in Held(S)
      BY <1>2, <2>2, RootWritten DEF SafeSet
    <2>4. Mutates(S)
      <3>1. \/ mem' = mem
            \/ \E b, j : \E p \in Held(S) :
                 mem' = [mem EXCEPT ![b].slots[j] = p]
        <4>1. CASE mem' = mem
          BY <4>1
        <4>2. CASE mem' = [mem EXCEPT ![elem].slots[THIS] = Reg(r)]
          <5>1. \E p \in Held(S) : mem' = [mem EXCEPT ![elem].slots[THIS] = p]
            BY <4>2, <2>2
          <5>2. QED
            BY <5>1
        <4>3. QED
          BY <1>2, <4>1, <4>2
      <3>2. /\ UNCHANGED <<cursor, stages_stack, status>>
            /\ request' = NoRequest
        BY <1>2 DEF Rest, Idle
      <3>3. QED
        BY <2>3, <3>1, <3>2 DEF Mutates
    <2>5. QED
      BY <2>4, MutatesSafe
  <1>3. QED
    <2>1. CASE \E r \in Regs : Idle /\ IsKind(Reg(r), "OBJ") /\
                \E i \in DOMAIN mem[Reg(r)].slots :
               LET elem == mem[Reg(r)].slots[i]
               IN  /\ state_stack' = SetRoot(ACC, elem)
                   /\ mem' = IF IsKind(elem, "FUNC")
                             THEN [mem EXCEPT ![elem].slots[THIS] = Reg(r)]
                             ELSE mem
                   /\ Rest /\ UNCHANGED request
      BY <1>2, <2>1, Zenon
    <2>2. QED
      BY <1>1, <2>1 DEF GETELEM_OBJ

\* An instruction comes when nothing else is under way.
LEMMA InstructionIdle ==
  ASSUME Instruction
  PROVE  Idle /\ status = "run" /\ ~InGC /\ request = NoRequest
  <1>1. Idle
    BY DEF Instruction, LDAI_NUM, LDAI_FUNC, LDAI_STR, LDAI_OBJ, NEWARR, Await,
           LDA, STA, STNULL, MOV, GETARG, GETTHIS, SETARG, GETRET0, SETRET0,
           CALL, RET, SETELEM_ARR, GETELEM_ARR, SETELEM_OBJ, GETELEM_OBJ,
           NoOverload
  <1>2. QED
    BY <1>1 DEF Idle, Running

\* Every instruction keeps the heap safe.
LEMMA InstructionStaysSafe ==
  ASSUME TypeInv, Instruction, NEW S \in SUBSET Addr, SafeSet(S)
  PROVE  StaysSafe(S)
  <1>1. Idle
    BY InstructionIdle
  <1>2. /\ nullptr \in Held(S) /\ Acc \in Held(S) /\ Callee \in Held(S)
        /\ \A r \in Regs : Reg(r) \in Held(S)
    BY RootsHeld DEF SafeSet, Held
  <1>3. ASSUME NEW why, Stop(why), why # "run"
        PROVE  StaysSafe(S)
    BY <1>3, HaltSafe DEF Stop, Halt
  <1>4. CASE LDAI_NUM \/ LDA \/ STA \/ STNULL \/ MOV
    BY <1>1, <1>2, <1>4, WriteRootSafe DEF LDAI_NUM, LDA, STA, STNULL, MOV
  <1>5. CASE LDAI_FUNC \/ LDAI_STR \/ LDAI_OBJ \/ NEWARR
    BY <1>5, AwaitSafe DEF LDAI_FUNC, LDAI_STR, LDAI_OBJ, NEWARR
  <1>6. CASE GETARG \/ GETTHIS \/ GETRET0 \/ GETELEM_ARR
    BY <1>1, <1>2, <1>6, ReadIntoSafe
       DEF GETARG, GETTHIS, GETRET0, GETELEM_ARR
  <1>7. CASE SETARG \/ SETRET0
    BY <1>1, <1>2, <1>7, WriteSlotSafe DEF SETARG, SETRET0
  <1>8. CASE SETELEM_ARR \/ SETELEM_OBJ
    BY <1>1, <1>2, <1>3, <1>8, WriteSlotSafe DEF SETELEM_ARR, SETELEM_OBJ
  <1>9. CASE CALL \/ RET
    BY <1>9, FramesSafe
  <1>10. CASE GETELEM_OBJ
    BY <1>10, GetElemObjSafe
  <1>11. CASE NoOverload
    BY <1>3, <1>11 DEF NoOverload
  <1>12. QED
    BY <1>4, <1>5, <1>6, <1>7, <1>8, <1>9, <1>10, <1>11 DEF Instruction

LEMMA InstructionSafe ==
  ASSUME TypeInv, HeapSafe, Instruction
  PROVE  HeapSafe'
  <1>1. PICK S \in SUBSET Addr : SafeSet(S)
    BY InstructionIdle DEF HeapSafe
  <1>2. QED
    BY <1>1, InstructionStaysSafe DEF StaysSafe

----------------------------------------------------------------------------
(* The allocations *)

\* An object constructed at a cursor overwrites nothing that is allocated.
LEMMA OverwriteKeeps ==
  ASSUME TypeInv, NEW r \in RegionIds, NEW obj \in Object,
         cursor[r] + obj.allocated_size <= RegionSize(r),
         NEW a \in Addr, Allocated(a)
  PROVE  /\ Overwrite(mem, CursorPtr(r), obj)[a] = mem[a]
         /\ a # CursorPtr(r)
         /\ a < CursorPtr(r) \/ a >= CursorPtr(r) + obj.allocated_size
  <1>1. PICK q \in RegionIds : /\ RegionContains(q, a)
                               /\ a >= StartPtr(q) + CURSOR /\ a < CursorPtr(q)
    BY DEF Allocated
  <1>2. /\ StartPtr(r) \in Int /\ CursorPtr(r) \in Int /\ RegionSize(r) \in Nat
        /\ cursor[r] \in Nat
        /\ StartPtr(r) + CURSOR <= CursorPtr(r)
    BY UsedCells
  <1>3. a \in Int /\ obj.allocated_size \in Nat \ {0}
    BY DEF Addr, Object
  <1>4. CursorPtr(r) + obj.allocated_size <= StartPtr(r) + RegionSize(r)
    BY <1>2, <1>3 DEF CursorPtr
  <1>5. a < CursorPtr(r) \/ a >= CursorPtr(r) + obj.allocated_size
    <2>1. CASE q = r
      BY <1>1, <2>1
    <2>2. CASE q # r
      <3>1. ~RegionContains(r, a)
        BY <1>1, <1>3, <2>2, OneRegion
      <3>2. QED
        BY <1>2, <1>3, <1>4, <3>1 DEF RegionContains, CURSOR
    <2>3. QED
      BY <2>1, <2>2
  <1>6. QED
    BY <1>2, <1>3, <1>5 DEF Overwrite

\* The object constructed there is in place, and what was stays in place.
LEMMA GrowAllocated ==
  ASSUME TypeInv, NEW r \in RegionIds, NEW size \in Nat \ {0},
         cursor[r] + size <= RegionSize(r),
         cursor' = [cursor EXCEPT ![r] = @ + size],
         NEW p, p = CursorPtr(r)
  PROVE  /\ \A a \in Addr : Allocated(a) => Allocated(a)'
         /\ Allocated(p)' /\ RegionContains(r, p)
         /\ p \in Addr
  <1>1. /\ StartPtr(r) \in Int /\ CursorPtr(r) \in Int /\ RegionSize(r) \in Nat
        /\ cursor[r] \in Nat
        /\ StartPtr(r) + CURSOR <= CursorPtr(r)
    BY UsedCells
  <1>2. /\ cursor \in [RegionIds -> Nat] /\ cursor' \in [RegionIds -> Nat]
        /\ cursor'[r] = cursor[r] + size
        /\ \A q \in RegionIds : cursor[q] <= cursor'[q]
    <2>1. cursor \in [RegionIds -> Nat]
      BY DEF TypeInv, CursorOK
    <2>2. cursor' \in [RegionIds -> Nat] /\ cursor'[r] = cursor[r] + size
      BY <2>1
    <2>3. \A q \in RegionIds : q # r => cursor'[q] = cursor[q]
      BY <2>1
    <2>4. \A q \in RegionIds : cursor[q] \in Nat
      BY <2>1
    <2>5. QED
      BY <2>1, <2>2, <2>3, <2>4
  <1>3. RegionContains(r, p)
    BY <1>1 DEF RegionContains, CursorPtr, CURSOR
  <1>4. Allocated(p)'
    <2>1. /\ p >= StartPtr(r) + CURSOR
          /\ p < StartPtr(r) + cursor'[r]
      BY <1>1, <1>2 DEF CursorPtr
    <2>2. QED
      BY <1>3, <2>1 DEF Allocated, CursorPtr
  <1>5. ASSUME NEW a \in Addr, Allocated(a)
        PROVE  Allocated(a)'
    <2>1. PICK q \in RegionIds : /\ RegionContains(q, a)
                                 /\ a >= StartPtr(q) + CURSOR
                                 /\ a < StartPtr(q) + cursor[q]
      BY <1>5 DEF Allocated, CursorPtr
    <2>2. StartPtr(q) \in Int /\ cursor[q] \in Nat /\ cursor'[q] \in Nat
          /\ cursor[q] <= cursor'[q] /\ a \in Int
      BY <1>2, UsedCells DEF Addr
    <2>3. a < StartPtr(q) + cursor'[q]
      BY <2>1, <2>2
    <2>4. QED
      BY <2>1, <2>3 DEF Allocated, CursorPtr
  <1>6. p \in Addr
    BY <1>1, <1>3, CellInHeap
  <1>7. QED
    BY <1>3, <1>4, <1>5, <1>6

\* The heap stays safe when an object with empty registers is constructed at
\* the cursor of the young region and a pointer to it is stored.
LEMMA GrowSafe ==
  ASSUME TypeInv, NEW S \in SUBSET Addr, SafeSet(S), status = "run", ~InGC,
         NEW p, p = CursorPtr(Young), NEW obj \in Object,
         obj.relocated_ptr = nullptr,
         \A i \in DOMAIN obj.slots : obj.slots[i] = nullptr,
         cursor[Young] + obj.allocated_size <= RegionSize(Young),
         cursor' = [cursor EXCEPT ![Young] = @ + obj.allocated_size],
         NEW T, T = S \cup {p},
         \A f \in DOMAIN state_stack' : \A i \in RootIdx :
            state_stack'[f][i] \in Held(T),
         NEW n, n = Overwrite(mem, p, obj),
         \/ mem' = n
         \/ \E b, j : SlotWritten(n, mem', b, j, p)
  PROVE  T \in SUBSET Addr /\ SafeSet(T)'
  <1>1. Young \in RegionIds /\ obj.allocated_size \in Nat \ {0}
    BY RegionsAssumption DEF Young, RegionIds, Tenured, Object
  <1>2. /\ \A a \in Addr : Allocated(a) => Allocated(a)'
        /\ Allocated(p)' /\ p \in Addr
    BY <1>1, GrowAllocated
  <1>3. ASSUME NEW a \in S
        PROVE  n[a] = mem[a] /\ Allocated(a)' /\ a \in Addr
    <2>1. a \in Addr /\ Allocated(a)
      BY DEF SafeSet, Good
    <2>2. QED
      BY <1>1, <1>2, <2>1, OverwriteKeeps
  <1>4. n[p] = obj
    BY <1>2 DEF Overwrite
  <1>5. obj # NoObj /\ nullptr \in Held(T) /\ Held(S) \subseteq Held(T)
        /\ p \in Held(T)
    BY <1>1 DEF NoObj, Held
  <1>6. ASSUME NEW a \in T
        PROVE  /\ n[a] # NoObj /\ n[a].relocated_ptr = nullptr
               /\ \A i \in DOMAIN n[a].slots : n[a].slots[i] \in Held(T)
               /\ Allocated(a)' /\ a \in Addr
    <2>1. CASE a \in S
      <3>1. n[a] = mem[a] /\ mem[a] # NoObj /\ mem[a].relocated_ptr = nullptr
        BY <1>3, <2>1 DEF SafeSet, Good, WasRelocated
      <3>2. \A i \in DOMAIN mem[a].slots : mem[a].slots[i] \in Held(S)
        BY <2>1 DEF SafeSet, Closed
      <3>3. QED
        BY <1>3, <1>5, <2>1, <3>1, <3>2
    <2>2. CASE a = p
      BY <1>2, <1>4, <1>5, <2>2
    <2>3. QED
      BY <2>1, <2>2
  <1>7. ASSUME NEW a \in T
        PROVE  /\ mem'[a] # NoObj /\ mem'[a].relocated_ptr = nullptr
               /\ \A i \in DOMAIN mem'[a].slots : mem'[a].slots[i] \in Held(T)
    <2>1. CASE mem' = n
      BY <1>6, <2>1
    <2>2. ASSUME NEW b, NEW j, SlotWritten(n, mem', b, j, p)
          PROVE  /\ mem'[a] # NoObj /\ mem'[a].relocated_ptr = nullptr
                 /\ \A i \in DOMAIN mem'[a].slots : mem'[a].slots[i] \in Held(T)
      <3>1. a \in Addr /\ n[a] # NoObj /\ n[a].relocated_ptr = nullptr
            /\ \A i \in DOMAIN n[a].slots : n[a].slots[i] \in Held(T)
        BY <1>6
      <3>2. /\ mem'[a] = NoObj <=> n[a] = NoObj
            /\ mem'[a].relocated_ptr = n[a].relocated_ptr
            /\ DOMAIN mem'[a].slots = DOMAIN n[a].slots
            /\ \A i \in DOMAIN n[a].slots :
                 mem'[a].slots[i] = IF a = b /\ i = j THEN p
                                                      ELSE n[a].slots[i]
        BY <2>2, <3>1 DEF SlotWritten
      <3>3. QED
        BY <1>5, <3>1, <3>2
    <2>3. QED
      BY <2>1, <2>2
  <1>8. Closed(T)'
    BY <1>7 DEF Closed
  <1>9. \A a \in T : Good(a)'
    BY <1>6, <1>7 DEF Good, WasRelocated
  <1>10. T \subseteq Addr
    BY <1>6
  <1>11. QED
    BY <1>8, <1>9, <1>10 DEF SafeSet

\* A fresh object holds no pointer.
LEMMA FreshEmpty ==
  ASSUME NEW k \in Kinds, NEW n \in Nat
  PROVE  /\ Fresh(k, n).relocated_ptr = nullptr
         /\ \A i \in DOMAIN Fresh(k, n).slots : Fresh(k, n).slots[i] = nullptr
         /\ Fresh(k, n).allocated_size = HEADER + n
         /\ Fresh(k, n) \in Object
  <1>1. /\ Fresh(k, n).relocated_ptr = nullptr
        /\ Fresh(k, n).allocated_size = HEADER + n
        /\ Fresh(k, n).slots = IF k = "STR" THEN <<>>
                                            ELSE [i \in 1 .. n |-> nullptr]
    BY DEF Fresh
  <1>2. DOMAIN <<>> = {}
    OBVIOUS
  <1>3. QED
    BY <1>1, <1>2, FreshType

\* A cleanup starts a collection, or ends the process.
LEMMA CleanupSafe ==
  ASSUME TypeInv, CleanupThis(stages_stack)
  PROVE  HeapSafe'
  <1>1. CASE Halt("FORBIDDEN")
    BY <1>1, HaltSafe DEF Halt
  <1>2. CASE BeginStage(stages_stack)
    <2>1. stages_stack \in Seq(Stage)
      BY DEF TypeInv, StagesOK
    <2>2. Len(stages_stack') > 0
      BY <1>2, <2>1 DEF BeginStage
    <2>3. QED
      BY <2>2 DEF HeapSafe, InGC, Depth
  <1>3. QED
    BY <1>1, <1>2 DEF CleanupThis

\* An allocation for which there is no room cleans, or ends the process.
LEMMA NoRoomSafe ==
  ASSUME TypeInv, NEW size, NoRoom(size)
  PROVE  HeapSafe'
  <1>1. CASE CleanupThis(stages_stack)
    BY <1>1, CleanupSafe
  <1>2. CASE Stop("ASSERT") \/ Stop("OOM")
    BY <1>2, HaltSafe DEF Stop, Halt
  <1>3. QED
    BY <1>1, <1>2 DEF NoRoom

\* Function::New, String::New and Array::New add the object they construct.
LEMMA SimplePlaced ==
  ASSUME TypeInv, status = "run", ~InGC, NEW S \in SUBSET Addr, SafeSet(S),
         NEW p, p = CursorPtr(Young), NEW obj \in Object,
         obj.relocated_ptr = nullptr,
         \A i \in DOMAIN obj.slots : obj.slots[i] = nullptr,
         cursor[Young] + obj.allocated_size <= RegionSize(Young),
         cursor' = [cursor EXCEPT ![Young] = @ + obj.allocated_size],
         mem' = Overwrite(mem, p, obj), state_stack' = SetRoot(ACC, p)
  PROVE  S \cup {p} \in SUBSET Addr /\ SafeSet(S \cup {p})'
  <1> DEFINE T == S \cup {p}
  <1>1. Closed(S) /\ Held(S) \subseteq Held(T) /\ p \in Held(T)
    BY DEF SafeSet, Held
  <1>2. \A f \in DOMAIN state_stack' : \A i \in RootIdx :
           state_stack'[f][i] \in Held(T)
    <2> SUFFICES ASSUME NEW f \in DOMAIN state_stack', NEW j \in RootIdx
                 PROVE  state_stack'[f][j] \in Held(T)
      OBVIOUS
    <2>1. state_stack \in Seq(Frame) /\ f \in DOMAIN state_stack
      BY DEF SetRoot, TypeInv, FramesOK
    <2>2. state_stack[f] \in [RootIdx -> Ptr]
      BY <2>1 DEF Frame
    <2>3. state_stack[f][j] \in Held(T)
      BY <1>1, <2>1 DEF Closed
    <2>4. CASE f # Len(state_stack)
      BY <2>1, <2>3, <2>4 DEF SetRoot
    <2>5. CASE f = Len(state_stack)
      <3>1. state_stack'[f] = [state_stack[f] EXCEPT ![ACC] = p]
        BY <2>1, <2>5 DEF SetRoot
      <3>2. QED
        BY <1>1, <2>2, <2>3, <3>1
    <2>6. QED
      BY <2>4, <2>5
  <1> DEFINE n == Overwrite(mem, p, obj)
  <1>3. mem' = n
    OBVIOUS
  <1> HIDE DEF n
  <1>4. QED
    BY <1>2, <1>3, GrowSafe DEF n

\* They keep the heap safe.
LEMMA NewSimpleSafe ==
  ASSUME TypeInv, HeapSafe, NewSimple
  PROVE  HeapSafe'
  <1>p. PICK p : p = CursorPtr(Young)
    OBVIOUS
  <1> DEFINE obj  == Fresh(request.kind, request.n)
             size == HEADER + request.n
  <1>1. Waiting("storage") /\ status = "run" /\ ~InGC
    BY DEF NewSimple, Waiting, Running
  <1>2. PICK S \in SUBSET Addr : SafeSet(S)
    BY <1>1 DEF HeapSafe
  <1>3. CASE NoRoom(size)
    BY <1>3, NoRoomSafe
  <1>4. CASE /\ Place(size, NoRequest)
             /\ mem' = Overwrite(mem, p, obj)
             /\ state_stack' = SetRoot(ACC, p)
    <2> DEFINE T == S \cup {p}
    <2>1. T \in SUBSET Addr /\ SafeSet(T)'
      <3>1. /\ obj \in Object /\ obj.allocated_size = size
            /\ obj.relocated_ptr = nullptr
            /\ \A i \in DOMAIN obj.slots : obj.slots[i] = nullptr
        BY <1>1, WaitingType, FreshEmpty
      <3>2. /\ cursor[Young] + size <= RegionSize(Young)
            /\ cursor' = [cursor EXCEPT ![Young] = @ + size]
        BY <1>4 DEF Place, Fits
      <3> HIDE DEF obj, size
      <3>3. QED
        BY <1>p, <1>1, <1>2, <1>4, <3>1, <3>2, SimplePlaced
    <2>2. request' = NoRequest
      BY <1>4 DEF Place
    <2>3. QED
      BY <2>1, <2>2 DEF HeapSafe
  <1>5. QED
    BY <1>p, <1>3, <1>4 DEF NewSimple

\* The storage of an object keeps the heap safe.
LEMMA NewObjectStorageSafe ==
  ASSUME TypeInv, HeapSafe, NewObjectStorage
  PROVE  HeapSafe'
  <1>p. PICK p : p = CursorPtr(Young)
    OBVIOUS
  <1> DEFINE obj  == Fresh("OBJ", request.n)
             size == HEADER + request.n
             req  == [request EXCEPT !.step = "methods", !.cleaned = FALSE,
                                     !.obj = p]
  <1>1. Waiting("storage") /\ status = "run" /\ ~InGC
    BY DEF NewObjectStorage, Waiting, Running
  <1>2. PICK S \in SUBSET Addr : SafeSet(S)
    BY <1>1 DEF HeapSafe
  <1>3. CASE NoRoom(size)
    BY <1>3, NoRoomSafe
  <1>4. CASE /\ Place(size, req)
             /\ mem' = Overwrite(mem, p, obj)
             /\ UNCHANGED state_stack
    <2>1. request \in Request /\ request.n \in Nat
      BY <1>1, WaitingType
    <2>2. /\ obj \in Object /\ obj.allocated_size = size
          /\ obj.relocated_ptr = nullptr
          /\ \A i \in DOMAIN obj.slots : obj.slots[i] = nullptr
      BY <2>1, FreshEmpty DEF Kinds
    <2>3. /\ cursor[Young] + size <= RegionSize(Young)
          /\ cursor' = [cursor EXCEPT ![Young] = @ + size]
          /\ request'.obj = p
      BY <1>4, <2>1 DEF Place, Fits, Request
    <2> DEFINE T == S \cup {p}
    <2>4. Closed(S) /\ Held(S) \subseteq Held(T) /\ p \in Held(T)
      BY <1>2 DEF SafeSet, Held
    <2>5. \A f \in DOMAIN state_stack' : \A i \in RootIdx :
             state_stack'[f][i] \in Held(T)
      BY <1>4, <2>4 DEF Closed
    <2>6. T \in SUBSET Addr /\ SafeSet(T)'
      <3> DEFINE n == Overwrite(mem, p, obj)
      <3>1. mem' = n
        BY <1>4
      <3> HIDE DEF obj, n
      <3>2. QED
        BY <1>p, <1>1, <1>2, <2>2, <2>3, <2>5, <3>1, GrowSafe DEF n
    <2>7. p \in Held(T)
      BY <2>4
    <2> HIDE DEF T
    <2>8. QED
      BY <2>3, <2>6, <2>7 DEF HeapSafe, Held
  <1>5. QED
    BY <1>p, <1>3, <1>4 DEF NewObjectStorage

\* The next method of the object keeps the heap safe.
LEMMA NewMethodSafe ==
  ASSUME TypeInv, HeapSafe, NewMethod
  PROVE  HeapSafe'
  <1>p. PICK p : p = CursorPtr(Young)
    OBVIOUS
  <1> DEFINE obj   == Fresh("FUNC", FUNC_SLOTS)
             size  == HEADER + FUNC_SLOTS
             field == request.n - request.methods + request.done + 1
             req   == [request EXCEPT !.done = @ + 1, !.cleaned = FALSE]
             n     == Overwrite(mem, p, obj)
  <1>1. /\ Waiting("methods") /\ status = "run" /\ ~InGC
        /\ request # NoRequest
    BY DEF NewMethod, Waiting, Running
  <1>2. PICK S \in SUBSET Addr : SafeSet(S) /\ request.obj \in Held(S)
    BY <1>1 DEF HeapSafe
  <1>3. CASE NoRoom(size)
    BY <1>3, NoRoomSafe
  <1>4. CASE /\ Place(size, req)
             /\ mem' = [n EXCEPT ![request.obj].slots[field] = p]
             /\ UNCHANGED state_stack
    <2>1. request \in Request /\ FUNC_SLOTS \in Nat
      BY <1>1, WaitingType, FrameAssumption DEF FUNC_SLOTS
    <2>2. /\ obj \in Object /\ obj.allocated_size = size
          /\ obj.relocated_ptr = nullptr
          /\ \A i \in DOMAIN obj.slots : obj.slots[i] = nullptr
      BY <2>1, FreshEmpty DEF Kinds
    <2>3. /\ cursor[Young] + size <= RegionSize(Young)
          /\ cursor' = [cursor EXCEPT ![Young] = @ + size]
          /\ request'.obj = request.obj
      BY <1>4, <2>1 DEF Place, Fits, Request
    <2> DEFINE T == S \cup {p}
    <2>4. Closed(S) /\ Held(S) \subseteq Held(T) /\ p \in Held(T)
      BY <1>2 DEF SafeSet, Held
    <2>5. \A f \in DOMAIN state_stack' : \A i \in RootIdx :
             state_stack'[f][i] \in Held(T)
      BY <1>4, <2>4 DEF Closed
    <2>6. MemOK(n)
      <3>1. p \in Addr
        <4>1. size \in Nat \ {0}
          BY <2>1 DEF HEADER
        <4>2. req \in Request \cup {NoRequest}
          BY <2>1, RequestUpdate
        <4> HIDE DEF size, req
        <4>3. QED
          BY <1>p, <1>4, <4>1, <4>2, PlaceType
      <3> HIDE DEF obj
      <3>2. QED
        BY <2>2, <3>1, OverwriteType DEF TypeInv, MemOK
    <2>7. \E b, j : SlotWritten(n, mem', b, j, p)
      <3> HIDE DEF n, field
      <3>1. SlotWritten(n, mem', request.obj, field, p)
        BY <1>4, <2>6, SlotWriteFacts
      <3>2. QED
        BY <3>1
    <2>8. T \in SUBSET Addr /\ SafeSet(T)'
      <3> HIDE DEF obj, n
      <3>1. QED
        BY <1>p, <1>1, <1>2, <2>2, <2>3, <2>5, <2>7, GrowSafe DEF n
    <2>9. request'.obj \in Held(T)
      BY <1>2, <2>3, <2>4
    <2> HIDE DEF T
    <2>10. QED
      BY <2>8, <2>9 DEF HeapSafe, Held
  <1>5. QED
    BY <1>p, <1>3, <1>4 DEF NewMethod

\* Every step of an allocation keeps the heap safe.
LEMMA AllocSafe ==
  ASSUME TypeInv, HeapSafe, AllocStep
  PROVE  HeapSafe'
  <1>1. CASE NewSimple
    BY <1>1, NewSimpleSafe
  <1>2. CASE NewObjectStorage
    BY <1>2, NewObjectStorageSafe
  <1>3. CASE NewMethod
    BY <1>3, NewMethodSafe
  <1>4. CASE PrepareForSequentAllocations
    <2>1. CASE CleanupThis(stages_stack)
      BY <2>1, CleanupSafe
    <2>2. CASE Halt("SEQUENT_TOO_BIG")
      BY <2>2, HaltSafe DEF Halt
    <2>3. CASE /\ request' = [request EXCEPT !.step = "storage",
                                             !.cleaned = FALSE]
               /\ UNCHANGED <<mem, cursor, state_stack, stages_stack, marked,
                              work, status>>
      <3>1. /\ Waiting("prepare") /\ status = "run" /\ ~InGC
            /\ request # NoRequest
        BY <1>4 DEF PrepareForSequentAllocations, Waiting, Running
      <3>2. PICK S \in SUBSET Addr : SafeSet(S) /\ request.obj \in Held(S)
        BY <3>1 DEF HeapSafe
      <3>3. request \in Request
        BY <3>1, WaitingType
      <3>4. request'.obj = request.obj
        BY <2>3, <3>3 DEF Request
      <3>5. SafeSet(S)'
        BY <2>3, <3>2, KeepSafe DEF SafeSet, Closed, Good
      <3>6. QED
        BY <3>2, <3>4, <3>5 DEF HeapSafe, Held
    <2>4. QED
      BY <1>4, <2>1, <2>2, <2>3 DEF PrepareForSequentAllocations
  <1>5. CASE EndSequentAllocations
    <2>1. status = "run" /\ ~InGC /\ request # NoRequest
      BY <1>5 DEF EndSequentAllocations, Waiting, Running
    <2>2. PICK S \in SUBSET Addr : SafeSet(S) /\ request.obj \in Held(S)
      BY <2>1 DEF HeapSafe
    <2>3. \A f \in DOMAIN state_stack' : \A j \in RootIdx :
             state_stack'[f][j] \in Held(S)
      BY <1>5, <2>2, RootWritten DEF EndSequentAllocations, SafeSet
    <2>4. Mutates(S)
      BY <1>5, <2>3 DEF Mutates, EndSequentAllocations
    <2>5. QED
      BY <2>2, <2>4, MutatesSafe DEF StaysSafe
  <1>6. QED
    BY <1>1, <1>2, <1>3, <1>4, <1>5 DEF AllocStep

\* The heap of a program that starts holds main.
LEMMA InitSafe ==
  ASSUME Init
  PROVE  HeapSafe
  <1>1. TypeInv
    BY InitType
  <1> DEFINE S == {MainPtr}
  <1>2. Young \in RegionIds /\ FUNC_SLOTS \in Nat
    BY RegionsAssumption, FrameAssumption
       DEF Young, RegionIds, Tenured, FUNC_SLOTS
  <1>3. /\ Main.relocated_ptr = nullptr
        /\ \A i \in DOMAIN Main.slots : Main.slots[i] = nullptr
        /\ Main.allocated_size = HEADER + FUNC_SLOTS
        /\ Main \in Object
    BY <1>2, FreshEmpty DEF Main, Kinds
  <1>4. cursor[Young] = CURSOR + HEADER + FUNC_SLOTS
    BY <1>2, <1>3 DEF Init, HEADER, CURSOR
  <1>5. /\ StartPtr(Young) \in Int /\ RegionSize(Young) \in Nat
        /\ StartPtr(Young) + CURSOR .. CursorPtr(Young) - 1 \subseteq Addr
        /\ CursorPtr(Young) <= StartPtr(Young) + RegionSize(Young)
    BY <1>1, <1>2, UsedCells
  <1>6. MainPtr \in StartPtr(Young) + CURSOR .. CursorPtr(Young) - 1
    BY <1>2, <1>4, <1>5 DEF MainPtr, CursorPtr, HEADER, CURSOR
  <1>7. MainPtr \in Addr /\ Allocated(MainPtr)
    <2>1. MainPtr \in Addr
      BY <1>5, <1>6
    <2>2. /\ MainPtr >= StartPtr(Young) + CURSOR /\ MainPtr < CursorPtr(Young)
          /\ MainPtr \in Int /\ CursorPtr(Young) \in Int
      BY <1>1, <1>2, <1>6, UsedCells
    <2>3. RegionContains(Young, MainPtr)
      BY <1>5, <2>2 DEF RegionContains, CURSOR
    <2>4. QED
      BY <1>2, <2>1, <2>2, <2>3 DEF Allocated
  <1>8. mem[MainPtr] = Main /\ Main # NoObj
    BY <1>3, <1>7 DEF Init, NoObj, Object
  <1>9. Good(MainPtr)
    BY <1>3, <1>7, <1>8 DEF Good, WasRelocated
  <1>10. Closed(S)
    <2>1. \A i \in DOMAIN mem[MainPtr].slots :
             mem[MainPtr].slots[i] = nullptr
      BY <1>3, <1>8
    <2>2. \A f \in DOMAIN state_stack : \A i \in RootIdx :
             state_stack[f][i] \in {nullptr, MainPtr}
      BY DEF Init, NewFrame
    <2>3. QED
      BY <2>1, <2>2 DEF Closed, Held
  <1>11. SafeSet(S) /\ S \in SUBSET Addr
    BY <1>7, <1>9, <1>10 DEF SafeSet
  <1>12. request = NoRequest
    BY DEF Init
  <1> HIDE DEF S
  <1>13. QED
    BY <1>11, <1>12 DEF HeapSafe
=============================================================================
