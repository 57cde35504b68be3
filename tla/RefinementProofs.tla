-------------------------- MODULE RefinementProofs --------------------------
(***************************************************************************)
(* The machine implements ObjectGraph: through every collection the        *)
(* program sees the same graph of objects, and each instruction and        *)
(* allocation does to that graph what it does in ObjectGraph.              *)
(***************************************************************************)
EXTENDS CollectorProofs, MachineView

----------------------------------------------------------------------------
(* Graphs that look the same *)

\* The pairs that Matched computes one after the other.
Along(fs, h, gs, k, f, n) ==
  IF n = 0 THEN View!Roots(fs, gs) ELSE View!Onward(f[n - 1], h, k)

\* There is such a chain of pairs, of every length.
LEMMA AlongExists ==
  ASSUME NEW fs, NEW h, NEW gs, NEW k, NEW N \in Nat
  PROVE  \E f : f = [n \in 0 .. N |-> Along(fs, h, gs, k, f, n)]
  <1> DEFINE Step(f, n)  == Along(fs, h, gs, k, f, n)
             Chain(f, n) == /\ f = [i \in 0 .. n |-> f[i]]
                            /\ \A i \in 0 .. n : f[i] = Step(f, i)
             Bad == {n \in Nat : \A f : ~Chain(f, n)}
  <1>1. Bad = {}
    <2>1. SUFFICES ASSUME Bad # {}
                   PROVE  FALSE
      OBVIOUS
    <2>2. Bad \in SUBSET Nat
      OBVIOUS
    <2>3. PICK x \in Bad : \A y \in Bad : x <= y
      <3> HIDE DEF Bad
      <3>1. QED
        BY <2>1, <2>2, LeastNat
    <2>4. x \in Nat
      OBVIOUS
    <2>5. CASE x = 0
      <3> DEFINE g == [i \in 0 .. 0 |-> View!Roots(fs, gs)]
      <3>1. Chain(g, 0)
        BY DEF Along
      <3>2. QED
        BY <2>5, <3>1
    <2>6. CASE x # 0
      <3>1. x - 1 \in Nat /\ ~(x <= x - 1)
        BY <2>4, <2>6
      <3>2. x - 1 \notin Bad
        BY <2>3, <3>1
      <3>3. PICK f : Chain(f, x - 1)
        BY <3>1, <3>2
      <3> DEFINE g == [i \in 0 .. x |-> IF i = x THEN Step(f, x) ELSE f[i]]
      <3>4. ASSUME NEW i \in 0 .. x
            PROVE  g[i] = Step(g, i)
        <4>1. CASE i = 0
          <5>1. i \in 0 .. x - 1 /\ i # x
            BY <2>4, <2>6, <4>1
          <5>2. g[i] = f[i] /\ f[i] = Step(f, i)
            BY <3>3, <5>1
          <5>3. QED
            BY <4>1, <5>2 DEF Along
        <4>2. CASE i # 0
          <5>1. i - 1 \in 0 .. x - 1 /\ i - 1 # x /\ i - 1 \in 0 .. x
            BY <2>4, <3>4, <4>2
          <5>2. g[i - 1] = f[i - 1]
            BY <5>1
          <5>3. g[i] = Step(f, i)
            <6>1. CASE i = x
              BY <6>1
            <6>2. CASE i # x
              <7>1. i \in 0 .. x - 1
                BY <2>4, <3>4, <6>2
              <7>2. QED
                BY <3>3, <6>2, <7>1
            <6>3. QED
              BY <6>1, <6>2
          <5> HIDE DEF g
          <5>4. QED
            BY <4>2, <5>2, <5>3 DEF Along
        <4>3. QED
          BY <4>1, <4>2
      <3>5. Chain(g, x)
        <4>1. g = [i \in 0 .. x |-> g[i]]
          OBVIOUS
        <4> HIDE DEF g
        <4>2. QED
          BY <3>4, <4>1
      <3> HIDE DEF g
      <3>6. QED
        BY <3>5, <2>3
    <2>7. QED
      BY <2>5, <2>6
  <1>2. PICK f : Chain(f, N)
    BY <1>1
  <1>3. QED
    BY <1>2

\* The heap has a number of addresses.
LEMMA AddrFinite == Cardinality(Addr) \in Nat
  <1>1. IsFiniteSet(START_PTR .. START_PTR + HeapSize - 1)
    BY RegionsAssumption, FS_Interval DEF START_PTR, HeapSize
  <1>2. QED
    BY <1>1, FS_CardinalityType DEF Addr

\* A relation that pairs the roots, and the slots of what it pairs, pairs
\* everything that the same path leads to.
PairsRoots(R, fs, gs) == View!Roots(fs, gs) \subseteq R
PairsSlots(R, h, k) ==
  \A r \in R : View!Objects(View!SlotPairs(h, k, r[1], r[2])) \subseteq R

LEMMA MatchedWithin ==
  ASSUME NEW fs, NEW h, NEW gs, NEW k
  PROVE  /\ \A R : PairsRoots(R, fs, gs) /\ PairsSlots(R, h, k) =>
                     View!Matched(fs, h, gs, k) \subseteq R
         /\ View!Roots(fs, gs) \subseteq View!Matched(fs, h, gs, k)
  <1> DEFINE N == Cardinality(Addr)
             W == CHOOSE f : f = [n \in 0 .. N |-> Along(fs, h, gs, k, f, n)]
  <1>1. N \in Nat
    BY AddrFinite
  <1>2. W = [n \in 0 .. N |-> Along(fs, h, gs, k, W, n)]
    BY <1>1, AlongExists
  <1>3. View!Matched(fs, h, gs, k) = W[N]
    <2>1. View!Cardinality(Addr) = N
      BY Zenon DEF View!Cardinality, Cardinality
    <2>2. View!Matched(fs, h, gs, k)
            = LET All == CHOOSE f : f = [n \in 0 .. View!Cardinality(Addr) |->
                                           Along(fs, h, gs, k, f, n)]
              IN  All[View!Cardinality(Addr)]
      BY Zenon DEF View!Matched, Along
    <2>3. QED
      BY <2>1, <2>2, Zenon
  <1> HIDE DEF W, N
  <1>4. W[0] = View!Roots(fs, gs)
    BY <1>1, <1>2 DEF Along
  <1>5. ASSUME NEW n \in 0 .. N, n # 0
        PROVE  /\ n - 1 \in 0 .. N
               /\ W[n] = View!Onward(W[n - 1], h, k)
    BY <1>1, <1>2, <1>5 DEF Along
  <1>6. ASSUME NEW R, PairsRoots(R, fs, gs), PairsSlots(R, h, k)
        PROVE  W[N] \subseteq R
    <2> DEFINE Bad == {n \in 0 .. N : ~(W[n] \subseteq R)}
    <2>1. Bad = {}
      <3>1. SUFFICES ASSUME Bad # {}
                     PROVE  FALSE
        OBVIOUS
      <3>2. PICK x \in Bad : \A y \in Bad : x <= y
        <4>1. Bad \in SUBSET Nat
          BY <1>1
        <4> HIDE DEF Bad
        <4>2. QED
          BY <3>1, <4>1, LeastNat
      <3>3. x # 0
        BY <1>4, <1>6 DEF PairsRoots
      <3>4. x - 1 \in 0 .. N /\ ~(x <= x - 1) /\ W[x] = View!Onward(W[x - 1], h, k)
        BY <1>1, <1>5, <3>3
      <3>5. W[x - 1] \subseteq R
        BY <3>2, <3>4
      <3>6. W[x] \subseteq R
        <4> DEFINE near == W[x - 1]
                   next == UNION {View!SlotPairs(h, k, r[1], r[2]) : r \in near}
        <4>1. ASSUME NEW q \in View!Objects(next)
              PROVE  q \in R
          <5>1. PICK r \in near : q \in View!SlotPairs(h, k, r[1], r[2])
            BY <4>1 DEF View!Objects
          <5>2. q \in View!Objects(View!SlotPairs(h, k, r[1], r[2]))
            BY <4>1, <5>1 DEF View!Objects
          <5>3. QED
            BY <1>6, <3>5, <5>1, <5>2 DEF PairsSlots
        <4>2. W[x] = near \cup View!Objects(next)
          BY <3>4 DEF View!Onward
        <4> HIDE DEF near, next
        <4>3. QED
          BY <3>5, <4>1, <4>2 DEF near
      <3>7. QED
        BY <3>2, <3>6
    <2>2. N \in 0 .. N
      BY <1>1
    <2>3. QED
      BY <2>1, <2>2
  <1>7. W[0] \subseteq W[N]
    <2> DEFINE Bad == {n \in 0 .. N : ~(W[0] \subseteq W[n])}
    <2>1. Bad = {}
      <3>1. SUFFICES ASSUME Bad # {}
                     PROVE  FALSE
        OBVIOUS
      <3>2. PICK x \in Bad : \A y \in Bad : x <= y
        <4>1. Bad \in SUBSET Nat
          BY <1>1
        <4> HIDE DEF Bad
        <4>2. QED
          BY <3>1, <4>1, LeastNat
      <3>3. x # 0
        OBVIOUS
      <3>4. x - 1 \in 0 .. N /\ ~(x <= x - 1) /\ W[x] = View!Onward(W[x - 1], h, k)
        BY <1>1, <1>5, <3>3
      <3>5. W[0] \subseteq W[x - 1]
        BY <3>2, <3>4
      <3>6. W[0] \subseteq W[x]
        BY <3>4, <3>5 DEF View!Onward
      <3>7. QED
        BY <3>2, <3>6
    <2>2. N \in 0 .. N
      BY <1>1
    <2>3. QED
      BY <2>1, <2>2
  <1>8. QED
    BY <1>3, <1>4, <1>6, <1>7

\* The renaming phi of objects of S turns frames fs with heap h into frames gs
\* with heap k.
Shown(phi, p) == IF p = nullptr THEN nullptr ELSE phi[p]
Renames(phi, S, fs, h, gs, k) ==
  /\ \A a \in S : a # nullptr /\ phi[a] # nullptr
  /\ \A a, b \in S : phi[a] = phi[b] => a = b
  /\ DOMAIN gs = DOMAIN fs
  /\ \A f \in DOMAIN fs : \A i \in RootIdx :
       fs[f][i] \in Held(S) /\ gs[f][i] = Shown(phi, fs[f][i])
  /\ \A a \in S :
       /\ k[phi[a]].kind = h[a].kind
       /\ DOMAIN k[phi[a]].slots = DOMAIN h[a].slots
       /\ \A i \in DOMAIN h[a].slots :
            /\ h[a].slots[i] \in Held(S)
            /\ k[phi[a]].slots[i] = Shown(phi, h[a].slots[i])

\* A renamed graph looks the same.
LEMMA RenamedSame ==
  ASSUME NEW phi, NEW S, NEW fs, NEW h, NEW gs, NEW k,
         Renames(phi, S, fs, h, gs, k)
  PROVE  View!SameGraph(fs, h, gs, k)
  <1> DEFINE R == {<<a, phi[a]>> : a \in S}
  <1>1. PairsRoots(R, fs, gs)
    <2>1. ASSUME NEW r \in View!Roots(fs, gs)
          PROVE  r \in R
      <3>1. PICK f \in DOMAIN fs, i \in RootIdx : r = <<fs[f][i], gs[f][i]>>
        BY <2>1 DEF View!Roots, View!Objects, View!RootPairs, View!RootIdx,
                    RootIdx
      <3>2. fs[f][i] # nullptr
        BY <2>1, <3>1 DEF View!Roots, View!Objects, View!None, nullptr
      <3>3. fs[f][i] \in S /\ gs[f][i] = phi[fs[f][i]]
        BY <3>2 DEF Renames, Held, Shown
      <3>4. QED
        BY <3>1, <3>3
    <2>2. QED
      BY <2>1 DEF PairsRoots
  <1>2. PairsSlots(R, h, k)
    <2>1. ASSUME NEW a \in S, NEW r \in View!Objects(View!SlotPairs(h, k, a, phi[a]))
          PROVE  r \in R
      <3>1. PICK i \in DOMAIN h[a].slots :
               r = <<h[a].slots[i], k[phi[a]].slots[i]>>
        BY <2>1 DEF View!Objects, View!SlotPairs
      <3>2. h[a].slots[i] # nullptr
        BY <2>1, <3>1 DEF View!Objects, View!None, nullptr
      <3>3. h[a].slots[i] \in S /\ k[phi[a]].slots[i] = phi[h[a].slots[i]]
        BY <3>2 DEF Renames, Held, Shown
      <3>4. QED
        BY <3>1, <3>3
    <2>2. QED
      BY <2>1 DEF PairsSlots
  <1>3. View!Matched(fs, h, gs, k) \subseteq R
    BY <1>1, <1>2, MatchedWithin
  <1>4. ASSUME NEW f \in DOMAIN fs, NEW i \in View!RootIdx
        PROVE  fs[f][i] = View!None <=> gs[f][i] = View!None
    BY DEF Renames, Held, Shown, View!None, nullptr, View!RootIdx, RootIdx
  <1>5. ASSUME NEW r \in View!Matched(fs, h, gs, k)
        PROVE  LET a == h[r[1]]
                   b == k[r[2]]
               IN  /\ a.kind = b.kind
                   /\ DOMAIN a.slots = DOMAIN b.slots
                   /\ \A i \in DOMAIN a.slots :
                        a.slots[i] = View!None <=> b.slots[i] = View!None
    <2>1. PICK a \in S : r = <<a, phi[a]>>
      BY <1>3
    <2>2. ASSUME NEW i \in DOMAIN h[a].slots
          PROVE  h[a].slots[i] = View!None <=> k[phi[a]].slots[i] = View!None
      BY DEF Renames, Held, Shown, View!None, nullptr
    <2>3. h[a].kind = k[phi[a]].kind
          /\ DOMAIN h[a].slots = DOMAIN k[phi[a]].slots
      BY DEF Renames
    <2>4. QED
      BY <2>1, <2>2, <2>3
  <1>6. ASSUME NEW r \in View!Matched(fs, h, gs, k),
               NEW q \in View!Matched(fs, h, gs, k)
        PROVE  r[1] = q[1] <=> r[2] = q[2]
    <2>1. PICK a \in S : r = <<a, phi[a]>>
      BY <1>3
    <2>2. PICK b \in S : q = <<b, phi[b]>>
      BY <1>3
    <2>3. QED
      BY <2>1, <2>2 DEF Renames
  <1>7. DOMAIN fs = DOMAIN gs
    BY DEF Renames
  <1>8. QED
    BY <1>4, <1>5, <1>6, <1>7, Zenon DEF View!SameGraph

\* What frames reach lies in every closed set.
LEMMA ReachWithin ==
  ASSUME NEW S, NEW fs, NEW h,
         \A f \in DOMAIN fs : \A i \in RootIdx : fs[f][i] \in Held(S),
         \A a \in S : \A i \in DOMAIN h[a].slots : h[a].slots[i] \in Held(S)
  PROVE  View!Reach(fs, h) \subseteq S
  <1> DEFINE R == {<<a, a>> : a \in S}
  <1>1. PairsRoots(R, fs, fs)
    <2>1. ASSUME NEW r \in View!Roots(fs, fs)
          PROVE  r \in R
      <3>1. PICK f \in DOMAIN fs, i \in RootIdx : r = <<fs[f][i], fs[f][i]>>
        BY <2>1 DEF View!Roots, View!Objects, View!RootPairs, View!RootIdx,
                    RootIdx
      <3>2. fs[f][i] # nullptr
        BY <2>1, <3>1 DEF View!Roots, View!Objects, View!None, nullptr
      <3>3. fs[f][i] \in S
        BY <3>2 DEF Held
      <3>4. QED
        BY <3>1, <3>3
    <2>2. QED
      BY <2>1 DEF PairsRoots
  <1>2. PairsSlots(R, h, h)
    <2>1. ASSUME NEW a \in S, NEW r \in View!Objects(View!SlotPairs(h, h, a, a))
          PROVE  r \in R
      <3>1. PICK i \in DOMAIN h[a].slots : r = <<h[a].slots[i], h[a].slots[i]>>
        BY <2>1 DEF View!Objects, View!SlotPairs
      <3>2. h[a].slots[i] # nullptr
        BY <2>1, <3>1 DEF View!Objects, View!None, nullptr
      <3>3. h[a].slots[i] \in S
        BY <3>2 DEF Held
      <3>4. QED
        BY <3>1, <3>3
    <2>2. QED
      BY <2>1 DEF PairsSlots
  <1>3. View!Matched(fs, h, fs, h) \subseteq R
    BY <1>1, <1>2, MatchedWithin
  <1>4. QED
    BY <1>3 DEF View!Reach

----------------------------------------------------------------------------
(* What the machine shows *)

SeenOK == /\ SeenFrames \in Seq([RootIdx -> Ptr])
          /\ SeenFrames # <<>>
          /\ DOMAIN SeenHeap = Addr
          /\ \A a \in Addr : /\ DOMAIN SeenHeap[a] = {"kind", "slots"}
                             /\ SeenHeap[a].slots \in Seq(Ptr)

LEMMA SeenType == TypeInv => SeenOK
  <1> SUFFICES ASSUME TypeInv
               PROVE  SeenOK
    OBVIOUS
  <1>1. ASSUME NEW p \in Ptr
        PROVE  Follow(p) \in Ptr
    <2>1. CASE p = nullptr
      BY <2>1 DEF Follow
    <2>2. CASE p # nullptr
      <3>1. p \in Addr
        BY <2>2 DEF Ptr
      <3>2. mem[p].relocated_ptr \in Ptr
        BY <3>1, CellType DEF TypeInv
      <3>3. QED
        BY <3>2 DEF Follow
    <2>3. QED
      BY <2>1, <2>2
  <1>2. ASSUME NEW f \in DOMAIN state_stack
        PROVE  SeenFrames[f] \in [RootIdx -> Ptr]
    <2>1. state_stack[f] \in [RootIdx -> Ptr]
      BY DEF TypeInv, FramesOK, Frame
    <2>2. QED
      BY <1>1, <2>1 DEF SeenFrames, Seen
  <1>3. state_stack \in Seq(Frame) /\ Len(state_stack) \in Nat \ {0}
    BY ProgramAssumption DEF TypeInv, FramesOK
  <1>4. SeenFrames \in [1 .. Len(state_stack) -> [RootIdx -> Ptr]]
    <2>1. DOMAIN state_stack = 1 .. Len(state_stack)
      BY <1>3
    <2>2. SeenFrames = [f \in 1 .. Len(state_stack) |-> SeenFrames[f]]
      BY <2>1 DEF SeenFrames
    <2>3. QED
      BY <1>2, <2>1, <2>2
  <1>5. SeenFrames \in Seq([RootIdx -> Ptr]) /\ SeenFrames # <<>>
    BY <1>3, <1>4
  <1>6. ASSUME NEW a \in Addr
        PROVE  /\ DOMAIN SeenHeap[a] = {"kind", "slots"}
               /\ SeenHeap[a].slots \in Seq(Ptr)
    <2>1. mem[a].slots \in Seq(Ptr)
      BY CellType DEF TypeInv
    <2>2. SeenHeap[a] = [kind |-> mem[a].kind, slots |-> Seen(mem[a].slots)]
      BY DEF SeenHeap
    <2>3. Seen(mem[a].slots) \in [1 .. Len(mem[a].slots) -> Ptr]
      BY <1>1, <2>1 DEF Seen
    <2>4. Seen(mem[a].slots) \in Seq(Ptr)
      BY <2>1, <2>3
    <2>5. QED
      BY <2>2, <2>4
  <1>7. DOMAIN SeenHeap = Addr
    BY DEF SeenHeap
  <1>8. QED
    BY <1>5, <1>6, <1>7 DEF SeenOK

\* A heap in which everything in sight is in place looks the way it is.
Plain(S) == /\ SeenFrames = state_stack
            /\ \A a \in S : /\ SeenHeap[a].kind = mem[a].kind
                            /\ SeenHeap[a].slots = mem[a].slots
SafeIsPlain == \A S \in SUBSET Addr : SafeSet(S) => Plain(S)

LEMMA PlainView == TypeInv => SafeIsPlain
  <1> SUFFICES ASSUME TypeInv, NEW S \in SUBSET Addr, SafeSet(S)
               PROVE  Plain(S)
    BY DEF SafeIsPlain
  <1>1. ASSUME NEW p \in Held(S)
        PROVE  Follow(p) = p
    BY DEF Held, Follow, SafeSet, Good, WasRelocated
  <1>2. ASSUME NEW f \in DOMAIN state_stack
        PROVE  SeenFrames[f] = state_stack[f]
    <2>1. state_stack[f] \in [RootIdx -> Ptr]
      BY DEF TypeInv, FramesOK, Frame
    <2>2. \A i \in RootIdx : state_stack[f][i] \in Held(S)
      BY DEF SafeSet, Closed
    <2>3. QED
      BY <1>1, <2>1, <2>2 DEF SeenFrames, Seen
  <1>3. SeenFrames = state_stack
    <2>1. state_stack = [f \in DOMAIN state_stack |-> state_stack[f]]
      BY DEF TypeInv, FramesOK
    <2>2. QED
      BY <1>2, <2>1 DEF SeenFrames
  <1>4. ASSUME NEW a \in S
        PROVE  /\ SeenHeap[a].kind = mem[a].kind
               /\ SeenHeap[a].slots = mem[a].slots
    <2>1. mem[a].slots \in Seq(Ptr)
      BY CellType DEF TypeInv
    <2>2. SeenHeap[a] = [kind |-> mem[a].kind, slots |-> Seen(mem[a].slots)]
      BY DEF SeenHeap
    <2>3. \A i \in DOMAIN mem[a].slots : mem[a].slots[i] \in Held(S)
      BY DEF SafeSet, Closed
    <2>4. Seen(mem[a].slots) = mem[a].slots
      BY <1>1, <2>1, <2>3 DEF Seen
    <2>5. QED
      BY <2>2, <2>4
  <1>5. QED
    BY <1>3, <1>4 DEF Plain

LEMMA NextView == TypeInv' => SeenOK' /\ SafeIsPlain'
  <1>1. TypeInv => SeenOK /\ SafeIsPlain
    BY SeenType, PlainView
  <1>2. QED
    BY <1>1, PTL

----------------------------------------------------------------------------
(* Every frame runs a function *)

CalleesOK(fs, h) ==
  \A f \in DOMAIN fs : /\ fs[f][CALLEE] \in Addr
                       /\ h[fs[f][CALLEE]].kind = "FUNC"

\* It does in a graph that looks the same.
LEMMA SameCallees ==
  ASSUME NEW fs, NEW h, NEW gs, NEW k, View!SameGraph(fs, h, gs, k),
         CalleesOK(fs, h), gs \in Seq([RootIdx -> Ptr])
  PROVE  CalleesOK(gs, k)
  <1>1. CALLEE \in RootIdx /\ View!RootIdx = RootIdx /\ View!None = nullptr
        /\ nullptr \notin Addr
    BY FrameAssumption
       DEF CALLEE, RootIdx, View!RootIdx, View!None, nullptr, Addr, START_PTR
  <1>2. ASSUME NEW f \in DOMAIN gs
        PROVE  gs[f][CALLEE] \in Addr /\ k[gs[f][CALLEE]].kind = "FUNC"
    <2> DEFINE r == <<fs[f][CALLEE], gs[f][CALLEE]>>
    <2>1. f \in DOMAIN fs /\ fs[f][CALLEE] \in Addr
          /\ h[fs[f][CALLEE]].kind = "FUNC"
      BY Zenon DEF CalleesOK, View!SameGraph
    <2>2. gs[f][CALLEE] # nullptr /\ fs[f][CALLEE] # nullptr
      BY <1>1, <2>1, Zenon DEF View!SameGraph
    <2>3. gs[f][CALLEE] \in Addr
      BY <1>1, <2>2 DEF Ptr
    <2>4. r \in View!RootPairs(fs, gs)
      BY <1>1, <2>1 DEF View!RootPairs
    <2>5. r \in View!Roots(fs, gs)
      BY <1>1, <2>2, <2>4 DEF View!Roots, View!Objects
    <2>6. r \in View!Matched(fs, h, gs, k)
      BY <2>5, MatchedWithin
    <2>7. h[r[1]].kind = k[r[2]].kind
      BY <2>6, Zenon DEF View!SameGraph
    <2>8. QED
      BY <2>1, <2>3, <2>7
  <1>3. QED
    BY <1>2 DEF CalleesOK

\* The function of a frame is within its reach.
LEMMA CalleeReached ==
  ASSUME NEW fs, NEW h, CalleesOK(fs, h), NEW f \in DOMAIN fs
  PROVE  fs[f][CALLEE] \in View!Reach(fs, h)
  <1> DEFINE r == <<fs[f][CALLEE], fs[f][CALLEE]>>
  <1>1. r \in View!RootPairs(fs, fs)
    BY FrameAssumption DEF View!RootPairs, View!RootIdx, CALLEE
  <1>2. fs[f][CALLEE] # View!None
    BY DEF CalleesOK, View!None, Addr, START_PTR
  <1>3. r \in View!Roots(fs, fs)
    BY <1>1, <1>2 DEF View!Roots, View!Objects
  <1>4. r \in View!Matched(fs, h, fs, h)
    BY <1>3, MatchedWithin
  <1>5. QED
    BY <1>4 DEF View!Reach

\* A local that is assigned is not the function of its frame.
LEMMA AssignedCallees ==
  ASSUME SeenOK, CalleesOK(SeenFrames, SeenHeap),
         NEW i \in View!Locals, NEW p, NEW h,
         \A f \in DOMAIN SeenFrames :
            h[SeenFrames[f][CALLEE]].kind = SeenHeap[SeenFrames[f][CALLEE]].kind
  PROVE  CalleesOK(View!SetLocal(i, p), h)
  <1>1. i # CALLEE /\ CALLEE \in RootIdx
    BY FrameAssumption DEF View!Locals, View!CALLEE, CALLEE, RootIdx
  <1>2. /\ SeenFrames \in Seq([RootIdx -> Ptr])
        /\ View!SetLocal(i, p) = [SeenFrames EXCEPT ![View!top][i] = p]
    BY DEF SeenOK, View!SetLocal
  <1>3. ASSUME NEW f \in DOMAIN View!SetLocal(i, p)
        PROVE  /\ f \in DOMAIN SeenFrames
               /\ View!SetLocal(i, p)[f][CALLEE] = SeenFrames[f][CALLEE]
    <2>1. f \in DOMAIN SeenFrames
      BY <1>2
    <2>2. SeenFrames[f] \in [RootIdx -> Ptr]
      BY <1>2, <2>1
    <2>3. CASE f = View!top
      <3>1. View!SetLocal(i, p)[f] = [SeenFrames[f] EXCEPT ![i] = p]
        BY <1>2, <2>1, <2>3
      <3>2. QED
        BY <1>1, <2>1, <2>2, <3>1
    <2>4. CASE f # View!top
      BY <1>2, <2>1, <2>4
    <2>5. QED
      BY <2>3, <2>4
  <1>4. QED
    BY <1>3 DEF CalleesOK

\* Writing a slot leaves the kinds alone.
LEMMA WrittenKinds ==
  ASSUME SeenOK, NEW p, NEW j, NEW v, NEW a \in Addr
  PROVE  [SeenHeap EXCEPT ![p].slots[j] = v][a].kind = SeenHeap[a].kind
  <1>1. CASE a = p
    <2>1. DOMAIN SeenHeap[a] = {"kind", "slots"}
      BY DEF SeenOK
    <2>2. [SeenHeap EXCEPT ![p].slots[j] = v][a]
            = [SeenHeap[a] EXCEPT !.slots[j] = v]
      BY <1>1 DEF SeenOK
    <2>3. QED
      BY <2>1, <2>2
  <1>2. CASE a # p
    BY <1>2 DEF SeenOK
  <1>3. QED
    BY <1>1, <1>2

\* No step of the graph leaves a frame without its function.
Callees == CalleesOK(SeenFrames, SeenHeap)

LEMMA GraphCallees ==
  ASSUME SeenOK, SeenOK', Callees, View!Next
  PROVE  Callees'
  <1>a. CalleesOK(SeenFrames, SeenHeap)
    BY DEF Callees
  <1>1. ASSUME NEW fs, NEW h, CalleesOK(fs, h), View!Becomes(fs, h)
        PROVE  Callees'
    <2>1. View!SameGraph(fs, h, SeenFrames', SeenHeap')
      BY <1>1 DEF View!Becomes
    <2>2. SeenFrames' \in Seq([RootIdx -> Ptr])
      BY DEF SeenOK
    <2>3. CalleesOK(SeenFrames', SeenHeap')
      BY <1>1, <2>1, <2>2, SameCallees
    <2>4. QED
      BY <2>3 DEF Callees, CalleesOK
  <1>2. ASSUME NEW i \in View!Locals, NEW p
        PROVE  CalleesOK(View!SetLocal(i, p), SeenHeap)
    BY <1>a, AssignedCallees
  <1>3. ACC \in View!Locals /\ View!ACC = ACC /\ View!CALLEE = CALLEE
        /\ View!None = nullptr /\ View!RootIdx = RootIdx
        /\ ACC \in RootIdx /\ CALLEE \in RootIdx
    BY FrameAssumption
       DEF View!Locals, View!CALLEE, CALLEE, View!ACC, ACC, View!RootIdx,
           RootIdx, View!None, nullptr
  <1>4. ASSUME NEW p, NEW j, NEW v, NEW h,
               h = [SeenHeap EXCEPT ![p].slots[j] = v], NEW f \in DOMAIN SeenFrames
        PROVE  h[SeenFrames[f][CALLEE]].kind
                 = SeenHeap[SeenFrames[f][CALLEE]].kind
    BY <1>a, <1>4, WrittenKinds DEF CalleesOK
  <1>5. CASE View!Rearrange
    BY <1>a, <1>1, <1>5 DEF View!Rearrange
  <1>6. CASE View!End
    <2>1. SeenFrames' = SeenFrames /\ SeenHeap' = SeenHeap
      BY <1>6 DEF View!End
    <2>2. QED
      BY <1>a, <2>1 DEF Callees, CalleesOK
  <1>7. CASE View!Assign \/ View!Read
    BY <1>1, <1>2, <1>7 DEF View!Assign, View!Read
  <1>8. CASE View!ReadMethod
    <2>1. PICK p, k :
             View!Becomes(View!SetLocal(ACC, View!At(p)[k]),
                          [SeenHeap EXCEPT ![View!At(p)[k]].slots[View!THIS] = p])
      BY <1>3, <1>8 DEF View!ReadMethod
    <2>2. CalleesOK(View!SetLocal(ACC, View!At(p)[k]),
                    [SeenHeap EXCEPT ![View!At(p)[k]].slots[View!THIS] = p])
      BY <1>a, <1>3, <1>4, AssignedCallees
    <2>3. QED
      BY <1>1, <2>1, <2>2
  <1>9. CASE View!Write
    <2>1. PICK p, j, k :
             View!Becomes(SeenFrames,
                          [SeenHeap EXCEPT ![p].slots[k] = View!cur[j]])
      BY <1>9 DEF View!Write
    <2>2. CalleesOK(SeenFrames, [SeenHeap EXCEPT ![p].slots[k] = View!cur[j]])
      BY <1>a, <1>4 DEF CalleesOK
    <2>3. QED
      BY <1>1, <2>1, <2>2
  <1>10. CASE View!Call
    <2> DEFINE frame == [i \in View!RootIdx |->
                           IF i = View!CALLEE THEN View!cur[View!ACC]
                                              ELSE View!None]
               fs == Append(SeenFrames, frame)
    <2>1. /\ View!cur[ACC] # nullptr
          /\ SeenHeap[View!cur[ACC]].kind = "FUNC"
          /\ View!Becomes(fs, SeenHeap)
      BY <1>3, <1>10 DEF View!Call
    <2>2. SeenFrames \in Seq([RootIdx -> Ptr]) /\ SeenFrames # <<>>
      BY DEF SeenOK
    <2>3. View!cur \in [RootIdx -> Ptr]
      BY <2>2 DEF View!cur, View!top
    <2>4. View!cur[ACC] \in Addr
      BY <1>3, <2>1, <2>3 DEF Ptr
    <2>5. ASSUME NEW f \in DOMAIN fs
          PROVE  fs[f][CALLEE] \in Addr /\ SeenHeap[fs[f][CALLEE]].kind = "FUNC"
      <3>1. CASE f \in DOMAIN SeenFrames
        <4>1. fs[f] = SeenFrames[f]
          BY <2>2, <3>1
        <4>2. QED
          BY <1>a, <3>1, <4>1 DEF CalleesOK
      <3>2. CASE f \notin DOMAIN SeenFrames
        <4>1. fs[f] = frame
          BY <2>2, <2>5, <3>2
        <4>2. frame[CALLEE] = View!cur[ACC]
          BY <1>3
        <4>3. QED
          BY <2>1, <2>4, <4>1, <4>2
      <3>3. QED
        BY <3>1, <3>2
    <2>6. CalleesOK(fs, SeenHeap)
      BY <2>5 DEF CalleesOK
    <2>7. QED
      BY <1>1, <2>1, <2>6
  <1>11. CASE View!Return
    <2>1. View!Becomes(Front(SeenFrames), SeenHeap)
      BY <1>11 DEF View!Return, View!Front, Front
    <2>2. SeenFrames \in Seq([RootIdx -> Ptr]) /\ SeenFrames # <<>>
      BY DEF SeenOK
    <2>3. /\ Front(SeenFrames) \in Seq([RootIdx -> Ptr])
          /\ Len(Front(SeenFrames)) = Len(SeenFrames) - 1
          /\ \A i \in 1 .. Len(SeenFrames) - 1 :
               Front(SeenFrames)[i] = SeenFrames[i]
      BY <2>2, FrontFacts
    <2>4. CalleesOK(Front(SeenFrames), SeenHeap)
      BY <1>a, <2>2, <2>3 DEF CalleesOK
    <2>5. QED
      BY <1>1, <2>1, <2>4
  <1>12. ASSUME NEW new \in View!Fresh, NEW h,
                \A f \in DOMAIN SeenFrames :
                  LET c == SeenFrames[f][CALLEE]
                  IN  c \in View!Reach(SeenFrames, SeenHeap) => h[c] = SeenHeap[c],
                View!Becomes(View!SetLocal(ACC, new), h)
         PROVE  Callees'
    <2>1. \A f \in DOMAIN SeenFrames :
             SeenFrames[f][CALLEE] \in View!Reach(SeenFrames, SeenHeap)
      BY <1>a, CalleeReached
    <2>2. CalleesOK(View!SetLocal(ACC, new), h)
      BY <1>a, <1>3, <1>12, <2>1, AssignedCallees
    <2>3. QED
      BY <1>1, <1>12, <2>2
  <1>13. CASE View!NewFunc \/ View!NewStr \/ View!NewArr
    <2>1. PICK kind, n : View!Create(kind, n)
      BY <1>13 DEF View!NewFunc, View!NewStr, View!NewArr
    <2>2. PICK new \in View!Fresh :
             View!Becomes(View!SetLocal(ACC, new),
                          [SeenHeap EXCEPT ![new] =
                             [kind |-> kind, slots |-> View!Empty(n)]])
      BY <1>3, <2>1 DEF View!Create
    <2> DEFINE h == [SeenHeap EXCEPT ![new] =
                       [kind |-> kind, slots |-> View!Empty(n)]]
    <2>3. \A c \in Addr : c \in View!Reach(SeenFrames, SeenHeap) =>
            h[c] = SeenHeap[c]
      BY DEF View!Fresh, SeenOK
    <2>4. \A f \in DOMAIN SeenFrames : SeenFrames[f][CALLEE] \in Addr
      BY <1>a DEF CalleesOK
    <2>5. View!Becomes(View!SetLocal(ACC, new), h)
      BY <2>2
    <2> HIDE DEF h
    <2>6. QED
      BY <1>12, <2>3, <2>4, <2>5
  <1>14. CASE View!NewObj
    <2> DEFINE Members(l, method) ==
                 [i \in 1 .. l.data + l.methods |->
                    IF i <= l.data THEN View!None ELSE method[i - l.data]]
               Built(l, new, method) ==
                 [p \in Addr |->
                    IF p = new THEN [kind |-> "OBJ", slots |-> Members(l, method)]
                    ELSE IF \E i \in 1 .. l.methods : p = method[i]
                    THEN [kind |-> "FUNC", slots |-> View!Empty(FUNC_SLOTS)]
                    ELSE SeenHeap[p]]
    <2>1. PICK l \in OBJ_LAYOUTS, new \in View!Fresh :
            \E method \in [1 .. l.methods -> View!Fresh \ {new}] :
              View!Becomes(View!SetLocal(View!ACC, new), Built(l, new, method))
      BY <1>14, Zenon DEF View!NewObj
    <2>2. PICK method \in [1 .. l.methods -> View!Fresh \ {new}] :
            View!Becomes(View!SetLocal(ACC, new), Built(l, new, method))
      BY <1>3, <2>1
    <2> DEFINE h == Built(l, new, method)
    <2>3. \A c \in Addr : c \in View!Reach(SeenFrames, SeenHeap) =>
            h[c] = SeenHeap[c]
      BY DEF View!Fresh
    <2>4. \A f \in DOMAIN SeenFrames : SeenFrames[f][CALLEE] \in Addr
      BY <1>a DEF CalleesOK
    <2>5. View!Becomes(View!SetLocal(ACC, new), h)
      BY <2>2
    <2> HIDE DEF h
    <2>6. QED
      BY <1>12, <2>3, <2>4, <2>5
  <1>15. QED
    BY <1>5, <1>6, <1>7, <1>8, <1>9, <1>10, <1>11, <1>13, <1>14 DEF View!Next

----------------------------------------------------------------------------
(* Steps between collections *)

\* A step that leaves the memory and the frames alone shows nothing.
LEMMA SameView ==
  ASSUME UNCHANGED <<mem, state_stack>>
  PROVE  SeenFrames' = SeenFrames /\ SeenHeap' = SeenHeap
  <1>1. \A p : Follow(p)' = Follow(p)
    BY DEF Follow
  <1>2. SeenFrames' = SeenFrames
    BY <1>1 DEF SeenFrames, Seen
  <1>3. SeenHeap' = SeenHeap
    BY <1>1 DEF SeenHeap, Seen
  <1>4. QED
    BY <1>2, <1>3

LEMMA HaltView ==
  ASSUME status = "run", NEW why, why # "run", Halt(why)
  PROVE  View!Next
  <1>1. status' # "run" /\ UNCHANGED <<mem, state_stack>>
    BY DEF Halt
  <1>2. View!End
    BY <1>1, SameView DEF View!End
  <1>3. QED
    BY <1>2 DEF View!Next

\* Heap h is what the objects of S are after the step.
Agrees(h, S) == \A a \in S : /\ h[a].kind = mem'[a].kind
                             /\ h[a].slots = mem'[a].slots

\* A step that ends with the objects of S in place leaves what they show.
LEMMA StepShows ==
  ASSUME TypeInv', NEW S \in SUBSET Addr, SafeSet(S)', NEW h, Agrees(h, S),
         status = "run", status' = "run"
  PROVE  View!Becomes(state_stack', h)
  <1> DEFINE phi == [a \in S |-> a]
  <1>1. Plain(S)'
    BY NextView DEF SafeIsPlain
  <1>2. SeenFrames' = state_stack'
        /\ \A a \in S : /\ SeenHeap'[a].kind = mem'[a].kind
                        /\ SeenHeap'[a].slots = mem'[a].slots
    BY <1>1 DEF Plain
  <1>3. nullptr \notin S
    BY DEF nullptr, Addr, START_PTR
  <1>4. /\ \A f \in DOMAIN state_stack' : \A i \in RootIdx :
             state_stack'[f][i] \in Held(S)
        /\ \A a \in S : \A i \in DOMAIN mem'[a].slots :
             mem'[a].slots[i] \in Held(S)
    BY DEF SafeSet, Closed
  <1>5. \A p \in Held(S) : Shown(phi, p) = p
    BY DEF Shown, Held
  <1>6. \A a \in S : phi[a] = a
    OBVIOUS
  <1> HIDE DEF phi
  <1>7. Renames(phi, S, state_stack', h, SeenFrames', SeenHeap')
    BY <1>2, <1>3, <1>4, <1>5, <1>6 DEF Renames, Agrees
  <1>8. View!SameGraph(state_stack', h, SeenFrames', SeenHeap')
    BY <1>7, RenamedSame
  <1>9. QED
    BY <1>8 DEF View!Becomes

\* The names the graph has for what instructions work with.
Wording == /\ View!top = Len(state_stack) /\ View!cur = Frame0
           /\ \A i, p : View!SetLocal(i, p) = SetRoot(i, p)

LEMMA SameWords ==
  ASSUME NEW S, Plain(S)
  PROVE  Wording
  BY DEF Plain, Wording, View!top, View!cur, Frame0, View!SetLocal, SetRoot

LEMMA SameIndices ==
  /\ View!None = nullptr /\ View!RootIdx = RootIdx /\ View!THIS = THIS
  /\ View!CALLEE = CALLEE /\ View!ACC = ACC
  /\ CALLEE \in RootIdx /\ ACC \in View!Locals
  /\ \A r \in Regs : REG(r) \in View!Locals
  /\ View!Locals \subseteq RootIdx
  BY FrameAssumption
     DEF View!None, nullptr, View!RootIdx, RootIdx, View!THIS, THIS,
         View!CALLEE, CALLEE, View!ACC, ACC, View!Locals, REG, Regs

\* An object at hand is in place.
LEMMA AtHand ==
  ASSUME TypeInv, NEW S, Closed(S), Plain(S), NEW i \in RootIdx,
         NEW a, a = Frame0[i], a # nullptr
  PROVE  /\ a \in S /\ a \in View!Referents
         /\ View!At(a) = mem[a].slots
         /\ SeenHeap[a].kind = mem[a].kind
         /\ \A k \in DOMAIN mem[a].slots : mem[a].slots[k] \in Held(S)
  <1>1. Len(state_stack) \in DOMAIN state_stack
    BY DEF TypeInv, FramesOK
  <1>2. a \in S
    BY <1>1 DEF Closed, Held, Frame0
  <1>3. a \in View!Referents
    BY SameWords, SameIndices DEF View!Referents, Wording
  <1>4. QED
    BY <1>2, <1>3 DEF Plain, View!At, Closed

\* Assigning a root.
LEMMA WriteRootView ==
  ASSUME TypeInv, TypeInv', NEW S \in SUBSET Addr, SafeSet(S), SafeSet(S)',
         status = "run", NEW i, NEW p, WriteRoot(i, p)
  PROVE  View!Becomes(View!SetLocal(i, p), SeenHeap)
  <1>1. Plain(S)
    BY PlainView DEF SafeIsPlain
  <1>2. /\ state_stack' = View!SetLocal(i, p)
        /\ mem' = mem /\ status' = "run"
    BY <1>1, SameWords DEF WriteRoot, Rest, Wording
  <1>3. Agrees(SeenHeap, S)
    BY <1>1, <1>2 DEF Agrees, Plain
  <1>4. View!Becomes(state_stack', SeenHeap)
    BY <1>2, <1>3, StepShows
  <1>5. QED
    BY <1>2, <1>4

\* Writing a slot.
LEMMA WrittenAgrees ==
  ASSUME TypeInv, NEW S \in SUBSET Addr, Plain(S), NEW b, NEW j, NEW p,
         mem' = [mem EXCEPT ![b].slots[j] = p],
         NEW h, h = [SeenHeap EXCEPT ![b].slots[j] = p]
  PROVE  Agrees(h, S)
  <1>1. SeenOK
    BY SeenType
  <1>2. ASSUME NEW a \in S
        PROVE  h[a].kind = mem'[a].kind /\ h[a].slots = mem'[a].slots
    <2>1. /\ SeenHeap[a].kind = mem[a].kind
          /\ SeenHeap[a].slots = mem[a].slots
      BY DEF Plain
    <2>2. /\ a \in Addr /\ DOMAIN SeenHeap = Addr /\ DOMAIN mem = Addr
          /\ DOMAIN SeenHeap[a] = {"kind", "slots"}
          /\ mem[a] \in Object \cup {NoObj}
      BY <1>1 DEF SeenOK, TypeInv, MemOK
    <2>3. CASE a = b
      <3>1. h[a] = [SeenHeap[a] EXCEPT !.slots[j] = p]
        BY <2>2, <2>3
      <3>2. mem'[a] = [mem[a] EXCEPT !.slots[j] = p]
        BY <2>2, <2>3
      <3>3. /\ h[a].kind = SeenHeap[a].kind
            /\ h[a].slots = [SeenHeap[a].slots EXCEPT ![j] = p]
        BY <2>2, <3>1
      <3>4. /\ mem'[a].kind = mem[a].kind
            /\ mem'[a].slots = [mem[a].slots EXCEPT ![j] = p]
        BY <2>2, <3>2 DEF Object, NoObj
      <3>5. QED
        BY <2>1, <3>3, <3>4
    <2>4. CASE a # b
      BY <2>1, <2>2, <2>4
    <2>5. QED
      BY <2>3, <2>4
  <1>3. QED
    BY <1>2 DEF Agrees

\* LDAI of a number, LDA, STA, STNULL, MOV.
LEMMA AssignView ==
  ASSUME TypeInv, TypeInv', NEW S \in SUBSET Addr, SafeSet(S), SafeSet(S)',
         status = "run", LDAI_NUM \/ LDA \/ STA \/ STNULL \/ MOV
  PROVE  View!Next
  <1>1. Wording
    BY PlainView, SameWords DEF SafeIsPlain
  <1> DEFINE Held0 == {View!None} \cup {View!cur[j] : j \in View!Locals}
  <1>2. /\ nullptr \in Held0 /\ Acc \in Held0
        /\ \A r \in Regs : Reg(r) \in Held0
    BY <1>1, SameIndices DEF Wording, Acc, Reg
  <1>3. ASSUME NEW i \in View!Locals, NEW p \in Held0, WriteRoot(i, p)
        PROVE  View!Next
    <2>1. View!Becomes(View!SetLocal(i, p), SeenHeap)
      BY <1>3, WriteRootView
    <2>2. View!Assign
      BY <2>1 DEF View!Assign
    <2>3. QED
      BY <2>2 DEF View!Next
  <1> HIDE DEF Held0
  <1>4. QED
    BY <1>2, <1>3, SameIndices DEF LDAI_NUM, LDA, STA, STNULL, MOV

\* A root gets what an object at hand holds.
LEMMA ReadView ==
  ASSUME TypeInv, TypeInv', NEW S \in SUBSET Addr, SafeSet(S),
         status' = "run" => SafeSet(S)', status = "run",
         NEW root \in View!Locals, NEW j \in RootIdx, NEW a, a = Frame0[j],
         NEW i, ReadInto(root, a, i), a # nullptr => mem[a].kind # "OBJ"
  PROVE  View!Next
  <1>1. CASE Stop("UNDEFINED")
    BY <1>1, HaltView DEF Stop
  <1>2. CASE IsPlace(HeapSlot(a, i)) /\ WriteRoot(root, mem[a].slots[i])
    <2>1. Plain(S) /\ Closed(S)
      BY PlainView DEF SafeIsPlain, SafeSet
    <2>2. a # nullptr /\ i \in DOMAIN mem[a].slots
      <3>1. HeapSlot(a, i).holder = a /\ HeapSlot(a, i).frame = 0
            /\ HeapSlot(a, i).idx = i
        BY DEF HeapSlot
      <3>2. 0 \notin DOMAIN state_stack
        BY DEF TypeInv, FramesOK
      <3>3. QED
        BY <1>2, <3>1, <3>2 DEF IsPlace, IsRoot
    <2>3. /\ a \in View!Referents
          /\ View!At(a) = mem[a].slots /\ SeenHeap[a].kind = mem[a].kind
      BY <2>1, <2>2, AtHand
    <2>4. SafeSet(S)'
      BY <1>2 DEF WriteRoot, Rest
    <2>5. View!Becomes(View!SetLocal(root, mem[a].slots[i]), SeenHeap)
      BY <1>2, <2>4, WriteRootView
    <2>6. ~View!IsMethod(a, i)
      BY <2>2, <2>3 DEF View!IsMethod
    <2>7. View!Read
      BY <2>2, <2>3, <2>5, <2>6 DEF View!Read
    <2>8. QED
      BY <2>7 DEF View!Next
  <1>3. QED
    BY <1>1, <1>2 DEF ReadInto

\* GETARG, GETTHIS, GETRET and GETELEM of an array.
LEMMA ReadsView ==
  ASSUME TypeInv, TypeInv', Callees, NEW S \in SUBSET Addr, SafeSet(S),
         status' = "run" => SafeSet(S)', status = "run",
         GETARG \/ GETTHIS \/ GETRET0 \/ GETELEM_ARR
  PROVE  View!Next
  <1>1. Plain(S) /\ Closed(S)
    BY PlainView DEF SafeIsPlain, SafeSet
  <1>2. /\ CALLEE \in RootIdx /\ ACC \in RootIdx /\ ACC \in View!Locals
        /\ \A r \in Regs : REG(r) \in View!Locals /\ REG(r) \in RootIdx
    BY SameIndices
  <1>3. Callee # nullptr => mem[Callee].kind # "OBJ"
    <2>1. Len(state_stack) \in DOMAIN state_stack
      BY DEF TypeInv, FramesOK
    <2>2. SeenHeap[Callee].kind = "FUNC"
      BY <1>1, <2>1 DEF Callees, CalleesOK, Plain, Callee, Frame0
    <2>3. Callee # nullptr => Callee \in S
      BY <1>1, <1>2, AtHand DEF Callee
    <2>4. QED
      BY <1>1, <2>2, <2>3 DEF Plain
  <1>4. CASE GETARG \/ GETTHIS
    <2>1. PICK r \in Regs : \E i : ReadInto(REG(r), Callee, i)
      BY <1>4 DEF GETARG, GETTHIS
    <2>2. QED
      BY <1>2, <1>3, <2>1, ReadView DEF Callee
  <1>5. CASE GETRET0
    <2>1. PICK r \in Regs : ReadInto(REG(r), Acc, RET0)
      BY <1>5 DEF GETRET0
    <2>2. mem[Acc].kind # "OBJ"
      BY <1>5 DEF GETRET0, IsKind
    <2>3. QED
      BY <1>2, <2>1, <2>2, ReadView DEF Acc
  <1>6. CASE GETELEM_ARR
    <2>1. PICK r \in Regs : /\ mem[Reg(r)].kind = "ARR"
                            /\ \E i : ReadInto(ACC, Reg(r), i)
      BY <1>6 DEF GETELEM_ARR, IsKind
    <2>2. QED
      BY <1>2, <2>1, ReadView DEF Reg
  <1>7. QED
    BY <1>4, <1>5, <1>6

\* A slot of an object at hand gets what a local holds.
LEMMA WriteView ==
  ASSUME TypeInv, TypeInv', NEW S \in SUBSET Addr, SafeSet(S), SafeSet(S)',
         status = "run", NEW o \in RootIdx, NEW a, a = Frame0[o], a # nullptr,
         NEW i, NEW j \in View!Locals, NEW p, p = Frame0[j], WriteSlot(a, i, p)
  PROVE  View!Next
  <1>1. Plain(S) /\ Closed(S)
    BY PlainView DEF SafeIsPlain, SafeSet
  <1>2. /\ a \in S /\ a \in View!Referents /\ View!At(a) = mem[a].slots
        /\ SeenHeap[a].slots = mem[a].slots
    BY <1>1, AtHand DEF View!At
  <1>3. /\ mem' = [mem EXCEPT ![a].slots[i] = p]
        /\ state_stack' = SeenFrames /\ status' = "run"
    BY <1>1 DEF WriteSlot, Rest, Plain
  <1> DEFINE h == [SeenHeap EXCEPT ![a].slots[i] = p]
  <1>4. View!Becomes(SeenFrames, h)
    <2>1. Agrees(h, S)
      BY <1>1, <1>3, WrittenAgrees
    <2> HIDE DEF h
    <2>2. QED
      BY <1>3, <2>1, StepShows
  <1>5. View!cur[j] = p
    BY <1>1, SameWords DEF Wording
  <1>6. CASE i \in DOMAIN mem[a].slots
    <2>1. View!Becomes(SeenFrames, [SeenHeap EXCEPT ![a].slots[i] = View!cur[j]])
      BY <1>4, <1>5
    <2>2. View!Write
      BY <1>2, <1>6, <2>1 DEF View!Write
    <2>3. QED
      BY <2>2 DEF View!Next
  <1>7. CASE i \notin DOMAIN mem[a].slots
    <2>1. h = SeenHeap
      <3>1. SeenOK
        BY SeenType
      <3>2. [SeenHeap[a].slots EXCEPT ![i] = p] = SeenHeap[a].slots
        BY <1>2, <1>7, <3>1 DEF SeenOK
      <3>3. [SeenHeap[a] EXCEPT !.slots[i] = p] = SeenHeap[a]
        <4>1. SeenHeap[a] = [kind |-> mem[a].kind, slots |-> Seen(mem[a].slots)]
          BY <1>2 DEF SeenHeap
        <4>2. QED
          BY <3>2, <4>1
      <3>4. SeenHeap = [b \in Addr |-> SeenHeap[b]]
        BY DEF SeenHeap
      <3> HIDE DEF SeenHeap
      <3>5. QED
        BY <3>3, <3>4
    <2>2. View!Rearrange
      BY <1>4, <2>1 DEF View!Rearrange
    <2>3. QED
      BY <2>2 DEF View!Next
  <1>8. QED
    BY <1>6, <1>7

\* SETARG, SETRET and SETELEM.
LEMMA WritesView ==
  ASSUME TypeInv, TypeInv', Callees, NEW S \in SUBSET Addr, SafeSet(S),
         status' = "run" => SafeSet(S)', status = "run",
         SETARG \/ SETRET0 \/ SETELEM_ARR \/ SETELEM_OBJ
  PROVE  View!Next
  <1>1. Plain(S) /\ Closed(S)
    BY PlainView DEF SafeIsPlain, SafeSet
  <1>2. /\ CALLEE \in RootIdx /\ ACC \in RootIdx /\ ACC \in View!Locals
        /\ \A r \in Regs : REG(r) \in View!Locals /\ REG(r) \in RootIdx
    BY SameIndices
  <1>3. ASSUME NEW o \in RootIdx, Frame0[o] # nullptr, NEW i,
               NEW j \in View!Locals, WriteSlot(Frame0[o], i, Frame0[j])
        PROVE  View!Next
    <2>1. SafeSet(S)'
      BY <1>3 DEF WriteSlot, Rest
    <2>2. QED
      BY <1>3, <2>1, WriteView
  <1>4. CASE SETARG
    <2>1. PICK r \in Regs : \E i : WriteSlot(Acc, i, Reg(r))
      BY <1>4 DEF SETARG
    <2>2. Acc # nullptr
      BY <1>4 DEF SETARG, IsKind
    <2>3. QED
      BY <1>2, <1>3, <2>1, <2>2 DEF Acc, Reg
  <1>5. CASE SETRET0
    <2>1. PICK r \in Regs : WriteSlot(Callee, RET0, Reg(r))
      BY <1>5 DEF SETRET0
    <2>2. Len(state_stack) \in DOMAIN state_stack
      BY DEF TypeInv, FramesOK
    <2>3. Callee # nullptr
      BY <1>1, <2>2 DEF Callees, CalleesOK, Plain, Callee, Frame0, nullptr,
                        Addr, START_PTR
    <2>4. QED
      BY <1>2, <1>3, <2>1, <2>3 DEF Callee, Reg
  <1>6. CASE SETELEM_ARR \/ SETELEM_OBJ
    <2>1. PICK r \in Regs : /\ Reg(r) # nullptr
                            /\ \/ \E i : WriteSlot(Reg(r), i, Acc)
                               \/ Stop("FATAL")
      BY <1>6 DEF SETELEM_ARR, SETELEM_OBJ, IsKind
    <2>2. CASE Stop("FATAL")
      BY <2>2, HaltView DEF Stop
    <2>3. QED
      BY <1>2, <1>3, <2>1, <2>2 DEF Acc, Reg
  <1>7. QED
    BY <1>4, <1>5, <1>6

\* GETELEM of an object.
LEMMA GetElemObjView ==
  ASSUME TypeInv, TypeInv', NEW S \in SUBSET Addr, SafeSet(S),
         status' = "run" => SafeSet(S)', status = "run", GETELEM_OBJ
  PROVE  View!Next
  <1>1. Plain(S) /\ Closed(S) /\ Wording
    BY PlainView, SameWords DEF SafeIsPlain, SafeSet
  <1>2. CASE Stop("FATAL")
    BY <1>2, HaltView DEF Stop
  <1>3. ASSUME NEW r \in Regs, NEW i \in DOMAIN mem[Reg(r)].slots,
               IsKind(Reg(r), "OBJ"), NEW elem, elem = mem[Reg(r)].slots[i],
               state_stack' = SetRoot(ACC, elem),
               mem' = IF IsKind(elem, "FUNC")
                      THEN [mem EXCEPT ![elem].slots[THIS] = Reg(r)]
                      ELSE mem,
               Rest
        PROVE  View!Next
    <2> DEFINE a == Reg(r)
    <2>1. REG(r) \in RootIdx /\ ACC \in View!Locals
      BY SameIndices
    <2>2. a # nullptr /\ mem[a].kind = "OBJ"
      BY <1>3 DEF IsKind
    <2>3. /\ a \in S /\ a \in View!Referents /\ View!At(a) = mem[a].slots
          /\ SeenHeap[a].kind = "OBJ" /\ elem \in Held(S)
      BY <1>1, <1>3, <2>1, <2>2, AtHand DEF Reg
    <2>4. status' = "run" /\ SafeSet(S)'
      BY <1>3 DEF Rest
    <2>5. state_stack' = View!SetLocal(ACC, elem)
      BY <1>1, <1>3 DEF Wording
    <2>6. View!IsMethod(a, i) <=> IsKind(elem, "FUNC")
      <3>1. elem # nullptr => SeenHeap[elem].kind = mem[elem].kind
        BY <1>1, <2>3 DEF Held, Plain
      <3>2. QED
        BY <1>3, <2>3, <3>1, SameIndices DEF View!IsMethod, IsKind
    <2> HIDE DEF a
    <2>7. CASE IsKind(elem, "FUNC")
      <3> DEFINE h == [SeenHeap EXCEPT ![elem].slots[THIS] = a]
      <3>1. Agrees(h, S)
        BY <1>1, <1>3, <2>7, WrittenAgrees DEF a
      <3>2. View!Becomes(state_stack', h)
        <4> HIDE DEF h
        <4>1. QED
          BY <2>4, <3>1, StepShows
      <3>3. View!Becomes(View!SetLocal(View!ACC, View!At(a)[i]),
                    [SeenHeap EXCEPT ![View!At(a)[i]].slots[View!THIS] = a])
        BY <1>3, <2>3, <2>5, <3>2, SameIndices DEF a
      <3>4. i \in DOMAIN View!At(a)
        BY <1>3, <2>3 DEF a
      <3>5. View!ReadMethod
        BY <2>3, <2>6, <2>7, <3>3, <3>4, Zenon DEF View!ReadMethod
      <3>6. QED
        BY <3>5 DEF View!Next
    <2>8. CASE ~IsKind(elem, "FUNC")
      <3>1. Agrees(SeenHeap, S)
        BY <1>1, <1>3, <2>8 DEF Agrees, Plain
      <3>2. View!Becomes(state_stack', SeenHeap)
        BY <2>4, <3>1, StepShows
      <3>3. View!Becomes(View!SetLocal(ACC, View!At(a)[i]), SeenHeap)
        BY <1>3, <2>3, <2>5, <3>2 DEF a
      <3>4. i \in DOMAIN View!At(a)
        BY <1>3, <2>3 DEF a
      <3>5. View!Read
        BY <2>1, <2>3, <2>6, <2>8, <3>3, <3>4 DEF View!Read
      <3>6. QED
        BY <3>5 DEF View!Next
    <2>9. QED
      BY <2>7, <2>8
  <1>4. CASE \E r \in Regs : IsKind(Reg(r), "OBJ") /\
                \E i \in DOMAIN mem[Reg(r)].slots :
               LET elem == mem[Reg(r)].slots[i]
               IN  /\ state_stack' = SetRoot(ACC, elem)
                   /\ mem' = IF IsKind(elem, "FUNC")
                             THEN [mem EXCEPT ![elem].slots[THIS] = Reg(r)]
                             ELSE mem
                   /\ Rest
    BY <1>3, <1>4, Zenon
  <1>5. QED
    BY <1>2, <1>4 DEF GETELEM_OBJ

\* CALL and RET.
LEMMA FramesView ==
  ASSUME TypeInv, TypeInv', NEW S \in SUBSET Addr, SafeSet(S),
         status' = "run" => SafeSet(S)', status = "run", CALL \/ RET
  PROVE  View!Next
  <1>1. Plain(S) /\ Wording
    BY PlainView, SameWords DEF SafeIsPlain
  <1>2. CASE Stop("OOM") \/ Stop("EXIT")
    BY <1>2, HaltView DEF Stop
  <1>3. ASSUME Rest, mem' = mem
        PROVE  View!Becomes(state_stack', SeenHeap)
    <2>1. Agrees(SeenHeap, S)
      BY <1>1, <1>3 DEF Agrees, Plain
    <2>2. QED
      BY <1>3, <2>1, StepShows DEF Rest
  <1>4. CASE /\ CALL /\ state_stack' = Append(state_stack, NewFrame(Acc))
             /\ Rest /\ mem' = mem
    <2>1. Acc = View!cur[View!ACC]
      BY <1>1, SameIndices DEF Acc, Wording
    <2>2. NewFrame(Acc) = [i \in View!RootIdx |->
                             IF i = View!CALLEE THEN View!cur[View!ACC]
                                                ELSE View!None]
      BY <2>1, SameIndices DEF NewFrame
    <2>3. Acc # nullptr /\ mem[Acc].kind = "FUNC"
      BY <1>4 DEF CALL, IsKind
    <2>4. SeenHeap[Acc].kind = "FUNC"
      BY <1>1, <2>3, AtHand, SameIndices DEF SafeSet, Acc
    <2>5. View!Becomes(Append(SeenFrames, NewFrame(Acc)), SeenHeap)
      BY <1>1, <1>3, <1>4 DEF Plain
    <2>6. View!Call
      BY <2>1, <2>2, <2>3, <2>4, <2>5, SameIndices DEF View!Call
    <2>7. QED
      BY <2>6 DEF View!Next
  <1>5. CASE /\ Len(state_stack) # 1 /\ state_stack' = Front(state_stack)
             /\ Rest /\ mem' = mem
    <2>1. View!Becomes(Front(SeenFrames), SeenHeap)
      BY <1>1, <1>3, <1>5 DEF Plain
    <2>2. View!top > 1
      BY <1>1, <1>5, ProgramAssumption DEF Wording, TypeInv, FramesOK
    <2>3. View!Return
      BY <2>1, <2>2 DEF View!Return, View!Front, Front
    <2>4. QED
      BY <2>3 DEF View!Next
  <1>6. QED
    BY <1>2, <1>4, <1>5 DEF CALL, RET

\* Every instruction is a step of the graph, or asks for memory first.
LEMMA InstructionView ==
  ASSUME TypeInv, TypeInv', Callees, HeapSafe, Instruction
  PROVE  View!Next \/ UNCHANGED View!vars
  <1>1. status = "run" /\ ~InGC
    BY InstructionIdle
  <1>2. PICK S \in SUBSET Addr : SafeSet(S)
    BY <1>1 DEF HeapSafe
  <1>3. status' = "run" => SafeSet(S)'
    BY <1>2, InstructionStaysSafe DEF StaysSafe
  <1>4. CASE LDAI_NUM \/ LDA \/ STA \/ STNULL \/ MOV
    <2>1. status' = "run"
      BY <1>1, <1>4 DEF LDAI_NUM, LDA, STA, STNULL, MOV, WriteRoot, Rest
    <2>2. QED
      BY <1>1, <1>2, <1>3, <1>4, <2>1, AssignView
  <1>5. CASE LDAI_FUNC \/ LDAI_STR \/ LDAI_OBJ \/ NEWARR
    <2>1. UNCHANGED <<mem, state_stack, status>>
      BY <1>5 DEF LDAI_FUNC, LDAI_STR, LDAI_OBJ, NEWARR, Await, gcVars
    <2>2. QED
      BY <2>1, SameView DEF View!vars
  <1>6. CASE GETARG \/ GETTHIS \/ GETRET0 \/ GETELEM_ARR
    BY <1>1, <1>2, <1>3, <1>6, ReadsView
  <1>7. CASE SETARG \/ SETRET0 \/ SETELEM_ARR \/ SETELEM_OBJ
    BY <1>1, <1>2, <1>3, <1>7, WritesView
  <1>8. CASE CALL \/ RET
    BY <1>1, <1>2, <1>3, <1>8, FramesView
  <1>9. CASE GETELEM_OBJ
    BY <1>1, <1>2, <1>3, <1>9, GetElemObjView
  <1>10. CASE NoOverload
    BY <1>1, <1>10, HaltView DEF NoOverload, Stop
  <1>11. QED
    BY <1>4, <1>5, <1>6, <1>7, <1>8, <1>9, <1>10 DEF Instruction

----------------------------------------------------------------------------
(* The allocations *)

\* What an instruction may ask for.
Asked ==
  request # NoRequest =>
    /\ request.kind = "FUNC" => request.n = FUNC_SLOTS
    /\ request.kind = "ARR"  => request.n \in ARR_SIZES
    /\ request.kind = "OBJ"  => \E l \in OBJ_LAYOUTS :
                                  /\ request.n = l.data + l.methods
                                  /\ request.methods = l.methods

LEMMA InstructionAsks ==
  ASSUME Instruction
  PROVE  Asked' /\ (request' = NoRequest \/ request'.step # "methods")
  <1>1. request = NoRequest
    BY InstructionIdle
  <1>2. CASE LDAI_FUNC \/ LDAI_STR \/ LDAI_OBJ \/ NEWARR
    BY <1>2 DEF LDAI_FUNC, LDAI_STR, LDAI_OBJ, NEWARR, Await, Ask, Asked
  <1>3. CASE UNCHANGED request
    BY <1>1, <1>3 DEF Asked
  <1>4. QED
    BY <1>2, <1>3
       DEF Instruction, LDAI_NUM, LDA, STA, STNULL, MOV, GETARG, GETTHIS,
           SETARG, GETRET0, SETRET0, CALL, RET, SETELEM_ARR, GETELEM_ARR,
           SETELEM_OBJ, GETELEM_OBJ, NoOverload, ReadInto, WriteRoot,
           WriteSlot, Stop, Rest

\* The methods of the object under construction that are made so far.
Made(method, S) ==
  /\ method \in [1 .. request.done -> Addr \ S]
  /\ \A i, j \in DOMAIN method : method[i] = method[j] => i = j
  /\ \A i \in DOMAIN method :
       /\ Good(method[i]) /\ method[i] # request.obj
       /\ mem[method[i]].kind = "FUNC"
       /\ mem[method[i]].slots = [j \in 1 .. FUNC_SLOTS |-> nullptr]

\* The object itself, with its last members filled one by one.
PartlyBuilt(method, S) ==
  LET data == request.n - request.methods
  IN  /\ request.obj \in Addr \ S /\ Good(request.obj)
      /\ mem[request.obj].kind = "OBJ"
      /\ mem[request.obj].slots =
           [i \in 1 .. request.n |->
              IF i - data \in 1 .. request.done THEN method[i - data]
                                                ELSE nullptr]

\* An object under construction and its methods lie outside of what the
\* program reaches.
Building ==
  status = "run" /\ request # NoRequest /\ request.step = "methods" =>
    \E S \in SUBSET Addr :
      SafeSet(S) /\ \E method : Made(method, S) /\ PartlyBuilt(method, S)

LEMMA NotBuilding ==
  ASSUME status' # "run" \/ request' = NoRequest \/ request'.step # "methods"
  PROVE  Building'
  BY DEF Building

\* An object constructed at the cursor of the young region is new, and what
\* was in place stays in place.
Placed(p, n, obj) ==
  /\ p \in Addr /\ Allocated(p)' /\ n[p] = obj
  /\ \A a \in Addr : Allocated(a) => Allocated(a)' /\ n[a] = mem[a] /\ a # p

LEMMA PlaceFacts ==
  ASSUME TypeInv, NEW p, p = CursorPtr(Young), NEW obj \in Object,
         cursor[Young] + obj.allocated_size <= RegionSize(Young),
         cursor' = [cursor EXCEPT ![Young] = @ + obj.allocated_size],
         NEW n, n = Overwrite(mem, p, obj)
  PROVE  Placed(p, n, obj)
  <1>1. Young \in RegionIds /\ obj.allocated_size \in Nat \ {0}
    BY RegionsAssumption DEF Young, RegionIds, Tenured, Object
  <1>2. /\ \A a \in Addr : Allocated(a) => Allocated(a)'
        /\ Allocated(p)' /\ p \in Addr
    BY <1>1, GrowAllocated
  <1>3. n[p] = obj
    BY <1>2 DEF Overwrite
  <1>4. \A a \in Addr : Allocated(a) => n[a] = mem[a] /\ a # p
    BY <1>1, OverwriteKeeps
  <1>5. QED
    BY <1>2, <1>3, <1>4 DEF Placed

\* A set that the construction does not touch stays safe.
LEMMA PlacedBeside ==
  ASSUME TypeInv, NEW S \in SUBSET Addr, SafeSet(S),
         NEW p, NEW n, NEW obj, Placed(p, n, obj), UNCHANGED state_stack,
         \A a \in S : mem'[a] = n[a]
  PROVE  SafeSet(S)' /\ Agrees(mem, S) /\ p \notin S
  <1>1. ASSUME NEW a \in S
        PROVE  /\ mem'[a] = mem[a] /\ a # p /\ Good(a)'
               /\ \A i \in DOMAIN mem[a].slots : mem[a].slots[i] \in Held(S)
    <2>1. a \in Addr /\ Good(a)
          /\ \A i \in DOMAIN mem[a].slots : mem[a].slots[i] \in Held(S)
      BY DEF SafeSet, Closed
    <2>2. Allocated(a)' /\ mem'[a] = mem[a] /\ a # p
      BY <2>1 DEF Good, Placed
    <2>3. QED
      BY <2>1, <2>2 DEF Good, WasRelocated
  <1>2. Closed(S)'
    BY <1>1 DEF Closed, SafeSet
  <1>3. QED
    BY <1>1, <1>2 DEF SafeSet, Agrees

\* What the program does not reach is free to be named.
LEMMA FreshView ==
  ASSUME TypeInv, NEW S \in SUBSET Addr, SafeSet(S), NEW p \in Addr \ S
  PROVE  p \in View!Fresh
  <1>1. Plain(S) /\ Closed(S)
    BY PlainView DEF SafeIsPlain, SafeSet
  <1>2. /\ \A f \in DOMAIN SeenFrames : \A i \in RootIdx :
             SeenFrames[f][i] \in Held(S)
        /\ \A a \in S : \A i \in DOMAIN SeenHeap[a].slots :
             SeenHeap[a].slots[i] \in Held(S)
    BY <1>1 DEF Plain, Closed
  <1>3. View!Reach(SeenFrames, SeenHeap) \subseteq S
    BY <1>2, ReachWithin
  <1>4. QED
    BY <1>3 DEF View!Fresh

\* A cleanup shows nothing.
LEMMA CleanupView ==
  ASSUME status = "run", NEW st, CleanupThis(st)
  PROVE  View!Next \/ UNCHANGED View!vars
  <1>1. CASE Halt("FORBIDDEN")
    BY <1>1, HaltView
  <1>2. CASE BeginStage(st)
    BY <1>2, SameView DEF BeginStage, View!vars
  <1>3. QED
    BY <1>1, <1>2 DEF CleanupThis

LEMMA NoRoomView ==
  ASSUME status = "run", NEW size, NoRoom(size)
  PROVE  View!Next \/ UNCHANGED View!vars
  BY CleanupView, HaltView DEF NoRoom, Stop

\* Constructing one object.
LEMMA CreateView ==
  ASSUME TypeInv, TypeInv', NEW S \in SUBSET Addr, SafeSet(S),
         NEW p \in Addr \ S, SafeSet(S \cup {p})',
         status = "run", status' = "run", state_stack' = SetRoot(ACC, p),
         \A a \in S : mem'[a] = mem[a],
         NEW kind, NEW n, mem'[p].kind = kind,
         mem'[p].slots = [i \in 1 .. n |-> nullptr]
  PROVE  View!Create(kind, n)
  <1> DEFINE obj == [kind |-> kind, slots |-> View!Empty(n)]
             h   == [SeenHeap EXCEPT ![p] = obj]
  <1>1. Plain(S) /\ Wording
    BY PlainView, SameWords DEF SafeIsPlain
  <1>2. p \in View!Fresh
    BY FreshView
  <1>3. obj.kind = mem'[p].kind /\ obj.slots = mem'[p].slots
    BY SameIndices DEF View!Empty
  <1>4. Agrees(h, S \cup {p})
    <2> HIDE DEF obj
    <2>1. DOMAIN SeenHeap = Addr
      BY DEF SeenHeap
    <2>2. h[p] = obj /\ \A a \in S : h[a] = SeenHeap[a]
      BY <2>1
    <2> HIDE DEF h
    <2>3. QED
      BY <1>1, <1>3, <2>2 DEF Agrees, Plain
  <1>5. View!Becomes(state_stack', h)
    <2> HIDE DEF h
    <2>1. S \cup {p} \in SUBSET Addr
      OBVIOUS
    <2>2. QED
      BY <1>4, <2>1, StepShows
  <1>6. state_stack' = View!SetLocal(View!ACC, p)
    BY <1>1, SameIndices DEF Wording
  <1>7. QED
    BY <1>2, <1>5, <1>6 DEF View!Create

\* Function::New, String::New and Array::New.
LEMMA NewSimpleView ==
  ASSUME TypeInv, TypeInv', HeapSafe, Asked, NewSimple
  PROVE  /\ View!Next \/ UNCHANGED View!vars
         /\ Asked' /\ Building'
  <1>p. PICK p : p = CursorPtr(Young)
    OBVIOUS
  <1> DEFINE obj  == Fresh(request.kind, request.n)
             size == HEADER + request.n
  <1>1. /\ Waiting("storage") /\ status = "run" /\ ~InGC /\ request # NoRequest
        /\ request.step = "storage" /\ request.kind # "OBJ"
    BY DEF NewSimple, Waiting, Running
  <1>2. request \in Request /\ request.kind \in Kinds /\ request.n \in Nat
    BY <1>1, WaitingType
  <1>3. PICK S \in SUBSET Addr : SafeSet(S)
    BY <1>1 DEF HeapSafe
  <1>4. CASE NoRoom(size)
    <2>1. View!Next \/ UNCHANGED View!vars
      BY <1>1, <1>4, NoRoomView
    <2>2. request' = request \/ request' = [request EXCEPT !.cleaned = TRUE]
      BY <1>4 DEF NoRoom, Stop
    <2>3. Asked' /\ request'.step # "methods"
      BY <1>1, <1>2, <2>2 DEF Asked, Request
    <2>4. QED
      BY <2>1, <2>3, NotBuilding
  <1>5. CASE /\ Place(size, NoRequest)
             /\ mem' = Overwrite(mem, p, obj)
             /\ state_stack' = SetRoot(ACC, p)
    <2>1. /\ obj \in Object /\ obj.allocated_size = size
          /\ obj.relocated_ptr = nullptr
          /\ \A i \in DOMAIN obj.slots : obj.slots[i] = nullptr
      BY <1>2, FreshEmpty
    <2>2. /\ cursor[Young] + size <= RegionSize(Young)
          /\ cursor' = [cursor EXCEPT ![Young] = @ + size]
          /\ status' = "run" /\ request' = NoRequest
      BY <1>1, <1>5 DEF Place, Fits
    <2>3. obj.kind = request.kind
          /\ obj.slots = IF request.kind = "STR" THEN <<>>
                         ELSE [i \in 1 .. request.n |-> nullptr]
      BY DEF Fresh
    <2> HIDE DEF obj, size
    <2>4. SafeSet(S \cup {p})'
      BY <1>p, <1>1, <1>3, <1>5, <2>1, <2>2, SimplePlaced
    <2>5. Placed(p, mem', obj)
      BY <1>p, <1>5, <2>1, <2>2, PlaceFacts
    <2>6. /\ p \in Addr \ S /\ mem'[p] = obj
          /\ \A a \in S : mem'[a] = mem[a]
      BY <1>3, <2>5 DEF Placed, SafeSet, Good
    <2>7. ASSUME NEW n, obj.slots = [i \in 1 .. n |-> nullptr]
          PROVE  View!Create(request.kind, n)
      BY <1>1, <1>3, <1>5, <2>2, <2>3, <2>4, <2>6, <2>7, CreateView
    <2>8. View!NewFunc \/ View!NewStr \/ View!NewArr
      <3>1. CASE request.kind = "FUNC"
        <4>1. View!Create("FUNC", FUNC_SLOTS)
          BY <1>1, <2>3, <2>7, <3>1 DEF Asked
        <4>2. QED
          BY <4>1 DEF View!NewFunc
      <3>2. CASE request.kind = "STR"
        <4>1. <<>> = [i \in 1 .. 0 |-> nullptr]
          OBVIOUS
        <4>2. View!Create("STR", 0)
          BY <2>3, <2>7, <3>2, <4>1
        <4>3. QED
          BY <4>2 DEF View!NewStr
      <3>3. CASE request.kind = "ARR"
        <4>1. View!Create("ARR", request.n) /\ request.n \in ARR_SIZES
          BY <1>1, <2>3, <2>7, <3>3 DEF Asked
        <4>2. QED
          BY <4>1 DEF View!NewArr
      <3>4. QED
        BY <1>1, <1>2, <3>1, <3>2, <3>3 DEF Kinds
    <2>9. View!Next
      BY <1>1, <2>8 DEF View!Next
    <2>10. Asked' /\ Building'
      BY <2>2, NotBuilding DEF Asked
    <2>11. QED
      BY <2>9, <2>10
  <1>6. QED
    BY <1>p, <1>4, <1>5 DEF NewSimple

\* PrepareForSequentAllocations.
LEMMA PrepareView ==
  ASSUME TypeInv, Asked, PrepareForSequentAllocations
  PROVE  /\ View!Next \/ UNCHANGED View!vars
         /\ Asked' /\ Building'
  <1>1. /\ Waiting("prepare") /\ status = "run" /\ request # NoRequest
        /\ request.step = "prepare"
    BY DEF PrepareForSequentAllocations, Waiting, Running
  <1>2. request \in Request
    BY <1>1, WaitingType
  <1>3. View!Next \/ UNCHANGED View!vars
    <2>1. CASE CleanupThis(stages_stack)
      BY <1>1, <2>1, CleanupView
    <2>2. CASE Halt("SEQUENT_TOO_BIG")
      BY <1>1, <2>2, HaltView
    <2>3. CASE UNCHANGED <<mem, state_stack, status>>
      BY <2>3, SameView DEF View!vars
    <2>4. QED
      BY <2>1, <2>2, <2>3 DEF PrepareForSequentAllocations
  <1>4. \/ request' = request
        \/ request' = [request EXCEPT !.cleaned = TRUE]
        \/ request' = [request EXCEPT !.step = "storage", !.cleaned = FALSE]
    BY DEF PrepareForSequentAllocations
  <1>5. /\ request'.kind = request.kind /\ request'.n = request.n
        /\ request'.methods = request.methods
        /\ request'.step \in {"prepare", "storage"}
    BY <1>1, <1>2, <1>4 DEF Request
  <1>6. Asked'
    BY <1>1, <1>5 DEF Asked
  <1>7. Building'
    BY <1>5, NotBuilding
  <1>8. QED
    BY <1>3, <1>6, <1>7

\* A construction beside what the program reaches shows nothing.
LEMMA BesideView ==
  ASSUME TypeInv, TypeInv', NEW S \in SUBSET Addr, SafeSet(S), SafeSet(S)',
         Agrees(mem, S), UNCHANGED state_stack, status = "run", status' = "run"
  PROVE  View!Next
  <1>1. Plain(S)
    BY PlainView DEF SafeIsPlain
  <1>2. Agrees(SeenHeap, S)
    BY <1>1 DEF Plain, Agrees
  <1>3. View!Becomes(state_stack', SeenHeap)
    BY <1>2, StepShows
  <1>4. state_stack' = SeenFrames
    BY <1>1 DEF Plain
  <1>5. View!Rearrange
    BY <1>3, <1>4 DEF View!Rearrange
  <1>6. QED
    BY <1>5 DEF View!Next

\* The storage of an object.
LEMMA NewObjectStorageView ==
  ASSUME TypeInv, TypeInv', RequestInv, HeapSafe, Asked, NewObjectStorage
  PROVE  /\ View!Next \/ UNCHANGED View!vars
         /\ Asked' /\ Building'
  <1>p. PICK p : p = CursorPtr(Young)
    OBVIOUS
  <1> DEFINE obj  == Fresh("OBJ", request.n)
             size == HEADER + request.n
             req  == [request EXCEPT !.step = "methods", !.cleaned = FALSE,
                                     !.obj = p]
  <1>1. /\ Waiting("storage") /\ status = "run" /\ ~InGC /\ request # NoRequest
        /\ request.step = "storage" /\ request \in Request /\ RequestShape
        /\ request.kind = "OBJ"
    BY WaitingRequest DEF NewObjectStorage
  <1>2. request.n \in Nat /\ request.done = 0
    BY <1>1 DEF Request, RequestShape
  <1>3. PICK S \in SUBSET Addr : SafeSet(S)
    BY <1>1 DEF HeapSafe
  <1>4. CASE NoRoom(size)
    <2>1. View!Next \/ UNCHANGED View!vars
      BY <1>1, <1>4, NoRoomView
    <2>2. request' = request \/ request' = [request EXCEPT !.cleaned = TRUE]
      BY <1>4 DEF NoRoom, Stop
    <2>3. Asked' /\ request'.step # "methods"
      BY <1>1, <2>2 DEF Asked, Request
    <2>4. QED
      BY <2>1, <2>3, NotBuilding
  <1>5. CASE /\ Place(size, req)
             /\ mem' = Overwrite(mem, p, obj)
             /\ UNCHANGED state_stack
    <2>1. /\ obj \in Object /\ obj.allocated_size = size
          /\ obj.relocated_ptr = nullptr /\ obj.kind = "OBJ"
          /\ obj.slots = [i \in 1 .. request.n |-> nullptr]
      <3>1. /\ obj \in Object /\ obj.allocated_size = size
            /\ obj.relocated_ptr = nullptr
        BY <1>2, FreshEmpty DEF Kinds
      <3>2. QED
        BY <3>1 DEF Fresh
    <2>2. /\ cursor[Young] + size <= RegionSize(Young)
          /\ cursor' = [cursor EXCEPT ![Young] = @ + size]
          /\ status' = "run" /\ request' = req
      BY <1>1, <1>5 DEF Place, Fits
    <2>3. /\ request'.kind = "OBJ" /\ request'.n = request.n
          /\ request'.methods = request.methods /\ request'.obj = p
          /\ request'.done = 0
      BY <1>1, <1>2, <2>2 DEF Request
    <2> HIDE DEF obj, size, req
    <2>4. Placed(p, mem', obj)
      BY <1>p, <1>5, <2>1, <2>2, PlaceFacts
    <2>5. SafeSet(S)' /\ Agrees(mem, S) /\ p \notin S
      BY <1>3, <1>5, <2>4, PlacedBeside
    <2>6. View!Next
      BY <1>1, <1>3, <1>5, <2>2, <2>5, BesideView
    <2>7. Asked'
      BY <1>1, <2>3 DEF Asked
    <2>8. Building'
      <3>1. PICK method : method = [i \in 1 .. 0 |-> nullptr]
        OBVIOUS
      <3>2. Made(method, S)'
        BY <2>3, <3>1 DEF Made
      <3>3. PartlyBuilt(method, S)'
        <4>1. p \in Addr \ S /\ mem'[p] = obj /\ Allocated(p)'
          BY <2>4, <2>5 DEF Placed
        <4>2. Good(p)'
          BY <2>1, <4>1 DEF Good, WasRelocated, Object, Kinds, NoObj
        <4>3. mem'[p].slots = [i \in 1 .. request.n |-> nullptr]
          BY <2>1, <4>1
        <4>4. QED
          BY <2>1, <2>3, <4>1, <4>2, <4>3 DEF PartlyBuilt
      <3>4. QED
        BY <2>5, <3>2, <3>3 DEF Building
    <2>9. QED
      BY <2>6, <2>7, <2>8
  <1>6. QED
    BY <1>p, <1>4, <1>5 DEF NewObjectStorage

\* There is room for every method.
LEMMA MethodHasRoom ==
  ASSUME TypeInv, RequestInv, NewMethod
  PROVE  ~NoRoom(HEADER + FUNC_SLOTS)
  <1>1. RequestInv' /\ status' = "run"
    BY NewMethodRequest
  <1>2. /\ request \in Request /\ request # NoRequest /\ request.step = "methods"
        /\ request.kind = "OBJ"
    BY WaitingRequest DEF NewMethod, RequestShape
  <1>3. ASSUME request' = [request EXCEPT !.cleaned = TRUE]
        PROVE  FALSE
    <2>1. /\ request'.kind = "OBJ" /\ request'.step = "methods"
          /\ request'.cleaned = TRUE
      BY <1>2, <1>3 DEF Request
    <2>2. Sequent'
      BY <2>1 DEF Sequent, NoRequest
    <2>3. QED
      BY <1>1, <2>1, <2>2 DEF RequestInv, ForbiddenIsServed
  <1>4. QED
    BY <1>1, <1>3 DEF NoRoom, Stop, Halt

\* The next method of the object.
LEMMA NewMethodView ==
  ASSUME TypeInv, TypeInv', RequestInv, Asked, Building, NewMethod
  PROVE  View!Next /\ Asked' /\ Building'
  <1>p. PICK p : p = CursorPtr(Young)
    OBVIOUS
  <1>o. PICK o : o = request.obj
    OBVIOUS
  <1> DEFINE obj   == Fresh("FUNC", FUNC_SLOTS)
             size  == HEADER + FUNC_SLOTS
             data  == request.n - request.methods
             field == data + request.done + 1
             req   == [request EXCEPT !.done = @ + 1, !.cleaned = FALSE]
             n     == Overwrite(mem, p, obj)
  <1>1. /\ Waiting("methods") /\ status = "run" /\ request # NoRequest
        /\ request.step = "methods" /\ request \in Request
        /\ request.done < request.methods /\ request.kind = "OBJ"
    BY WaitingRequest DEF NewMethod, RequestShape
  <1>2. /\ request.n \in Nat /\ request.methods \in Nat /\ request.done \in Nat
        /\ request.methods <= request.n
    <2>1. PICK l \in OBJ_LAYOUTS : /\ request.n = l.data + l.methods
                                   /\ request.methods = l.methods
      BY <1>1 DEF Asked
    <2>2. l.data \in Nat /\ l.methods \in Nat
      BY ProgramAssumption
    <2>3. QED
      BY <1>1, <2>1, <2>2 DEF Request
  <1>3. /\ data \in Nat /\ field \in 1 .. request.n
        /\ field - data = request.done + 1
        /\ \A i \in 1 .. request.n : i # field =>
             (i - data \in 1 .. request.done + 1 <=> i - data \in 1 .. request.done)
    BY <1>1, <1>2
  <1>4. PICK S \in SUBSET Addr : SafeSet(S) /\ \E m : Made(m, S) /\ PartlyBuilt(m, S)
    BY <1>1 DEF Building
  <1>5. PICK m : Made(m, S) /\ PartlyBuilt(m, S)
    BY <1>4
  <1>6. /\ Place(size, req)
        /\ mem' = [n EXCEPT ![o].slots[field] = p]
        /\ UNCHANGED state_stack
    BY <1>p, <1>o, MethodHasRoom DEF NewMethod
  <1>7. /\ obj \in Object /\ obj.allocated_size = size
        /\ obj.relocated_ptr = nullptr /\ obj.kind = "FUNC"
        /\ obj.slots = [i \in 1 .. FUNC_SLOTS |-> nullptr]
    <2>1. FUNC_SLOTS \in Nat
      BY FrameAssumption DEF FUNC_SLOTS
    <2>2. /\ obj \in Object /\ obj.allocated_size = size
          /\ obj.relocated_ptr = nullptr
      BY <2>1, FreshEmpty DEF Kinds
    <2>3. QED
      BY <2>2 DEF Fresh
  <1>8. /\ cursor[Young] + size <= RegionSize(Young)
        /\ cursor' = [cursor EXCEPT ![Young] = @ + size]
        /\ status' = "run" /\ request' = req
    BY <1>1, <1>6 DEF Place, Fits
  <1>9. /\ request'.kind = "OBJ" /\ request'.n = request.n
        /\ request'.methods = request.methods /\ request'.obj = o
        /\ request'.done = request.done + 1
    BY <1>1, <1>o, <1>8 DEF Request
  <1> HIDE DEF obj, size, req, data, field
  <1>10. Placed(p, n, obj)
    BY <1>p, <1>7, <1>8, PlaceFacts
  <1> HIDE DEF n
  <1>11. /\ o \in Addr \ S /\ Good(o) /\ mem[o].kind = "OBJ"
         /\ mem[o].slots = [i \in 1 .. request.n |->
                              IF i - data \in 1 .. request.done THEN m[i - data]
                                                                ELSE nullptr]
    BY <1>o, <1>5 DEF PartlyBuilt, data
  <1>12. o # p /\ n[o] = mem[o] /\ Allocated(o)'
    BY <1>10, <1>11 DEF Placed, Good
  <1>13. MemOK(n)
    <2>1. p \in Addr
      BY <1>10 DEF Placed
    <2>2. QED
      BY <1>7, <2>1, OverwriteType DEF TypeInv, MemOK, n
  <1>14. SlotWritten(n, mem', o, field, p)
    BY <1>6, <1>13, SlotWriteFacts
  <1>15. ASSUME NEW a \in Addr, a # o
         PROVE  mem'[a] = n[a]
    BY <1>6, <1>13, <1>15 DEF MemOK
  <1>16. SafeSet(S)' /\ Agrees(mem, S) /\ p \notin S
    <2>1. \A a \in S : mem'[a] = n[a]
      BY <1>11, <1>15
    <2>2. QED
      BY <1>4, <1>6, <1>10, <2>1, PlacedBeside
  <1>17. View!Next
    BY <1>1, <1>4, <1>6, <1>8, <1>16, BesideView
  <1>18. Asked'
    BY <1>1, <1>9 DEF Asked
  <1>19. PICK q : q = [i \in 1 .. request.done + 1 |->
                         IF i = request.done + 1 THEN p ELSE m[i]]
    OBVIOUS
  <1>20. /\ m \in [1 .. request.done -> Addr \ S]
         /\ \A i, j \in 1 .. request.done : m[i] = m[j] => i = j
         /\ \A i \in 1 .. request.done :
              /\ Good(m[i]) /\ m[i] # o /\ mem[m[i]].kind = "FUNC"
              /\ mem[m[i]].slots = [j \in 1 .. FUNC_SLOTS |-> nullptr]
    BY <1>o, <1>5 DEF Made
  <1>21. ASSUME NEW i \in 1 .. request.done
         PROVE  /\ Allocated(m[i])' /\ m[i] # p /\ mem'[m[i]] = mem[m[i]]
                /\ q[i] = m[i]
    <2>1. m[i] \in Addr /\ Good(m[i]) /\ m[i] # o
      BY <1>20
    <2>2. Allocated(m[i])' /\ m[i] # p /\ mem'[m[i]] = mem[m[i]]
      BY <1>10, <1>15, <2>1 DEF Good, Placed
    <2>3. q[i] = m[i]
      BY <1>2, <1>19
    <2>4. QED
      BY <2>2, <2>3
  <1>22. q[request.done + 1] = p /\ mem'[p] = obj /\ Allocated(p)' /\ p \in Addr
    <2>1. n[p] = obj /\ p \in Addr /\ Allocated(p)'
      BY <1>10 DEF Placed
    <2>2. QED
      BY <1>2, <1>12, <1>15, <1>19, <2>1
  <1>23. ASSUME NEW i \in 1 .. request.done + 1
         PROVE  i = request.done + 1 \/ i \in 1 .. request.done
    BY <1>2
  <1>24. Made(q, S)'
    <2>1. ASSUME NEW i \in 1 .. request.done + 1
          PROVE  /\ q[i] \in Addr \ S /\ Good(q[i])' /\ q[i] # o
                 /\ mem'[q[i]].kind = "FUNC"
                 /\ mem'[q[i]].slots = [j \in 1 .. FUNC_SLOTS |-> nullptr]
      <3>1. CASE i = request.done + 1
        <4>1. Good(p)'
          BY <1>7, <1>22 DEF Good, WasRelocated, Object, Kinds, NoObj
        <4>2. QED
          BY <1>7, <1>12, <1>16, <1>22, <3>1, <4>1
      <3>2. CASE i \in 1 .. request.done
        <4>1. Good(m[i])'
          BY <1>20, <1>21, <3>2 DEF Good, WasRelocated
        <4>2. QED
          BY <1>20, <1>21, <3>2, <4>1
      <3>3. QED
        BY <1>23, <3>1, <3>2
    <2>2. DOMAIN q = 1 .. request.done + 1
      BY <1>19
    <2>3. q \in [1 .. request.done + 1 -> Addr \ S]
      <3>1. q = [i \in 1 .. request.done + 1 |-> q[i]]
        BY <1>19
      <3>2. QED
        BY <2>1, <3>1
    <2>4. ASSUME NEW i \in 1 .. request.done + 1, NEW j \in 1 .. request.done + 1,
                 q[i] = q[j]
          PROVE  i = j
      BY <1>20, <1>21, <1>22, <1>23, <2>4
    <2>5. QED
      BY <1>9, <2>1, <2>2, <2>3, <2>4 DEF Made
  <1>25. PartlyBuilt(q, S)'
    <2>1. mem[o] # NoObj /\ mem[o].relocated_ptr = nullptr
      BY <1>11 DEF Good, WasRelocated
    <2>2. /\ mem'[o] # NoObj /\ mem'[o].relocated_ptr = nullptr
          /\ mem'[o].kind = "OBJ"
          /\ DOMAIN mem'[o].slots = DOMAIN mem[o].slots
          /\ \A i \in DOMAIN mem[o].slots :
               mem'[o].slots[i] = IF i = field THEN p ELSE mem[o].slots[i]
      <3>1. o \in Addr /\ mem[o].kind = "OBJ"
        BY <1>11
      <3>2. n[o] = mem[o]
        BY <1>12
      <3>3. /\ mem'[o] = NoObj <=> mem[o] = NoObj
            /\ mem'[o].relocated_ptr = mem[o].relocated_ptr
            /\ mem'[o].kind = mem[o].kind
            /\ DOMAIN mem'[o].slots = DOMAIN mem[o].slots
            /\ \A i \in DOMAIN mem[o].slots :
                 mem'[o].slots[i] = IF i = field THEN p ELSE mem[o].slots[i]
        BY <1>14, <3>1, <3>2 DEF SlotWritten
      <3>4. QED
        BY <2>1, <3>1, <3>3
    <2>3. Good(o)'
      BY <1>12, <2>2 DEF Good, WasRelocated
    <2>4. DOMAIN mem'[o].slots = 1 .. request.n
      BY <1>11, <2>2
    <2>5. ASSUME NEW i \in 1 .. request.n
          PROVE  mem'[o].slots[i] = IF i - data \in 1 .. request.done + 1
                                    THEN q[i - data] ELSE nullptr
      <3>1. mem'[o].slots[i] = IF i = field THEN p ELSE mem[o].slots[i]
        BY <1>11, <2>2
      <3>2. CASE i = field
        <4>1. i - data = request.done + 1
              /\ request.done + 1 \in 1 .. request.done + 1
          BY <1>2, <1>3, <3>2
        <4>2. QED
          BY <1>22, <3>1, <3>2, <4>1
      <3>3. CASE i # field
        <4>1. i - data \in 1 .. request.done + 1 <=> i - data \in 1 .. request.done
          BY <1>3, <3>3
        <4>2. mem[o].slots[i] = IF i - data \in 1 .. request.done THEN m[i - data]
                                                                  ELSE nullptr
          BY <1>11
        <4>3. i - data \in 1 .. request.done => q[i - data] = m[i - data]
          BY <1>21
        <4>4. QED
          BY <3>1, <3>3, <4>1, <4>2, <4>3
      <3>4. QED
        BY <3>2, <3>3
    <2>6. mem'[o].slots = [i \in 1 .. request.n |->
                             IF i - data \in 1 .. request.done + 1
                             THEN q[i - data] ELSE nullptr]
      <3>1. PICK s : s = mem'[o].slots
        OBVIOUS
      <3>2. s \in Seq(Ptr)
        BY <1>11, <3>1, CellType DEF TypeInv
      <3>3. s = [i \in 1 .. request.n |-> s[i]]
        <4>1. s = [i \in DOMAIN s |-> s[i]]
          BY <3>2
        <4>2. DOMAIN s = 1 .. request.n
          BY <2>4, <3>1
        <4>3. QED
          BY <4>1, <4>2, Zenon
      <3>4. \A i \in 1 .. request.n :
              s[i] = IF i - data \in 1 .. request.done + 1 THEN q[i - data]
                                                           ELSE nullptr
        BY <2>5, <3>1
      <3>5. QED
        BY <3>1, <3>3, <3>4
    <2>7. QED
      BY <1>9, <1>11, <2>2, <2>3, <2>6 DEF PartlyBuilt, data
  <1>26. Building'
    BY <1>16, <1>24, <1>25 DEF Building
  <1>27. QED
    BY <1>17, <1>18, <1>26

\* EndSequentAllocations: the program gets the object with its methods.
LEMMA EndSequentView ==
  ASSUME TypeInv, TypeInv', RequestInv, Asked, Building, EndSequentAllocations
  PROVE  View!Next /\ Asked' /\ Building'
  <1>o. PICK o : o = request.obj
    OBVIOUS
  <1>1. /\ Waiting("methods") /\ status = "run" /\ request # NoRequest
        /\ request.step = "methods" /\ request \in Request
        /\ request.done = request.methods /\ request.kind = "OBJ"
    BY WaitingRequest DEF EndSequentAllocations, RequestShape
  <1>2. /\ state_stack' = SetRoot(ACC, o) /\ request' = NoRequest
        /\ UNCHANGED <<mem, cursor, status>>
    BY <1>o DEF EndSequentAllocations
  <1>3. PICK l \in OBJ_LAYOUTS : /\ request.n = l.data + l.methods
                                 /\ request.methods = l.methods
    BY <1>1 DEF Asked
  <1>4. l.data \in Nat /\ l.methods \in Nat
    BY ProgramAssumption
  <1>5. PICK S \in SUBSET Addr : SafeSet(S) /\ \E m : Made(m, S) /\ PartlyBuilt(m, S)
    BY <1>1 DEF Building
  <1>6. PICK m : Made(m, S) /\ PartlyBuilt(m, S)
    BY <1>5
  <1>7. /\ m \in [1 .. l.methods -> Addr \ S]
        /\ \A i, j \in 1 .. l.methods : m[i] = m[j] => i = j
        /\ \A i \in 1 .. l.methods :
             /\ Good(m[i]) /\ m[i] # o /\ mem[m[i]].kind = "FUNC"
             /\ mem[m[i]].slots = [j \in 1 .. FUNC_SLOTS |-> nullptr]
    BY <1>o, <1>1, <1>3, <1>6 DEF Made
  <1> DEFINE members == [i \in 1 .. l.data + l.methods |->
                           IF i <= l.data THEN View!None ELSE m[i - l.data]]
             h == [p \in Addr |->
                     IF p = o THEN [kind |-> "OBJ", slots |-> members]
                     ELSE IF \E i \in 1 .. l.methods : p = m[i]
                     THEN [kind |-> "FUNC", slots |-> View!Empty(FUNC_SLOTS)]
                     ELSE SeenHeap[p]]
             methods == {m[i] : i \in 1 .. l.methods}
             T == S \cup {o} \cup methods
  <1>8. /\ o \in Addr \ S /\ Good(o) /\ mem[o].kind = "OBJ"
        /\ mem[o].slots = members
    <2>1. /\ o \in Addr \ S /\ Good(o) /\ mem[o].kind = "OBJ"
          /\ mem[o].slots = [i \in 1 .. request.n |->
                               IF i - (request.n - request.methods)
                                    \in 1 .. request.done
                               THEN m[i - (request.n - request.methods)]
                               ELSE nullptr]
      BY <1>o, <1>6 DEF PartlyBuilt
    <2>2. request.n - request.methods = l.data
      BY <1>3, <1>4
    <2>3. request.n = l.data + l.methods /\ request.done = l.methods
      BY <1>1, <1>3
    <2>4. mem[o].slots = [i \in 1 .. l.data + l.methods |->
                            IF i - l.data \in 1 .. l.methods THEN m[i - l.data]
                                                             ELSE nullptr]
      BY <2>1, <2>2, <2>3
    <2>5. \A i \in 1 .. l.data + l.methods :
            i - l.data \in 1 .. l.methods <=> ~(i <= l.data)
      BY <1>4
    <2>6. QED
      BY <2>1, <2>4, <2>5, SameIndices
  <1>9. \A i \in DOMAIN members : members[i] \in Held(T)
    <2>1. ASSUME NEW i \in 1 .. l.data + l.methods
          PROVE  members[i] \in Held(T)
      <3>1. CASE i <= l.data
        BY <3>1, SameIndices DEF Held
      <3>2. CASE ~(i <= l.data)
        <4>1. i - l.data \in 1 .. l.methods
          BY <1>4, <3>2
        <4>2. QED
          BY <3>2, <4>1 DEF Held
      <3>3. QED
        BY <3>1, <3>2
    <2>2. QED
      BY <2>1
  <1>10. \A p \in methods : /\ p \in Addr \ S /\ p # o /\ Good(p)
                            /\ mem[p].kind = "FUNC"
                            /\ mem[p].slots = [j \in 1 .. FUNC_SLOTS |-> nullptr]
    <2>1. ASSUME NEW p \in methods
          PROVE  /\ p \in Addr \ S /\ p # o /\ Good(p)
                 /\ mem[p].kind = "FUNC"
                 /\ mem[p].slots = [j \in 1 .. FUNC_SLOTS |-> nullptr]
      <3>1. PICK i \in 1 .. l.methods : p = m[i]
        OBVIOUS
      <3>2. m[i] \in Addr \ S
        BY <1>7
      <3>3. /\ Good(m[i]) /\ m[i] # o /\ mem[m[i]].kind = "FUNC"
            /\ mem[m[i]].slots = [j \in 1 .. FUNC_SLOTS |-> nullptr]
        BY <1>7
      <3> HIDE DEF methods
      <3>4. QED
        BY <3>1, <3>2, <3>3
    <2>2. QED
      BY <2>1
  <1>11. \A p \in methods : \E i \in 1 .. l.methods : p = m[i]
    OBVIOUS
  <1>12. \A p \in Addr : p \notin methods => ~\E i \in 1 .. l.methods : p = m[i]
    OBVIOUS
  <1>13. T \in SUBSET Addr /\ Held(S) \subseteq Held(T) /\ o \in Held(T)
    BY <1>5, <1>8, <1>10 DEF Held
  <1>a. Plain(S) /\ Wording /\ Closed(S) /\ \A a \in S : Good(a)
    BY <1>5, PlainView, SameWords DEF SafeIsPlain, SafeSet
  <1> HIDE DEF members
  <1>14. SafeSet(T)'
    <2>1. \A a \in T : Good(a)'
      <3>1. \A a \in T : Good(a)
        BY <1>a, <1>8, <1>10
      <3>2. \A a : Good(a)' <=> Good(a)
        BY <1>2 DEF Good, Allocated, CursorPtr, WasRelocated
      <3>3. QED
        BY <3>1, <3>2
    <2>2. ASSUME NEW a \in T, NEW i \in DOMAIN mem'[a].slots
          PROVE  mem'[a].slots[i] \in Held(T)
      <3>1. CASE a \in S
        BY <1>2, <1>a, <1>13, <2>2, <3>1 DEF Closed
      <3>2. CASE a = o
        BY <1>2, <1>8, <1>9, <2>2, <3>2
      <3>3. CASE a \in methods
        BY <1>2, <1>10, <2>2, <3>3 DEF Held
      <3>4. QED
        BY <3>1, <3>2, <3>3
    <2>3. \A f \in DOMAIN state_stack' : \A i \in RootIdx :
            state_stack'[f][i] \in Held(T)
      <3>1. Closed(S)
        BY <1>a
      <3> HIDE DEF T
      <3>2. ASSUME NEW f \in DOMAIN state_stack', NEW i \in RootIdx
            PROVE  state_stack'[f][i] \in Held(T)
        <4>1. f \in DOMAIN state_stack
          BY <1>2 DEF SetRoot
        <4>2. state_stack[f][i] \in Held(T)
          BY <1>13, <3>1, <4>1 DEF Closed
        <4>3. state_stack'[f][i] = state_stack[f][i] \/ state_stack'[f][i] = o
          <5>1. state_stack[f] \in [RootIdx -> Ptr]
            BY <4>1 DEF TypeInv, FramesOK, Frame
          <5>2. QED
            BY <1>2, <4>1, <5>1 DEF SetRoot
        <4>4. QED
          BY <1>13, <4>2, <4>3
      <3>3. QED
        BY <3>2
    <2> HIDE DEF T
    <2>4. Closed(T)'
      BY <2>2, <2>3 DEF Closed, Held
    <2>5. QED
      BY <1>13, <2>1, <2>4 DEF SafeSet
  <1>15. Agrees(h, T)
    <2>1. ASSUME NEW a \in T
          PROVE  h[a].kind = mem'[a].kind /\ h[a].slots = mem'[a].slots
      <3>1. a \in Addr /\ mem'[a] = mem[a]
        BY <1>2, <1>13
      <3>2. CASE a \in S
        <4>1. a # o /\ a \notin methods
          BY <1>8, <1>10, <3>2
        <4>2. h[a] = SeenHeap[a]
          BY <1>12, <3>1, <4>1
        <4>3. QED
          BY <1>a, <3>1, <3>2, <4>2 DEF Plain
      <3>3. CASE a = o
        <4>1. h[a] = [kind |-> "OBJ", slots |-> members]
          BY <3>1, <3>3
        <4>2. QED
          BY <1>8, <3>1, <3>3, <4>1
      <3>4. CASE a \in methods
        <4>1. a # o /\ mem[a].kind = "FUNC"
              /\ mem[a].slots = [j \in 1 .. FUNC_SLOTS |-> nullptr]
          BY <1>10, <3>4
        <4>2. h[a] = [kind |-> "FUNC", slots |-> View!Empty(FUNC_SLOTS)]
          BY <1>11, <3>1, <3>4, <4>1
        <4>3. View!Empty(FUNC_SLOTS) = [j \in 1 .. FUNC_SLOTS |-> nullptr]
          BY SameIndices DEF View!Empty
        <4> HIDE DEF h
        <4>4. QED
          BY <3>1, <4>1, <4>2, <4>3
      <3>5. QED
        BY <3>2, <3>3, <3>4
    <2> HIDE DEF h, T
    <2>2. QED
      BY <2>1 DEF Agrees
  <1>16. View!Becomes(View!SetLocal(View!ACC, o), h)
    <2>1. status' = "run"
      BY <1>1, <1>2
    <2> HIDE DEF h, T
    <2>2. View!Becomes(state_stack', h)
      BY <1>1, <1>13, <1>14, <1>15, <2>1, StepShows
    <2>3. state_stack' = View!SetLocal(View!ACC, o)
      BY <1>2, <1>a, SameIndices DEF Wording
    <2>4. QED
      BY <2>2, <2>3
  <1>17. o \in View!Fresh /\ m \in [1 .. l.methods -> View!Fresh \ {o}]
    <2>1. \A p \in Addr \ S : p \in View!Fresh
      BY <1>5, FreshView
    <2>2. QED
      BY <1>7, <1>8, <2>1
  <1>18. View!NewObj
    <2> DEFINE Members(k, method) ==
                 [i \in 1 .. k.data + k.methods |->
                    IF i <= k.data THEN View!None ELSE method[i - k.data]]
               Creates(k, new, method) ==
                 /\ \A i, j \in 1 .. k.methods : method[i] = method[j] => i = j
                 /\ View!Becomes(View!SetLocal(View!ACC, new),
                      [p \in Addr |->
                         IF p = new
                         THEN [kind |-> "OBJ", slots |-> Members(k, method)]
                         ELSE IF \E i \in 1 .. k.methods : p = method[i]
                         THEN [kind |-> "FUNC",
                               slots |-> View!Empty(FUNC_SLOTS)]
                         ELSE SeenHeap[p]])
    <2>1. View!NewObj <=> \E k \in OBJ_LAYOUTS, new \in View!Fresh :
                            \E method \in [1 .. k.methods -> View!Fresh \ {new}] :
                              Creates(k, new, method)
      BY DEF View!NewObj
    <2>2. Creates(l, o, m)
      BY <1>7, <1>16, Zenon DEF members
    <2> HIDE DEF Creates
    <2>3. QED
      BY <1>17, <2>1, <2>2
  <1>19. View!Next
    BY <1>1, <1>18 DEF View!Next
  <1>20. Asked' /\ Building'
    BY <1>2, NotBuilding DEF Asked
  <1>21. QED
    BY <1>19, <1>20

\* Every step of an allocation shows as a step of the graph or not at all.
LEMMA AllocView ==
  ASSUME TypeInv, TypeInv', RequestInv, HeapSafe, Asked, Building, AllocStep
  PROVE  /\ View!Next \/ UNCHANGED View!vars
         /\ Asked' /\ Building'
  BY NewSimpleView, PrepareView, NewObjectStorageView, NewMethodView,
     EndSequentView
     DEF AllocStep

----------------------------------------------------------------------------
(* Collections *)

\* Whatever leaves memory, frames and status alone shows nothing.
LEMMA QuietView ==
  ASSUME UNCHANGED <<mem, state_stack, status>>
  PROVE  UNCHANGED View!vars
  BY SameView DEF View!vars

\* What the places of M may hold on the way up, and where it leads to.
Leading(M) == Held(M) \cup {Copy(b) : b \in Moved(M)}

LEMMA LeadingFacts ==
  ASSUME TypeInv, NEW M \in SUBSET Addr, NEW R, Forwarded(M, R), Leads(M)
  PROVE  /\ Settle(M) \in SUBSET Addr
         /\ \A c \in Settle(M) : Good(c) /\ (c \in M => ~WasRelocated(c))
         /\ \A f \in DOMAIN state_stack, i \in RootIdx :
              state_stack[f][i] \in Leading(M)
         /\ \A c \in Settle(M) : \A i \in DOMAIN mem[c].slots :
              mem[c].slots[i] \in Leading(M)
         /\ \A q \in Leading(M) : q \in Ptr /\ Follow(q) \in Held(Settle(M))
  <1>1. ASSUME NEW a \in M
        PROVE  /\ CurrentHolder(a) \in Addr /\ Good(CurrentHolder(a))
               /\ DOMAIN mem[CurrentHolder(a)].slots = DOMAIN mem[a].slots
               /\ a \in Moved(M) => CurrentHolder(a) = Copy(a)
               /\ a \notin Moved(M) => CurrentHolder(a) = a
    BY CurrentFacts
  <1>2. \A s \in Places(M) : Now(s) \in Leading(M)
    BY DEF Leads, Leading
  <1>3. nullptr \notin Addr
    BY DEF nullptr, Addr, START_PTR
  <1>4. ASSUME NEW f \in DOMAIN state_stack, NEW i \in RootIdx
        PROVE  state_stack[f][i] \in Leading(M)
    <2>1. RootSlot(f, i) \in Places(M)
      BY RootPlace
    <2>2. Now(RootSlot(f, i)) = state_stack[f][i]
      BY NowFacts
    <2>3. QED
      BY <1>2, <2>1, <2>2
  <1>5. ASSUME NEW c \in Settle(M), NEW i \in DOMAIN mem[c].slots
        PROVE  mem[c].slots[i] \in Leading(M)
    <2>1. PICK a \in M : c = CurrentHolder(a)
      BY DEF Settle
    <2>2. i \in DOMAIN mem[a].slots
      BY <1>1, <2>1
    <2>3. HeapSlot(a, i) \in Places(M)
      BY <2>2, HeapPlace
    <2>4. Now(HeapSlot(a, i)) = mem[c].slots[i]
      BY <2>1, <2>2, NowFacts
    <2>5. QED
      BY <1>2, <2>3, <2>4
  <1>6. ASSUME NEW q \in Leading(M)
        PROVE  q \in Ptr /\ Follow(q) \in Held(Settle(M))
    <2>1. CASE q = nullptr
      BY <2>1 DEF Follow, Held, Ptr
    <2>2. CASE q \in M
      <3>1. q \in Addr /\ q # nullptr
        BY <1>3, <2>2
      <3>2. Follow(q) = CurrentHolder(q)
        BY <3>1 DEF Follow, CurrentHolder, WasRelocated
      <3>3. QED
        BY <2>2, <3>1, <3>2 DEF Settle, Held, Ptr
    <2>3. CASE \E b \in Moved(M) : q = Copy(b)
      <3>1. PICK b \in Moved(M) : q = Copy(b)
        BY <2>3
      <3>2. b \in M /\ q = CurrentHolder(b)
        BY <1>1, <3>1 DEF Moved
      <3>3. q \in Addr /\ Good(q)
        BY <1>1, <3>2
      <3>4. Follow(q) = q
        BY <3>3 DEF Follow, Good, WasRelocated
      <3>5. QED
        BY <3>2, <3>3, <3>4 DEF Settle, Held, Ptr
    <2>4. QED
      BY <2>1, <2>2, <2>3 DEF Leading, Held
  <1>7. ASSUME NEW c \in Settle(M)
        PROVE  c \in Addr /\ Good(c) /\ ~WasRelocated(c)
    BY <1>1 DEF Settle, Good
  <1>8. QED
    BY <1>4, <1>5, <1>6, <1>7

\* Moving an object renames it.
LEMMA MoveView ==
  ASSUME TypeInv, RegionsTiled, NEW M \in SUBSET Addr, UpMove(M), MoveObject
  PROVE  View!Next
  <1>o. PICK obj : obj = Last(Top.target_objects)
    OBVIOUS
  <1>p. PICK p : p = CursorPtr(ToSpace)
    OBVIOUS
  <1>s. PICK S : S = Settle(M)
    OBVIOUS
  <1> DEFINE phi == [c \in S |-> IF c = obj THEN p ELSE c]
  <1>1. /\ obj \in M /\ ~WasRelocated(obj) /\ MoveWritten(obj, p)
        /\ \A a \in Addr : Allocated(a) => a # p
        /\ p \in Addr /\ UNCHANGED <<state_stack, status>>
    BY <1>o, <1>p, MoveChecked
  <1>2. Forwarded(M, Depth) /\ Leads(M) /\ nullptr \notin Addr
    BY DEF UpMove, nullptr, Addr, START_PTR
  <1>3. /\ S \in SUBSET Addr
        /\ \A c \in S : Good(c) /\ (c \in M => ~WasRelocated(c))
        /\ \A f \in DOMAIN state_stack, i \in RootIdx :
             state_stack[f][i] \in Leading(M)
        /\ \A c \in S : \A i \in DOMAIN mem[c].slots :
             mem[c].slots[i] \in Leading(M)
        /\ \A q \in Leading(M) : q \in Ptr /\ Follow(q) \in Held(S)
    BY <1>s, <1>2, LeadingFacts
  <1>4. obj \in S /\ obj \notin Moved(M)
        /\ \A b \in M : CurrentHolder(b) = obj => b = obj
    <2>1. obj \notin Moved(M)
      BY <1>1 DEF Moved
    <2>2. CurrentHolder(obj) = obj
          /\ \A b \in M : CurrentHolder(b) = CurrentHolder(obj) => b = obj
      BY <1>1, <1>2, <2>1, CurrentFacts
    <2>3. QED
      BY <1>1, <1>s, <2>1, <2>2 DEF Settle
  <1>5. /\ mem'[p] = mem[obj] /\ mem'[obj].relocated_ptr = p
        /\ \A a \in Addr : a # obj /\ (Allocated(a) \/ RegionContains(Depth, a)) =>
             mem'[a] = mem[a]
    BY <1>1 DEF MoveWritten
  <1>6. ASSUME NEW c \in S
        PROVE  /\ phi[c] = IF c = obj THEN p ELSE c
               /\ phi[c] \in Addr /\ c \in Addr
               /\ mem'[phi[c]].kind = mem[c].kind
               /\ mem'[phi[c]].slots = mem[c].slots
    <2>1. phi[c] = IF c = obj THEN p ELSE c
      OBVIOUS
    <2>2. c \in Addr /\ Allocated(c)
      BY <1>3 DEF Good
    <2> HIDE DEF phi
    <2>3. mem'[phi[c]] = mem[c]
      BY <1>5, <2>1, <2>2
    <2>4. QED
      BY <1>1, <2>1, <2>2, <2>3
  <1>7. ASSUME NEW a \in S, NEW b \in S, phi[a] = phi[b]
        PROVE  a = b
    <2>1. a # p /\ b # p
      BY <1>1, <1>3 DEF Good
    <2>2. QED
      BY <1>6, <1>7, <2>1
  <1>8. ASSUME NEW q \in Leading(M)
        PROVE  Follow(q)' = Shown(phi, Follow(q)) /\ Follow(q) \in Held(S)
    <2>1. Follow(q) \in Held(S) /\ q \in Ptr
      BY <1>3
    <2>2. CASE q = nullptr
      BY <2>1, <2>2 DEF Follow, Shown
    <2>3. CASE q = obj
      <3>1. Follow(q) = obj /\ q # nullptr
        BY <1>1, <1>2, <2>3 DEF Follow, WasRelocated
      <3>2. Follow(q)' = p
        BY <1>1, <1>2, <1>5, <2>3, <3>1 DEF Follow
      <3>3. phi[obj] = p
        BY <1>4, <1>6
      <3>4. obj # nullptr
        BY <2>3, <3>1
      <3> HIDE DEF phi
      <3>5. QED
        BY <2>1, <3>1, <3>2, <3>3, <3>4 DEF Shown
    <2>4. CASE q # nullptr /\ q # obj
      <3>1. Follow(q) # obj /\ mem'[q] = mem[q] /\ Follow(q) # nullptr
        <4>1. CASE q \in M
          <5>1. Follow(q) = CurrentHolder(q)
            BY <2>4 DEF Follow, CurrentHolder, WasRelocated
          <5>2. Follow(q) # obj
            BY <1>4, <2>4, <4>1, <5>1
          <5>3. CurrentHolder(q) \in Addr
            BY <1>2, <4>1, CurrentFacts
          <5>4. Allocated(q) \/ RegionContains(Depth, q)
            BY <1>2, <4>1 DEF Forwarded, Moved, Good
          <5>5. QED
            BY <1>2, <1>5, <2>4, <4>1, <5>1, <5>2, <5>3, <5>4
        <4>2. CASE q \in {Copy(b) : b \in Moved(M)}
          <5>1. q \in Addr /\ Good(q) /\ q \notin M
            BY <1>2, <2>1, <2>4, <4>2 DEF Forwarded, Ptr
          <5>2. Follow(q) = q
            BY <5>1 DEF Follow, Good, WasRelocated
          <5>3. QED
            BY <1>1, <1>5, <2>4, <5>1, <5>2 DEF Good
        <4>3. QED
          BY <2>4, <4>1, <4>2 DEF Leading, Held
      <3>2. Follow(q)' = Follow(q)
        BY <3>1 DEF Follow
      <3>3. Follow(q) \in S
        BY <2>1, <3>1 DEF Held
      <3>4. phi[Follow(q)] = Follow(q)
        BY <1>6, <3>1, <3>3
      <3> HIDE DEF phi
      <3>5. QED
        BY <2>1, <3>1, <3>2, <3>4 DEF Shown
    <2>5. QED
      BY <2>2, <2>3, <2>4
  <1>9. /\ \A c \in S : c # nullptr /\ phi[c] # nullptr
        /\ \A a, b \in S : phi[a] = phi[b] => a = b
    <2> HIDE DEF phi
    <2>1. QED
      BY <1>2, <1>6, <1>7
  <1> HIDE DEF phi
  <1>10. DOMAIN SeenFrames' = DOMAIN SeenFrames
         /\ DOMAIN SeenFrames = DOMAIN state_stack
    BY <1>1 DEF SeenFrames
  <1>11. ASSUME NEW f \in DOMAIN SeenFrames, NEW i \in RootIdx
         PROVE  /\ SeenFrames[f][i] \in Held(S)
                /\ SeenFrames'[f][i] = Shown(phi, SeenFrames[f][i])
    <2>1. PICK q : q = state_stack[f][i]
      OBVIOUS
    <2>2. state_stack[f] \in [RootIdx -> Ptr]
      BY <1>10 DEF TypeInv, FramesOK, Frame
    <2>3. SeenFrames[f][i] = Follow(q)
      BY <1>10, <2>1, <2>2 DEF SeenFrames, Seen
    <2>4. SeenFrames'[f][i] = Follow(q)'
      BY <1>1, <1>10, <2>1, <2>2 DEF SeenFrames, Seen
    <2>5. q \in Leading(M)
      BY <1>3, <1>10, <2>1
    <2>6. QED
      BY <1>8, <2>3, <2>4, <2>5
  <1>12. ASSUME NEW c \in S
         PROVE  /\ SeenHeap'[phi[c]].kind = SeenHeap[c].kind
                /\ DOMAIN SeenHeap'[phi[c]].slots = DOMAIN SeenHeap[c].slots
                /\ \A i \in DOMAIN SeenHeap[c].slots :
                     /\ SeenHeap[c].slots[i] \in Held(S)
                     /\ SeenHeap'[phi[c]].slots[i]
                          = Shown(phi, SeenHeap[c].slots[i])
    <2>1. PICK d : d = phi[c]
      OBVIOUS
    <2>2. /\ c \in Addr /\ d \in Addr /\ mem'[d].kind = mem[c].kind
          /\ mem'[d].slots = mem[c].slots
      BY <1>6, <2>1
    <2>3. /\ SeenHeap[c].kind = mem[c].kind
          /\ SeenHeap[c].slots = Seen(mem[c].slots)
      BY <2>2 DEF SeenHeap
    <2>4. /\ SeenHeap'[d].kind = mem'[d].kind
          /\ SeenHeap'[d].slots = Seen(mem[d].slots)'
      BY <2>2 DEF SeenHeap
    <2>5. /\ DOMAIN SeenHeap[c].slots = DOMAIN mem[c].slots
          /\ DOMAIN SeenHeap'[d].slots = DOMAIN mem[c].slots
      BY <2>2, <2>3, <2>4 DEF Seen
    <2>6. ASSUME NEW i \in DOMAIN mem[c].slots
          PROVE  /\ SeenHeap[c].slots[i] \in Held(S)
                 /\ SeenHeap'[d].slots[i] = Shown(phi, SeenHeap[c].slots[i])
      <3>1. PICK q : q = mem[c].slots[i]
        OBVIOUS
      <3>2. SeenHeap[c].slots[i] = Follow(q)
        BY <2>3, <3>1 DEF Seen
      <3>3. SeenHeap'[d].slots[i] = Follow(q)'
        BY <2>2, <2>4, <3>1 DEF Seen
      <3>4. q \in Leading(M)
        BY <1>3, <3>1
      <3>5. QED
        BY <1>8, <3>2, <3>3, <3>4
    <2>7. QED
      BY <2>1, <2>2, <2>3, <2>4, <2>5, <2>6
  <1>13. Renames(phi, S, SeenFrames, SeenHeap, SeenFrames', SeenHeap')
    BY <1>9, <1>10, <1>11, <1>12 DEF Renames
  <1>14. View!SameGraph(SeenFrames, SeenHeap, SeenFrames', SeenHeap')
    BY <1>13, RenamedSame
  <1>15. View!Rearrange
    BY <1>1, <1>14 DEF View!Rearrange, View!Becomes
  <1>16. status = "run"
    BY DEF MoveObject, Moving
  <1>17. QED
    BY <1>15, <1>16 DEF View!Next

\* Pointers that lead to the same places look the same.
LEMMA LeadsSame ==
  ASSUME TypeInv, TypeInv', status' = status,
         \A q \in Ptr : Follow(q)' = Follow(q),
         DOMAIN state_stack' = DOMAIN state_stack,
         \A f \in DOMAIN state_stack, i \in RootIdx :
            Follow(state_stack'[f][i]) = Follow(state_stack[f][i]),
         \A a \in Addr :
            /\ mem'[a].kind = mem[a].kind
            /\ DOMAIN mem'[a].slots = DOMAIN mem[a].slots
            /\ \A i \in DOMAIN mem[a].slots :
                 Follow(mem'[a].slots[i]) = Follow(mem[a].slots[i])
  PROVE  UNCHANGED View!vars
  <1>1. ASSUME NEW f \in DOMAIN state_stack
        PROVE  Seen(state_stack[f])' = Seen(state_stack[f])
    <2>1. /\ state_stack[f] \in [RootIdx -> Ptr]
          /\ state_stack'[f] \in [RootIdx -> Ptr]
      BY DEF TypeInv, FramesOK, Frame
    <2>2. PICK g : g = state_stack'[f]
      OBVIOUS
    <2>3. \A i \in RootIdx : Follow(g[i])' = Follow(state_stack[f][i])
      BY <2>1, <2>2
    <2>4. Seen(state_stack[f])' = [i \in DOMAIN g |-> Follow(g[i])']
      BY <2>2 DEF Seen
    <2>5. DOMAIN g = RootIdx /\ DOMAIN state_stack[f] = RootIdx
      BY <2>1, <2>2
    <2>6. QED
      BY <2>3, <2>4, <2>5 DEF Seen
  <1>2. ASSUME NEW a \in Addr
        PROVE  Seen(mem[a].slots)' = Seen(mem[a].slots)
    <2>1. PICK g : g = mem'[a].slots
      OBVIOUS
    <2>2. g \in Seq(Ptr) /\ DOMAIN g = DOMAIN mem[a].slots
      BY <2>1, CellType DEF TypeInv
    <2>3. \A i \in DOMAIN g : g[i] \in Ptr
      BY <2>2
    <2>4. \A i \in DOMAIN g : Follow(g[i])' = Follow(mem[a].slots[i])
      BY <2>1, <2>2, <2>3
    <2>5. Seen(mem[a].slots)' = [i \in DOMAIN g |-> Follow(g[i])']
      BY <2>1 DEF Seen
    <2>6. QED
      BY <2>2, <2>4, <2>5 DEF Seen
  <1>3. SeenFrames' = SeenFrames
    BY <1>1 DEF SeenFrames
  <1>4. SeenHeap' = SeenHeap
    BY <1>2 DEF SeenHeap
  <1>5. QED
    BY <1>3, <1>4 DEF View!vars

\* Rebinding a place shows nothing: it leads where it led.
LEMMA RebindView ==
  ASSUME TypeInv, TypeInv', NEW M \in SUBSET Addr, UpMove(M), RebindLink
  PROVE  UNCHANGED View!vars
  <1>s. PICK s : s = Last(Top.references_to_targets)
    OBVIOUS
  <1>t. PICK t : t = Load(s)
    OBVIOUS
  <1>p. PICK p : p = Copy(t)
    OBVIOUS
  <1>h. PICK h : h = CurrentHolder(s.holder)
    OBVIOUS
  <1>1. /\ s \in Places(M) /\ t \in Moved(M) /\ p \in Ptr /\ Now(s) = t
        /\ status' = status
    BY <1>s, <1>t, <1>p, RebindChecked
  <1>2. /\ t \in Addr /\ Good(p) /\ p = mem[t].relocated_ptr /\ p # nullptr
        /\ nullptr \notin Addr
    BY <1>1, <1>p DEF UpMove, Forwarded, Moved, WasRelocated, Copy, nullptr,
                      Addr, START_PTR
  <1>3. Follow(t) = p /\ Follow(p) = p
    BY <1>2 DEF Follow, Good, WasRelocated
  <1>4. IF IsRoot(s)
        THEN /\ state_stack' = [state_stack EXCEPT ![s.frame][s.idx] = p]
             /\ mem' = mem
        ELSE /\ mem' = [mem EXCEPT ![h].slots[s.idx] = p]
             /\ state_stack' = state_stack
    <2>1. status = "run" /\ status' # "ASSERT"
      BY <1>1 DEF RebindLink, Moving
    <2>2. QED
      BY <1>s, <1>t, <1>h, <1>2, <2>1 DEF RebindLink, Halt
  <1>5. CASE IsRoot(s)
    <2>1. /\ s.frame \in DOMAIN state_stack /\ s.idx \in RootIdx
          /\ state_stack[s.frame][s.idx] = t
      BY <1>1, <1>t, <1>5, PlaceCases
    <2>2. /\ state_stack' = [state_stack EXCEPT ![s.frame][s.idx] = p]
          /\ mem' = mem
      BY <1>4, <1>5
    <2>3. \A q \in Ptr : Follow(q)' = Follow(q)
      BY <2>2 DEF Follow
    <2>4. ASSUME NEW f \in DOMAIN state_stack, NEW i \in RootIdx
          PROVE  Follow(state_stack'[f][i]) = Follow(state_stack[f][i])
      <3>1. state_stack[f] \in [RootIdx -> Ptr]
        BY DEF TypeInv, FramesOK, Frame
      <3>2. state_stack'[f][i] = IF f = s.frame /\ i = s.idx THEN p
                                                     ELSE state_stack[f][i]
        BY <2>2, <3>1
      <3>3. QED
        BY <1>3, <2>1, <3>2
    <2>5. DOMAIN state_stack' = DOMAIN state_stack
      BY <2>2
    <2>6. QED
      BY <1>1, <2>2, <2>3, <2>4, <2>5, LeadsSame
  <1>6. CASE ~IsRoot(s)
    <2>1. mem[h].slots[s.idx] = t
      BY <1>1, <1>h, <1>6 DEF Now
    <2>2. mem' = [mem EXCEPT ![h].slots[s.idx] = p] /\ state_stack' = state_stack
      BY <1>4, <1>6
    <2>3. SlotWritten(mem, mem', h, s.idx, p)
      BY <2>2, SlotWriteFacts DEF TypeInv
    <2>4. \A q \in Ptr : Follow(q)' = Follow(q)
      BY <2>3 DEF SlotWritten, Follow, Ptr
    <2>5. ASSUME NEW a \in Addr
          PROVE  /\ mem'[a].kind = mem[a].kind
                 /\ DOMAIN mem'[a].slots = DOMAIN mem[a].slots
                 /\ \A i \in DOMAIN mem[a].slots :
                      Follow(mem'[a].slots[i]) = Follow(mem[a].slots[i])
      <3>1. /\ mem'[a].kind = mem[a].kind
            /\ DOMAIN mem'[a].slots = DOMAIN mem[a].slots
            /\ \A i \in DOMAIN mem[a].slots :
                 mem'[a].slots[i] = IF a = h /\ i = s.idx THEN p
                                                          ELSE mem[a].slots[i]
        BY <2>3 DEF SlotWritten
      <3>2. QED
        BY <1>3, <2>1, <3>1
    <2>6. QED
      BY <1>1, <2>2, <2>4, <2>5, LeadsSame
  <1>7. QED
    BY <1>5, <1>6

\* The reset of the last region shows nothing.
LEMMA FinalizeView ==
  ASSUME TypeInv, TypeInv', NEW M \in SUBSET Addr, UpMove(M), FinalizeStage
  PROVE  View!Next \/ UNCHANGED View!vars
  <1>1. status = "run" /\ UNCHANGED <<state_stack, status>>
    BY DEF FinalizeStage, Moving
  <1>2. CASE Depth > 1
    BY <1>1, <1>2, QuietView DEF FinalizeStage
  <1>3. CASE ~(Depth > 1)
    <2>1. PICK S \in SUBSET Addr : /\ SafeSet(S) /\ SafeSet(S)'
                                   /\ \A a \in S : mem'[a] = mem[a]
      BY <1>3, LastReset
    <2>2. Agrees(mem, S)
      BY <2>1 DEF Agrees
    <2>3. View!Next
      BY <1>1, <2>1, <2>2, BesideView
    <2>4. QED
      BY <2>3
  <1>4. QED
    BY <1>2, <1>3

\* Through a collection the program sees the graph it saw.
LEMMA GCView ==
  ASSUME HeapInv, TypeInv', GCStep
  PROVE  View!Next \/ UNCHANGED View!vars
  <1>1. TypeInv /\ RegionsTiled /\ CollectorInv
    BY DEF HeapInv, MarkInv
  <1>2. CASE MarkFrame
    BY <1>2, QuietView DEF MarkFrame
  <1>3. CASE MarkAndFetchRecursively
    <2>1. status = "run"
      BY <1>3 DEF MarkAndFetchRecursively, Marking
    <2>2. Halt("ASSERT") \/ UNCHANGED <<mem, state_stack, status>>
      BY <1>3 DEF MarkAndFetchRecursively
    <2>3. QED
      BY <2>1, <2>2, HaltView, QuietView
  <1>4. CASE StartMoving
    BY <1>4, QuietView DEF StartMoving
  <1>5. CASE CleanupNextRegion
    <2>1. status = "run" /\ \E st : CleanupThis(st)
      BY <1>5 DEF CleanupNextRegion, Marked, Marking
    <2>2. QED
      BY <2>1, CleanupView
  <1>6. CASE TenuredIsFull
    BY <1>6, HaltView DEF TenuredIsFull, Marked, Marking
  <1>7. CASE FixInvalidDanglingReferences
    <2>1. status = "run"
          /\ (Halt("ASSERT") \/ UNCHANGED <<mem, state_stack, status>>)
      BY <1>7 DEF FixInvalidDanglingReferences
    <2>2. QED
      BY <2>1, HaltView, QuietView
  <1>8. CASE MoveObject \/ RebindLink \/ FinalizeStage
    <2>1. status = "run" /\ InGC /\ Top.phase = "move"
      BY <1>8 DEF MoveObject, RebindLink, FinalizeStage, Moving
    <2>2. PICK M \in SUBSET Addr : UpMove(M)
      BY <1>1, <2>1 DEF CollectorInv
    <2>3. QED
      BY <1>1, <1>8, <2>2, MoveView, RebindView, FinalizeView
  <1>9. QED
    BY <1>2, <1>3, <1>4, <1>5, <1>6, <1>7, <1>8 DEF GCStep

----------------------------------------------------------------------------
(* The refinement *)

\* The heap is in order, and an allocation under way is one the program may
\* ask for and has shown nothing of.
RefInv == HeapInv /\ Callees /\ Asked /\ Building

LEMMA InitView ==
  ASSUME Init
  PROVE  RefInv /\ View!Init
  <1>1. HeapInv /\ TypeInv /\ HeapSafe
    BY InitHeap, InitSafe DEF HeapInv, MarkInv
  <1>2. /\ state_stack = <<NewFrame(MainPtr)>> /\ status = "run" /\ ~InGC
        /\ request = NoRequest
        /\ mem = [a \in Addr |-> IF a = MainPtr THEN Main ELSE NoObj]
    BY DEF Init, InGC, Depth
  <1>3. PICK S \in SUBSET Addr : SafeSet(S)
    BY <1>1, <1>2 DEF HeapSafe
  <1>4. Plain(S) /\ Closed(S)
    BY <1>1, <1>3, PlainView DEF SafeIsPlain, SafeSet
  <1>5. SeenFrames = <<[i \in RootIdx |-> IF i = CALLEE THEN MainPtr
                                                        ELSE nullptr]>>
    BY <1>2, <1>4 DEF Plain, NewFrame
  <1>6. MainPtr \in S
    <2>1. MainPtr # nullptr
      BY RegionsAssumption
         DEF MainPtr, StartPtr, Young, CURSOR, nullptr, START_PTR
    <2>2. state_stack[1][CALLEE] = MainPtr /\ 1 \in DOMAIN state_stack
          /\ CALLEE \in RootIdx
      BY <1>2, SameIndices DEF NewFrame
    <2>3. QED
      BY <1>4, <2>1, <2>2 DEF Closed, Held
  <1>7. /\ mem[MainPtr].kind = "FUNC"
        /\ mem[MainPtr].slots = [i \in 1 .. FUNC_SLOTS |-> nullptr]
    BY <1>2, <1>6 DEF Main, Fresh
  <1>8. SeenHeap[MainPtr] = [kind |-> "FUNC", slots |-> View!Empty(FUNC_SLOTS)]
    <2>1. SeenHeap[MainPtr] = [kind |-> mem[MainPtr].kind,
                               slots |-> Seen(mem[MainPtr].slots)]
      BY <1>6 DEF SeenHeap
    <2>2. Seen(mem[MainPtr].slots) = mem[MainPtr].slots
      <3>1. SeenHeap[MainPtr].slots = mem[MainPtr].slots
        BY <1>4, <1>6 DEF Plain
      <3>2. QED
        BY <2>1, <3>1
    <2>3. View!Empty(FUNC_SLOTS) = [i \in 1 .. FUNC_SLOTS |-> nullptr]
      BY SameIndices DEF View!Empty
    <2>4. Seen(mem[MainPtr].slots) = View!Empty(FUNC_SLOTS)
      BY <1>7, <2>2, <2>3, Zenon
    <2>5. QED
      BY <1>7, <2>1, <2>4, Zenon
  <1>9. View!Init
    BY <1>2, <1>5, <1>6, <1>8, SameIndices DEF View!Init
  <1>10. Callees
    <2>1. SeenHeap[MainPtr].kind = "FUNC"
      BY <1>8
    <2>2. QED
      BY <1>5, <1>6, <2>1, SameIndices DEF Callees, CalleesOK
  <1>11. Asked /\ Building
    BY <1>2 DEF Asked, Building
  <1>12. QED
    BY <1>1, <1>9, <1>10, <1>11 DEF RefInv

\* An object under construction is not touched when nothing happens.
LEMMA StutterBuilding ==
  ASSUME Building, UNCHANGED vars
  PROVE  Building'
  <1>1. UNCHANGED <<mem, cursor, state_stack, status, request>>
    BY DEF vars
  <1>2. \A a : Good(a)' <=> Good(a)
    BY <1>1 DEF Good, Allocated, CursorPtr, WasRelocated
  <1>3. \A S : SafeSet(S)' <=> SafeSet(S)
    BY <1>1, <1>2 DEF SafeSet, Closed
  <1>4. \A m, S : Made(m, S)' <=> Made(m, S)
    BY <1>1, <1>2 DEF Made
  <1>5. \A m, S : PartlyBuilt(m, S)' <=> PartlyBuilt(m, S)
    BY <1>1, <1>2 DEF PartlyBuilt
  <1>6. QED
    BY <1>1, <1>3, <1>4, <1>5 DEF Building

LEMMA NextRef ==
  ASSUME RefInv, [Next]_vars
  PROVE  RefInv' /\ [View!Next]_View!vars
  <1>1. HeapInv' /\ TypeInv' /\ TypeInv /\ RequestInv /\ HeapSafe
        /\ Callees /\ Asked /\ Building
    <2>1. HeapInv'
      BY NextHeap DEF RefInv
    <2>2. CollectorInv => (status = "run" => HeapSafe)
      BY DEF CollectorInv
    <2>3. QED
      BY <2>1, <2>2 DEF RefInv, HeapInv, MarkInv, HeapSafe
  <1>2. /\ View!Next \/ UNCHANGED View!vars
        /\ Asked' /\ Building'
    <2>1. CASE Instruction
      <3>1. View!Next \/ UNCHANGED View!vars
        BY <1>1, <2>1, InstructionView
      <3>2. QED
        BY <2>1, <3>1, InstructionAsks, NotBuilding
    <2>2. CASE AllocStep
      BY <1>1, <2>2, AllocView
    <2>3. CASE GC
      <3>1. View!Next \/ UNCHANGED View!vars
        BY <1>1, <2>3, GCView DEF GC, RefInv
      <3>2. request' = request /\ InGC /\ status = "run"
        BY <2>3 DEF GC, GCStep, MarkFrame, MarkAndFetchRecursively, StartMoving,
                    CleanupNextRegion, TenuredIsFull, MoveObject, RebindLink,
                    FixInvalidDanglingReferences, FinalizeStage, Marked,
                    Marking, Moving
      <3>3. request # NoRequest /\ request.step # "methods"
        BY <1>1, <3>2, InCollection DEF Sequent, RequestShape
      <3>4. Asked'
        BY <1>1, <3>2 DEF Asked
      <3>5. QED
        BY <3>1, <3>2, <3>3, <3>4, NotBuilding
    <2>4. CASE Ended \/ UNCHANGED vars
      <3>1. UNCHANGED vars
        BY <2>4 DEF Ended
      <3>2. UNCHANGED <<mem, state_stack, status, request>>
        BY <3>1 DEF vars
      <3>3. UNCHANGED View!vars
        BY <3>2, QuietView
      <3>4. Asked'
        BY <1>1, <3>2 DEF Asked
      <3>5. QED
        BY <1>1, <3>1, <3>3, <3>4, StutterBuilding
    <2>5. QED
      BY <2>1, <2>2, <2>3, <2>4 DEF Next
  <1>3. Callees'
    <2>1. SeenOK /\ SeenOK'
      BY <1>1, SeenType, NextView
    <2>2. CASE View!Next
      BY <1>1, <2>1, <2>2, GraphCallees
    <2>3. CASE UNCHANGED View!vars
      BY <1>1, <2>3 DEF View!vars, Callees
    <2>4. QED
      BY <1>2, <2>2, <2>3
  <1>4. QED
    BY <1>1, <1>2, <1>3 DEF RefInv

\* The program cannot tell that there is a collector: every behaviour of the
\* machine, for every number and size of regions, every program and every
\* depth of nested cleanups, is a behaviour of the object graph, in which
\* objects have no addresses and nothing moves (interpreter.cpp and the
\* object types of interpreter/types over allocator/gc.h).
THEOREM MachineImplementsGraph == Spec => CollectorInvisible
  <1>1. Init => RefInv /\ View!Init
    BY InitView
  <1>2. RefInv /\ [Next]_vars => RefInv' /\ [View!Next]_View!vars
    BY NextRef
  <1>3. QED
    BY <1>1, <1>2, PTL DEF Spec, CollectorInvisible, View!Spec
=============================================================================
