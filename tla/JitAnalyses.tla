---------------------------- MODULE JitAnalyses ----------------------------
(***************************************************************************)
(* The analyses of the compiler's graph in the order in which they build   *)
(* on each other: BuildRPO, BuildDomTree, AnalyzeLoops, BuildLinearOrder,  *)
(* BuildLiveness, AllocateRegisters (jit/ir/graph/graph.cpp).              *)
(***************************************************************************)
EXTENDS RegAlloc

VARIABLES rpo,              \* rpo_, empty before BuildRPO
          idoms,            \* idoms_, empty before BuildDomTree
          la,               \* what AnalyzeLoops left, empty before
          linear_order,     \* linear_order_, empty before BuildLinearOrder
          intervals,        \* insts_live_intervals_, empty before BuildLiveness
          locations,        \* what AllocateRegisters left, empty before
          failed            \* OK, or why the process ended

results == <<rpo, idoms, la, linear_order, intervals, locations>>
vars == <<succs, preds, ir, results, failed>>

Working == failed = OK /\ Wired
Fail(why) == failed' = why /\ UNCHANGED results

\* A function of the builder: EDGES(...) of graph_ctor.h.
Build == /\ failed = OK
         /\ SetSucc \/ SetTrueFalseSuccs
         /\ UNCHANGED <<ir, results, failed>>

BuildRPO ==
  /\ Working /\ rpo = <<>>
  /\ IF Len(RPO) # Cardinality(Blocks)
     THEN Fail("unreachable")
     ELSE rpo' = RPO /\ UNCHANGED <<idoms, la, linear_order, intervals, locations, failed>>
  /\ UNCHANGED <<succs, preds, ir>>

BuildDomTree ==
  /\ Working /\ rpo # <<>> /\ idoms = <<>>
  /\ IF ~DomTreeAsserts THEN Fail("FindSemiDom")
     ELSE IF ~DomTreeCheck(IDoms) THEN Fail("DomTreeCheck")
     ELSE idoms' = IDoms /\ UNCHANGED <<rpo, la, linear_order, intervals, locations, failed>>
  /\ UNCHANGED <<succs, preds, ir>>

\* No constructor of BasicBlock sets loop_, which the analysis reads to see
\* whether a block has a loop yet: fresh memory may hold something else.
AnalyzeLoops ==
  /\ Working /\ idoms # <<>> /\ la = <<>>
  /\ LET result == Loops(rpo, idoms)
     IN  \/ Fail("UNDEFINED")
         \/ result.failed # OK /\ Fail(result.failed)
         \/ /\ result.failed = OK
            /\ la' = result
            /\ UNCHANGED <<rpo, idoms, linear_order, intervals, locations, failed>>
  /\ UNCHANGED <<succs, preds, ir>>

----------------------------------------------------------------------------
(* The builder's instructions.  The analyses up to here do not look at     *)
(* them, so they are put in where they are needed first, and the blocks    *)
(* are filled in reverse post-order.                                       *)

Filling == Working /\ la # <<>> /\ linear_order = <<>> /\ ir.failed = OK

PhisComplete == \A i \in DOMAIN ir.inst : NIL \notin ToSet(ir.inst[i].inputs)
NoPhiInputYet == \A i \in DOMAIN ir.inst :
                   IsPhi(ir, i) => ToSet(ir.inst[i].inputs) \subseteq {NIL}
Empty(b) == ir.phis[b] = <<>> /\ ir.insts[b] = <<>>

\* A block is closed by its jump or its return; a return leads to the end.
Terminator(b) == ir.insts[b] # <<>> /\ ~HasDst(ir, Last(ir.insts[b]))
Open == {b \in Blocks : succs[b] = <<END_BLOCK_IDX>> /\ ~Terminator(b)}
Fillable ==
  LET open == Open
  IN  {b \in ToSet(rpo) \ {END_BLOCK_IDX} :
         \A c \in ToSet(rpo) : IF Position(rpo, c) > Position(rpo, b)
                               THEN Empty(c) ELSE c = b \/ c \notin open}
AllowedIn(b) ==
  {op \in OPCODES \ {"PHI"} :
     /\ op = "PARAMETER" => b = ENTRY_BLOCK_IDX
     /\ op = "JMP" => Len(succs[b]) = 2
     /\ op \in {"RETURN", "RETURNVOID"} => succs[b] = <<END_BLOCK_IDX>>}
Returned == OPCODES = {} \/ Open = {}

\* The bound leaves room for the returns that are missing.
Room(b, closes) == LET missing == IF closes THEN Open \ {b} ELSE Open
                   IN  Len(ir.inst) + Cardinality(missing) < MAX_INSTS

\* The values that may be used at the end of block b: their definition
\* dominates it.
Available(b) ==
  {i \in Inserted(ir) : /\ HasDst(ir, i)
                        /\ ir.inst[i].bb = b \/ IsDominator(idoms, ir.inst[i].bb, b)}

TypesOf(op) ==
  CASE op \in {"CONST", "PARAMETER", "CAST", "RETURN", "GETELEM"} -> {"INT64"}
    [] op = "ASHR" -> {"UNKNOWN", "INT64"}
    [] OTHER -> {"UNKNOWN"}
ImmsOf(op) == IF op = "CONST" THEN IMMS ELSE {0}
InputsCounts(op) == IF op = "CALL" THEN CALL_ARGS ELSE {INPUTS_COUNT[op]}

PutInst ==
  /\ Filling /\ NoPhiInputYet
  /\ \E b \in {c \in Fillable : ~Terminator(c)} : \E op \in AllowedIn(b) :
       /\ Room(b, op \in {"RETURN", "RETURNVOID"})
       /\ \E type \in TypesOf(op), imm \in ImmsOf(op), count \in InputsCounts(op) :
            \E inputs \in [1 .. count -> Available(b)] :
              ir' = AppendInst(ir, b, op, type, imm, inputs)
  /\ UNCHANGED <<succs, preds, results, failed>>

PutPhi ==
  /\ Filling /\ NoPhiInputYet /\ "PHI" \in OPCODES
  /\ \E b \in Fillable :
       /\ Len(preds[b]) > 1 /\ ir.insts[b] = <<>> /\ Room(b, FALSE)
       /\ \A p \in ToSet(preds[b]) : IsDominator(idoms, b, p) \/ Available(p) # {}
       /\ ir' = AppendPhi(ir, b)
  /\ UNCHANGED <<succs, preds, results, failed>>

\* b --(value)--> c: the missing inputs of the phis, when all values exist.
SetPhiInput ==
  /\ Filling /\ Returned
  /\ \E phi \in DOMAIN ir.inst : \E k \in DOMAIN ir.inst[phi].inputs :
       /\ ir.inst[phi].inputs[k] = NIL
       /\ \A i \in 1 .. phi - 1 : NIL \notin ToSet(ir.inst[i].inputs)
       /\ \A n \in 1 .. k - 1 : ir.inst[phi].inputs[n] # NIL
       /\ \E v \in Available(preds[ir.inst[phi].bb][k]) :
            ir' = SetInput(ir, phi, k, v)
  /\ UNCHANGED <<succs, preds, results, failed>>

----------------------------------------------------------------------------
(* The analyses that look at instructions *)

BuildLinearOrder ==
  /\ Filling /\ Returned /\ PhisComplete
  /\ LET result == LinearOrderOf(la)
     IN  IF result.failed # OK THEN Fail(result.failed)
         ELSE /\ linear_order' = result.order
              /\ UNCHANGED <<rpo, idoms, la, intervals, locations, failed>>
  /\ UNCHANGED <<succs, preds, ir>>

BuildLiveness ==
  /\ Working /\ linear_order # <<>> /\ intervals = <<>>
  /\ LET result == LivenessAnalysis(la, linear_order)
     IN  IF result.failed # OK THEN Fail(result.failed)
         ELSE /\ intervals' = result
              /\ UNCHANGED <<rpo, idoms, la, linear_order, locations, failed>>
  /\ UNCHANGED <<succs, preds, ir>>

AllocateRegisters ==
  /\ Working /\ intervals # <<>> /\ locations = <<>>
  /\ LET result == RegAllocOf(intervals, linear_order)
     IN  IF result.failed # OK THEN Fail(result.failed)
         ELSE /\ locations' = result
              /\ UNCHANGED <<rpo, idoms, la, linear_order, intervals, failed>>
  /\ UNCHANGED <<succs, preds, ir>>

\* The graph is analysed, or the process is gone.
Done == (failed # OK \/ locations # <<>>) /\ UNCHANGED vars

Init == /\ CfgInit
        /\ ir = NoInstructions
        /\ rpo = <<>> /\ idoms = <<>> /\ la = <<>> /\ linear_order = <<>>
        /\ intervals = <<>> /\ locations = <<>>
        /\ failed = OK

Next == \/ Build \/ BuildRPO \/ BuildDomTree \/ AnalyzeLoops
        \/ PutInst \/ PutPhi \/ SetPhiInput
        \/ BuildLinearOrder \/ BuildLiveness \/ AllocateRegisters \/ Done

Spec == Init /\ [][Next]_vars

----------------------------------------------------------------------------
(* Properties *)

\* x is the newest result: y, which is built next, is not there yet.  No later
\* step changes x, so that looking at it once is enough.
Newest(x, y) == failed = OK /\ x # <<>> /\ y = <<>>

\* In the reverse post-order an edge leads forward unless it lies on a cycle,
\* and a block comes after every block that dominates it: PopulateBlocks
\* relies on this to meet inner loops before outer ones.
RpoIsTopological ==
  Newest(rpo, idoms) =>
    /\ \A e \in Edges : \/ Position(rpo, e[1]) < Position(rpo, e[2])
                        \/ Reaches(e[2], e[1]) \/ e[1] = e[2]
    /\ \A p \in Dominance : Position(rpo, p[1]) < Position(rpo, p[2])

\* The immediate dominator found is the one strict dominator that every
\* other strict dominator dominates, on reducible and irreducible graphs.
IDomsCorrect ==
  Newest(idoms, la) =>
    LET dom == Dominance
    IN  /\ \A b \in Blocks \ {ENTRY_BLOCK_IDX} : <<idoms[b], b>> \in dom
        /\ \A p \in dom : p[1] = idoms[p[2]] \/ <<p[1], idoms[p[2]]>> \in dom

\* Reference: back are the edges to a dominator of their source, and a pair
\* <<h, b>> of LoopsAround says that b is in the natural loop of header h: it
\* is h, or a back edge to h can be reached from it without passing through h.
BackEdges(dom) == {e \in Edges : e[1] = e[2] \/ <<e[2], e[1]>> \in dom}
LoopsAround(back) ==
  UNION {LET tails == {e[1] : e \in {f \in back : f[2] = h}}
         IN  {<<h, b>> : b \in {c \in Blocks :
                c = h \/ tails \cap ReachableAvoiding(c, {h}) # {}}}
         : h \in {e[2] : e \in back}}
Around(around, b) == {p[1] : p \in {q \in around : q[2] = b}}

\* The innermost of the headers hs of loops around one block.
Innermost(dom, hs) ==
  IF hs = {} THEN NULL
  ELSE CHOOSE h \in hs : \A g \in hs \ {h} : <<g, h>> \in dom

\* Without its back edges a reducible graph has no cycle.
ReducibleGraph(back) ==
  LET rest(b) == {s \in ToSet(succs[b]) : <<b, s>> \notin back}
      Within[n \in 0 .. MAX_BLOCKS] ==
        IF n = 0 THEN {}
        ELSE LET bs == Within[n - 1] IN {b \in Blocks : rest(b) \subseteq bs}
  IN  Within[MAX_BLOCKS] = Blocks

\* An analysis that ends calls the graph reducible exactly when it is.
ReducibilityDetected ==
  Newest(la, linear_order) => (la.reducible <=> ReducibleGraph(BackEdges(Dominance)))

\* When the analysis of a reducible graph ends, each block is in its innermost
\* natural loop and each loop inside the one next around its header.
LoopsAreNatural ==
  Newest(la, linear_order) =>
    LET dom    == Dominance
        back   == BackEdges(dom)
        around == LoopsAround(back)
    IN  ReducibleGraph(back) =>
          /\ \A b \in Blocks :
               Header(la, la.loop[b]) = Innermost(dom, Around(around, b))
          /\ \A l \in DOMAIN la.loops :
               LET h == la.loops[l].header
               IN  Header(la, la.loops[l].outer) = Innermost(dom, Around(around, h) \ {h})

\* The linear order of a reducible graph: every edge but a back edge leads
\* forward, as the single backward pass of liveness analysis needs.
PlaceOf == [b \in Blocks |-> CHOOSE i \in DOMAIN linear_order :
                               linear_order[i].block = b]
OrderRespectsEdges ==
  linear_order # <<>> =>
    LET back  == BackEdges(Dominance)
        place == PlaceOf
    IN  ReducibleGraph(back) =>
          \A e \in Edges \ back : place[e[1]] < place[e[2]]

IsReducible == ReducibleGraph(BackEdges(Dominance))

\* The dominator tree is refused exactly for a block that branches to itself
\* (dom_tree.h asserts that a predecessor not numbered below a block is
\* numbered above it), and its check by exclusion never fails.  A reducible
\* graph is refused by the loop analysis exactly when a loop is closed from
\* inside a loop nested in it (loop.h asserts that the source of a back edge
\* has no loop yet, that a header has no loop but its own and that a loop has
\* one outer loop).
LoopFailures == {"AppendBackEdge", "ProcessNewBackEdge", "SetOuter",
                 "SetRootLoop", "recursion"}
AbortsExplained ==
  LET self   == \E b \in Blocks : <<b, b>> \in Edges
      dom    == Dominance
      back   == BackEdges(dom)
      around == LoopsAround(back)
      closedFromInside ==
        \E e \in back : Innermost(dom, Around(around, e[1])) # e[2]
  IN  /\ failed # "DomTreeCheck"
      /\ failed = "FindSemiDom" => self
      /\ Newest(idoms, la) => ~self
      /\ failed \in LoopFailures /\ ReducibleGraph(back) => closedFromInside
      /\ Newest(la, linear_order) /\ ReducibleGraph(back) => ~closedFromInside

----------------------------------------------------------------------------
(* Properties of liveness analysis and register allocation *)

\* Reference: where v is used, an input of a phi at the end of the block it
\* comes from; and the values live into a block, because a path leads from it
\* to a use without meeting the definition.
UseBlocks(v) ==
  {LET bb == ir.inst[u[1]].bb IN IF IsPhi(ir, u[1]) THEN preds[bb][u[2]] ELSE bb
     : u \in ToSet(ir.inst[v].users)}
LiveInto(bb) ==
  {v \in Inserted(ir) :
     LET def == ir.inst[v].bb
     IN  def # bb /\ UseBlocks(v) \cap ReachableAvoiding(bb, {def}) # {}}

\* Reference: the numbers at which a value is needed, as a set of pairs.  A
\* definition writes at its number even when nothing uses it.
Needed ==
  LET lns  == LifeNumbers(linear_order)
      into == [b \in Blocks |-> LiveInto(b)]
      of(n) ==
        LET bb  == linear_order[n].block
            b   == linear_order[n].ln
            e   == linear_order[n + 1].ln
            out == UNION {into[s] \cup PhiInputs(bb, s) : s \in ToSet(succs[bb])}
            def == {v \in Inserted(ir) : ir.inst[v].bb = bb /\ HasDst(ir, v)}
            uses(v) == {lns[u[1]] : u \in {w \in ToSet(ir.inst[v].users) :
                           ir.inst[w[1]].bb = bb /\ ~IsPhi(ir, w[1])}}
            until(v) == IF v \in out THEN e
                        ELSE Max(uses(v) \cup {IF v \in def THEN lns[v] + 2 ELSE b})
        IN  UNION {{<<v, p>> : p \in (IF v \in def THEN lns[v] ELSE b) .. until(v) - 1}
                   : v \in def \cup into[bb]}
  IN  UNION {of(n) : n \in 1 .. Len(linear_order) - 1}

Covered(ranges) == UNION {r[1] .. r[2] - 1 : r \in ToSet(ranges)}

Nested == \E l \in DOMAIN la.loops : la.loops[l].outer # ROOT

\* Liveness analysis: every number at which a value is needed on some path is
\* in the value's intervals, as far as no loop contains another (the range of
\* an outer loop ends where the inner one begins); and in a graph without
\* loops the intervals hold no other number.
IntervalsCover ==
  Newest(intervals, locations) /\ la.reducible /\ ~Nested =>
    LET needed == Needed
        at(v)  == {p[2] : p \in {q \in needed : q[1] = v}}
    IN  \A v \in DOMAIN intervals.iv :
          /\ at(v) \subseteq Covered(intervals.iv[v])
          /\ la.loops = <<>> => Covered(intervals.iv[v]) \subseteq at(v)

\* Liveness analysis of a reducible graph aborts on a phi that nothing uses,
\* follows a null pointer when a loop is the last in the linear order, and
\* aborts on a value that is dead right before a loop and live in its header;
\* it ends without a failure when there is none of these, and no other of its
\* assertions ever fails.
LivenessGivesUp ==
  LET unused  == \E i \in DOMAIN ir.inst : IsPhi(ir, i) /\ ~HasUsers(ir, i)
      last    == la.loop[linear_order[Len(linear_order) - 1].block] # ROOT
      heads   == {linear_order[n].ln : n \in {m \in 1 .. Len(linear_order) - 1 :
                                               IsHeader(la, linear_order[m].block)}}
      resumes == LET needed == Needed
                 IN  \E p \in needed : /\ p[2] \in heads
                                       /\ p[2] # LifeNumbers(linear_order)[p[1]]
                                       /\ <<p[1], p[2] - 1>> \notin needed
  IN  /\ failed = "Remove" => unused
      /\ failed = "loop is last" => last
      /\ failed = "hole before loop" => resumes
      /\ failed \notin {"FinalizeDef", "TrimBegin", "Has", "CheckRanges",
                        "CheckIntervals", "loop intersection"}
      /\ Newest(intervals, locations) /\ la.reducible /\ ~Nested =>
           ~unused /\ ~last /\ ~resumes

\* The locations of a value at a number, in the allocation ra.
At(ra, v, p) == {r.loc : r \in {q \in ToSet(ra.iv[v]) : q.b <= p /\ p < q.e}}
EvenNumbers == {2 * n : n \in 0 .. linear_order[Len(linear_order)].ln \div 2}

\* What linear scan left before the phis were merged.
Scanned == LinearScan(intervals, linear_order)

\* Linear scan: where an instruction writes its result (the even numbers) no
\* two values are in one register, however often values were spilled to slots
\* and brought back.
RegistersApart ==
  locations # <<>> =>
    LET ra == Scanned
    IN  \A p \in EvenNumbers : \A v, w \in DOMAIN ra.iv :
          v # w => \A loc \in At(ra, v, p) \cap At(ra, w, p) : loc[1] # "REG"

\* At number p more values than there are registers are between their first
\* and their last number.
UnderPressure(p) ==
  Cardinality({v \in DOMAIN intervals.iv :
                 /\ intervals.iv[v][1][1] <= p
                 /\ p < Last(intervals.iv[v])[2]}) > REGS_COUNT

\* Nothing is spilled unless at some number more values than there are
\* registers are between their first and their last number.
SpillsUnderPressure ==
  locations # <<>> /\ locations.slots > 0 =>
    \E p \in EvenNumbers : UnderPressure(p)

\* Merging of phis: on the last number of a predecessor the input of a phi is
\* in the phi's register, unless it is the input of another phi there too.
PhisReceiveInputs ==
  locations # <<>> =>
    \A bb \in Blocks : \A k \in DOMAIN preds[bb] :
      LET p == preds[bb][k]
          phis == UNION {ToSet(ir.phis[s]) : s \in ToSet(succs[p])}
          from(q) == ir.inst[q].inputs[Position(preds[ir.inst[q].bb], p)]
      IN  \A phi \in ToSet(ir.phis[bb]) :
            (\A q \in phis \ {phi} : from(q) # from(phi)) =>
              At(locations, from(phi), linear_order[PlaceOf[p] + 1].ln - 1)
                = {FirstLocation(locations, phi)}

\* "Preserve live range location" (reg_alloc.h): at every other number a value
\* stays where linear scan put it, unless a value was spilled for a phi, on the
\* last number of a block; merging takes the location before that number for
\* what follows, where the spilled value no longer is.
Unmoved(ra) == \A v \in DOMAIN ra.iv : \A p \in EvenNumbers :
                 At(ra, v, p) = At(locations, v, p)
SpilledForPhi(ra) ==
  \E v \in DOMAIN ra.iv : \E r \in ToSet(ra.iv[v]) :
    \E n \in DOMAIN linear_order : r.b = linear_order[n].ln - 1
PhisMoveNothingElse ==
  locations # <<>> => LET ra == Scanned IN SpilledForPhi(ra) \/ Unmoved(ra)

\* Register allocation aborts on an irreducible graph, for which there are no
\* intervals, and when the value to spill for a phi is a phi of the same
\* block, which starts at the number to spill it before: only where a block
\* has several phis and more values than registers at its first number.
AllocationGivesUp ==
  /\ failed \in {"contains", "at"} => ~la.reducible
  /\ failed = "FindRangeCoveringOrAfter" =>
       \E n \in 1 .. Len(linear_order) - 1 :
         /\ Len(ir.phis[linear_order[n].block]) > 1
         /\ UnderPressure(linear_order[n].ln)
  /\ failed \notin {"IsActive", "phi"}

----------------------------------------------------------------------------
(* What an assertion says, and graphs refute *)

\* linear_order.h asserts, after the successors of a block that stay in its
\* loop, that every back edge of the loop was placed.
LoopPlacedBeforeLeft == failed = "AllBackEdgesMarked" => ~IsReducible
=============================================================================
