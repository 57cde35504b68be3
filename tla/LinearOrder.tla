---------------------------- MODULE LinearOrder ----------------------------
(***************************************************************************)
(* The linear order of the blocks (analyses/linear_order.h) that liveness  *)
(* analysis and register allocation work on: a block follows everything    *)
(* that leads into it, except the edges back to a loop header, and a loop  *)
(* is left after its blocks were placed.  Life numbers are even.           *)
(***************************************************************************)
EXTENDS LoopAnalyzer

\* Mutant of AllSidePredsMarked: a header waits for no predecessor.
HeadersWaitForNobody(la, st, bb) ==
  \A pred \in ToSet(preds[bb]) : pred \in st.marked \/ IsHeader(la, bb)

\* AllSidePredsMarked: a header does not wait for its own loop.
AllSidePredsMarked(la, st, bb) ==
  \A pred \in ToSet(preds[bb]) :
    \/ pred \in st.marked
    \/ IsHeader(la, bb) /\ la.loop[pred] = la.loop[bb]

AllBackEdgesMarked(la, st, l) ==
  l = ROOT \/ ToSet(la.loops[l].back_edges) \subseteq st.marked

\* AssignLifeNumbers: one number for the phis, one for each instruction.
AssignLifeNumbers(st, bb) ==
  [st EXCEPT !.order = Append(@, [block |-> bb, ln |-> st.life_number]),
             !.life_number = @ + 2 + 2 * Len(ir.insts[bb])]

\* Inst::LN of every instruction, as AssignLifeNumbers set them.
LifeNumbers(order) ==
  [i \in Inserted(ir) |->
     LET bb == ir.inst[i].bb
         at == order[CHOOSE n \in DOMAIN order : order[n].block = bb].ln
     IN  IF IsPhi(ir, i) THEN at ELSE at + 2 * Position(ir.insts[bb], i)]

Outer(la, l) == IF l = ROOT THEN NULL ELSE la.loops[l].outer

RECURSIVE LinearDFS(_, _, _)
LinearDFS(la, st, bb) ==
  LET l      == la.loop[bb]
      outer  == Outer(la, l)
      visit(acc, succ) ==
        IF acc.failed # OK \/ succ \in acc.marked THEN acc
        ELSE LinearDFS(la, acc, succ)
      stays(succ)  == la.loop[succ] # outer
      leaves(succ) == la.loop[succ] = outer
      placed == AssignLifeNumbers([st EXCEPT !.marked = @ \cup {bb}], bb)
      inside == FoldLeft(visit, placed, SelectSeq(succs[bb], stays))
  IN  IF ~AllSidePredsMarked(la, st, bb) THEN st
      ELSE IF ~(l = ROOT \/ Header(la, l) \in placed.marked
                         \/ ~la.loops[l].reducible)
      THEN [st EXCEPT !.failed = "header"]
      ELSE IF inside.failed # OK THEN inside
      ELSE IF ~AllBackEdgesMarked(la, inside, l)
      THEN [inside EXCEPT !.failed = "AllBackEdgesMarked"]
      ELSE FoldLeft(visit, inside, SelectSeq(succs[bb], leaves))

\* The constructor of LinearOrder: linear_order_ ends with an element that
\* has no block, for the number after the last.
LinearOrderOf(la) ==
  LET done == LinearDFS(la, [marked |-> {}, order |-> <<>>, life_number |-> 0,
                             failed |-> OK], ENTRY_BLOCK_IDX)
      full == Append(done.order, [block |-> NULL, ln |-> done.life_number])
  IN  IF done.failed # OK THEN done
      ELSE IF Len(full) - 1 # Cardinality(Blocks)
      THEN [done EXCEPT !.failed = "unreachable"]
      ELSE [done EXCEPT !.order = full]
=============================================================================
