---------------------------- MODULE LoopAnalyzer ----------------------------
(***************************************************************************)
(* The loop tree (analyses/loop.h).  A depth-first search finds the edges  *)
(* back to a block under way and makes that block the header of a loop;    *)
(* from these edges the blocks of each loop are collected backwards, inner *)
(* loops first; blocks that are left belong to the root loop.              *)
(*                                                                         *)
(* The analysis is one call on one thread: its state st is passed through  *)
(* its recursive functions.  An assertion that fails ends the process, so  *)
(* a function does nothing once st.failed is set.                          *)
(***************************************************************************)
EXTENDS DomTree

ROOT == 0                   \* the id of the root loop

\* Loop::header_, back_edges_, outer_, reducible_.
NewLoop(header) ==
  [header |-> header, back_edges |-> <<>>, outer |-> NULL, reducible |-> TRUE]

\* st.loop is BasicBlock::loop_, st.loops the loops by id; grey and black are
\* the blocks that carry the marks gb_ and b_.
LoopsStart ==
  [loop |-> [b \in BlockIds |-> NULL], loops |-> <<>>, grey |-> {},
   black |-> {}, reducible |-> TRUE, failed |-> OK]

Require(st, cond, name, next) ==
  IF cond THEN next ELSE [st EXCEPT !.failed = name]

\* Recursion this deep repeats itself: a call that does not assign a loop to
\* a block meets a header it has met since the last one that did.
MAX_DEPTH == MAX_BLOCKS * (MAX_BLOCKS + 1)

Header(st, l) == IF l = ROOT THEN NULL ELSE st.loops[l].header
IsHeader(st, b) == Header(st, st.loop[b]) = b
IsBackEdge(st, l, b) == b \in ToSet(st.loops[l].back_edges)

\* AppendBackEdge: the block becomes part of the loop it closes.
AppendBackEdge(st, l, edge) ==
  Require(st, ~IsBackEdge(st, l, edge) /\ st.loop[edge] = NULL, "AppendBackEdge",
          [st EXCEPT !.loops[l].back_edges = Append(@, edge),
                     !.loop[edge] = l])

ProcessNewBackEdge(st, edge, b) ==
  LET new == Len(st.loops) + 1
      has == IF st.loop[b] # NULL THEN st
             ELSE [st EXCEPT !.loops = Append(@, NewLoop(b)), !.loop[b] = new]
      l   == has.loop[b]
  IN  Require(st, has.loops[l].header = b, "ProcessNewBackEdge",
              AppendBackEdge(has, l, edge))

RECURSIVE DFSBackEdges(_, _)
DFSBackEdges(st, edge) ==
  LET visit(acc, b) ==
        IF acc.failed # OK THEN acc
        ELSE IF b \in acc.grey THEN ProcessNewBackEdge(acc, edge, b)
        ELSE IF b \in acc.black THEN acc
        ELSE DFSBackEdges(acc, b)
      done == FoldLeft(visit, [st EXCEPT !.grey = @ \cup {edge}], succs[edge])
  IN  [done EXCEPT !.grey = @ \ {edge}, !.black = @ \cup {edge}]

\* Mutant of SetOuter: a loop around another is not recorded.
SetOuterRoot(st, l, outer) ==
  IF outer = ROOT THEN [st EXCEPT !.loops[l].outer = ROOT] ELSE st

\* Loop::SetOuter: the outer loop of a loop is set once.
SetOuter(st, l, outer) ==
  LET old == st.loops[l].outer
      inner == outer # ROOT /\ st.loops[outer].outer = l
  IN  Require(st, outer # l /\ ~inner /\ old \in {NULL, outer}, "SetOuter",
              [st EXCEPT !.loops[l].outer = outer])

RECURSIVE DFSPopulateBlocks(_, _, _, _)
DFSPopulateBlocks(st, l, b, depth) ==
  LET visit(acc, pred) ==
        LET p == acc.loop[pred]
            h == Header(acc, p)
            out == SetOuter(acc, p, l)
        IN  IF acc.failed # OK THEN acc
            ELSE IF p = NULL THEN DFSPopulateBlocks(acc, l, pred, depth + 1)
            ELSE IF p = l \/ b = h THEN acc
            ELSE IF out.failed # OK THEN out
            ELSE DFSPopulateBlocks(out, l, h, depth + 1)
      here == IF st.loop[b] = NULL THEN [st EXCEPT !.loop[b] = l] ELSE st
  IN  IF depth > MAX_DEPTH THEN [st EXCEPT !.failed = "recursion"]
      ELSE FoldLeft(visit, here, preds[b])

\* The headers in post-order, so that inner loops come first.
PopulateOrder(rpo) == Reverse(rpo)

\* Mutant of SetIrreducible: the graph is not told.
OnlyTheLoop(st, l) == [st EXCEPT !.loops[l].reducible = FALSE]

\* Loop::SetReducible(false) and Graph::SetIrreducible.
SetIrreducible(st, l) ==
  [st EXCEPT !.loops[l].reducible = FALSE, !.reducible = FALSE]

\* PopulateBlocks: from each edge back to a header that dominates its source.
PopulateBlocks(st, rpo, idoms) ==
  LET edges(acc, h) ==
        LET l == acc.loop[h]
            visit(a, edge) ==
              IF a.failed # OK THEN a
              ELSE IF IsDominator(idoms, h, edge)
              THEN DFSPopulateBlocks(a, l, edge, 1)
              ELSE SetIrreducible(a, l)
        IN  IF acc.failed # OK \/ l = NULL \/ Header(acc, l) # h THEN acc
            ELSE FoldLeft(visit, acc, acc.loops[l].back_edges)
  IN  FoldLeft(edges, st, PopulateOrder(rpo))

\* CreateRoot, and SetRootLoop, which asserts that the entry block is in it.
CreateRoot(st, rpo) ==
  LET visit(acc, b) ==
        IF acc.failed # OK THEN acc
        ELSE IF acc.loop[b] = NULL THEN [acc EXCEPT !.loop[b] = ROOT]
        ELSE IF acc.loop[b] # ROOT /\ acc.loops[acc.loop[b]].outer = NULL
        THEN SetOuter(acc, acc.loop[b], ROOT)
        ELSE acc
      done == FoldLeft(visit, st, rpo)
  IN  IF done.failed # OK \/ done.loop[ENTRY_BLOCK_IDX] = ROOT THEN done
      ELSE [done EXCEPT !.failed = "SetRootLoop"]

RECURSIVE DFSIrreducible(_, _, _)
DFSIrreducible(st, b, depth) ==
  LET l == st.loop[b]
      visit(acc, pred) ==
        LET assertion == IF pred \in acc.black
                         THEN acc.loop[pred] # l \/ pred = Header(acc, l)
                         ELSE IsHeader(acc, b) = IsBackEdge(acc, l, pred)
        IN  IF acc.failed # OK THEN acc
            ELSE IF ~assertion THEN [acc EXCEPT !.failed = "DFSIrreducible"]
            ELSE IF pred \in acc.black THEN acc
            ELSE DFSIrreducible([acc EXCEPT !.loop[pred] = l], pred, depth + 1)
  IN  IF depth > MAX_DEPTH THEN [st EXCEPT !.failed = "recursion"]
      ELSE FoldLeft(visit, st, preds[b])

PopulateIrreducible(st, rpo) ==
  LET visit(acc, b) ==
        LET marked == [acc EXCEPT !.black = @ \cup {b}]
        IN  IF acc.failed # OK THEN acc
            ELSE IF ~IsHeader(acc, b) \/ acc.loops[acc.loop[b]].reducible
            THEN marked
            ELSE DFSIrreducible(marked, b, 1)
  IN  IF st.failed # OK THEN st
      ELSE FoldLeft(visit, [st EXCEPT !.black = {}], rpo)

\* The constructor of LoopAnalyzer.
Loops(rpo, idoms) ==
  LET found     == DFSBackEdges(LoopsStart, ENTRY_BLOCK_IDX)
      populated == PopulateBlocks(found, rpo, idoms)
      rooted    == CreateRoot(populated, rpo)
  IN  PopulateIrreducible(rooted, rpo)
=============================================================================
