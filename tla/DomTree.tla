------------------------------ MODULE DomTree ------------------------------
(***************************************************************************)
(* The reverse post-order of the blocks (analyses/rpo.h) and the dominator *)
(* tree (analyses/dom_tree.h): semidominators over a depth-first spanning  *)
(* tree, and immediate dominators from them.                               *)
(***************************************************************************)
EXTENDS Instructions

(* Reverse post-order (analyses/rpo.h) *)

\* RPO::DFS: st holds the marked blocks and the part of rpo_ filled so far,
\* from its end.
RECURSIVE RpoDFS(_, _)
RpoDFS(bb, st) ==
  LET visit(acc, succ) == IF succ \in acc.marked THEN acc ELSE RpoDFS(succ, acc)
      below == FoldLeft(visit, [st EXCEPT !.marked = @ \cup {bb}], succs[bb])
  IN  [below EXCEPT !.rpo = <<bb>> \o @]

\* Mutant of RPO: the order is filled from its start.
PostOrder == Reverse(RpoDFS(ENTRY_BLOCK_IDX, [marked |-> {}, rpo |-> <<>>]).rpo)

\* The constructor of RPO.
RPO == RpoDFS(ENTRY_BLOCK_IDX, [marked |-> {}, rpo |-> <<>>]).rpo

----------------------------------------------------------------------------
(* The dominator tree (analyses/dom_tree.h) *)

\* DomTree::DFS: order is sorted_ from its end, anc the spanning tree.
RECURSIVE Enumerate(_, _)
Enumerate(bb, st) ==
  LET visit(acc, succ) ==
        IF succ \in ToSet(acc.order) THEN acc
        ELSE Enumerate(succ, [acc EXCEPT !.anc[succ] = bb])
  IN  FoldLeft(visit, [st EXCEPT !.order = Append(@, bb)], succs[bb])

EnumerateBlocks ==
  Enumerate(ENTRY_BLOCK_IDX, [order |-> <<>>, anc |-> [b \in BlockIds |-> NULL]])

\* v_numbers_ of an enumeration; nullptr has number 0.
Numbers(order) ==
  [b \in BlockIds \cup {NULL} |->
     IF b \in ToSet(order) THEN CHOOSE i \in DOMAIN order : order[i] = b ELSE 0]

\* Mutant of Lesser: the candidate found last wins.
LastOne(num, a, b) == b

\* The candidate with the smaller number; there may be none yet.
Lesser(num, a, b) == IF a = NULL \/ (b # NULL /\ num[b] < num[a]) THEN b ELSE a

\* FindPredWithLessThan: st holds the marked blocks and the best candidate.
RECURSIVE FindPredWithLessThan(_, _, _, _)
FindPredWithLessThan(num, n, bb, st) ==
  LET visit(acc, pred) ==
        IF num[pred] < n THEN [acc EXCEPT !.best = Lesser(num, @, pred)]
        ELSE IF pred \in acc.marked THEN acc
        ELSE FindPredWithLessThan(num, n, pred, acc)
  IN  FoldLeft(visit, [st EXCEPT !.marked = @ \cup {bb}], preds[bb])

FindSemiDom(num, bb) ==
  LET visit(best, pred) ==
        IF num[bb] > num[pred] THEN Lesser(num, best, pred)
        ELSE FindPredWithLessThan(num, num[bb], pred,
                                  [marked |-> {}, best |-> best]).best
  IN  FoldLeft(visit, NULL, preds[bb])

\* The block with the least semidominator on the tree path from u up to, but
\* without, stop; the lowest one among equals.
RECURSIVE LeastOnPath(_, _, _, _, _)
LeastOnPath(num, anc, semi, u, stop) ==
  IF anc[u] = stop THEN u
  ELSE LET above == LeastOnPath(num, anc, semi, anc[u], stop)
       IN  IF num[semi[above]] < num[semi[u]] THEN above ELSE u

\* Mutant of CollectIdoms: the semidominator is taken for the dominator.
SemidomsAsIdoms(num, order, anc, semi) == semi

\* CollectIdoms, in the order of the numbers.
CollectIdoms(num, order, anc, semi) ==
  LET visit(idoms, bb) ==
        LET u == LeastOnPath(num, anc, semi, bb, semi[bb])
        IN  [idoms EXCEPT ![bb] = IF num[semi[u]] = num[semi[bb]] THEN semi[bb]
                                                                  ELSE idoms[u]]
  IN  FoldLeft(visit, [b \in BlockIds |-> NULL], Tail(order))

\* The constructor of DomTree: idoms_.
IDoms ==
  LET tree == EnumerateBlocks
      num  == Numbers(tree.order)
      semi == [b \in BlockIds |->
                 IF num[b] > 1 THEN FindSemiDom(num, b) ELSE NULL]
  IN  CollectIdoms(num, tree.order, tree.anc, semi)

\* Mutant of DomTreeAsserts: the comparison is the wrong way round.
PredecessorsBelow ==
  LET num == Numbers(EnumerateBlocks.order)
  IN  \A b \in Blocks : \A p \in ToSet(preds[b]) : num[p] < num[b]

\* The semidominator search asserts that no block is its own predecessor.
DomTreeAsserts == \A b \in Blocks : b \notin ToSet(preds[b])

\* Graph::IsDominator, over the idoms_ found.
RECURSIVE IsDominator(_, _, _)
IsDominator(idoms, dom, block) ==
  \/ dom = block
  \/ block # ENTRY_BLOCK_IDX /\ IsDominator(idoms, dom, idoms[block])

\* CollectBlocks: the blocks found from the entry block when one is ignored.
CollectBlocks(ignored) == ReachableAvoiding(ENTRY_BLOCK_IDX, {ignored})

\* DomTreeCheck: what cannot be reached around a block is dominated by it.
DomTreeCheck(idoms) ==
  \A ignored, b \in Blocks :
    b \notin CollectBlocks(ignored) => IsDominator(idoms, ignored, b)
=============================================================================
