------------------------- MODULE ChecksElimination -------------------------
(***************************************************************************)
(* Removal of repeated checks (optimizations/checks_elimination.h): a null *)
(* or bounds check gives way to an equal one that dominates it.            *)
(***************************************************************************)
EXTENDS DomTree

CHECKS == {"CHECKNULL", "CHECKBOUNDS"}

\* FixedInputsInst::operator==.
SameCheck(g, a, b) == /\ g.inst[a].op = g.inst[b].op
                      /\ g.inst[a].inputs = g.inst[b].inputs

\* BasicBlock::Dominates, of different blocks.
RECURSIVE BlockDominates(_, _, _)
BlockDominates(idoms, bb, other) ==
  other # NULL /\ (bb = idoms[other] \/ BlockDominates(idoms, bb, idoms[other]))

\* Mutant of InstDominates: it is enough to come first.
InstComesFirst(g, idoms, a, b) == TRUE

\* Inst::Dominates.
InstDominates(g, idoms, a, b) ==
  LET bb == g.inst[a].bb
  IN  IF bb = g.inst[b].bb
      THEN Position(g.insts[bb], a) < Position(g.insts[bb], b)
      ELSE BlockDominates(idoms, bb, g.inst[b].bb)

\* Mutant of Remember: one check of each kind.
RememberLast(unique, g, i) ==
  SelectSeq(unique, LAMBDA c : g.inst[c].op # g.inst[i].op) \o <<i>>

\* unique_checks_, of both kinds in one sequence: Visit compares the opcode.
Remember(unique, g, i) == Append(unique, i)

\* Visit of a check: st.g are the instructions.
VisitCheck(st, idoms, i) ==
  LET known == SelectSeq(st.unique, LAMBDA c : /\ SameCheck(st.g, i, c)
                                               /\ InstDominates(st.g, idoms, c, i))
  IN  IF known = <<>> THEN [st EXCEPT !.unique = Remember(@, st.g, i)]
      ELSE [st EXCEPT !.g = ReplaceWith(@, i, Head(known))]

\* The constructor of ChecksElimination.
EliminateChecks(g, order, idoms) ==
  LET insts == SelectSeq(FlattenSeq([n \in DOMAIN order |-> g.insts[order[n]]]),
                         LAMBDA i : g.inst[i].op \in CHECKS)
      visit(st, i) == IF st.g.failed # OK THEN st ELSE VisitCheck(st, idoms, i)
  IN  FoldLeft(visit, [g |-> g, unique |-> <<>>], insts).g
=============================================================================
