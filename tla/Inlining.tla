------------------------------ MODULE Inlining ------------------------------
(***************************************************************************)
(* Inlining (optimizations/inlining.h; SplitBlockAfter of graph.cpp,       *)
(* InsertInto of graph.h).  The graph of the callee was built after the    *)
(* caller's, so that its blocks and instructions have the next numbers;    *)
(* its blocks are put between the two halves of the block with the call.   *)
(*                                                                         *)
(* st holds both graphs: the instructions g, succs and preds of all        *)
(* blocks, top (BLOCK_ID_), and base, the number of the callee's end block *)
(* (blocks_id_offset_).                                                    *)
(***************************************************************************)
EXTENDS DomTree

CONSTANT INSTS_LIMIT        \* Inlining::INSTS_LIMIT

ASSUME LimitAssumption == INSTS_LIMIT \in Nat

VARIABLE callee             \* callee_: a sequence of blocks; nullptr: <<>>

EndOf(st)   == st.base + END_BLOCK_IDX
EntryOf(st) == st.base + ENTRY_BLOCK_IDX

Shift(s, n) == [k \in DOMAIN s |-> n + s[k]]
PredsIn(blocks, b) == SelectSeq([k \in DOMAIN blocks |-> k],
                                LAMBDA k : b \in ToSet(blocks[k].succs))

\* The graph of a callee, from the number base on.  A block of blocks is a
\* record of succs and insts; blocks and instructions are counted from 1.
BuildCallee(g, base, blocks) ==
  LET insts == FlattenSeq([b \in DOMAIN blocks |->
                 [n \in DOMAIN blocks[b].insts |-> <<b, blocks[b].insts[n]>>]])
      append(acc, e) == AppendInst(acc, base + e[1], e[2].op, "INT64", e[2].imm,
                                   Shift(e[2].inputs, Len(g.inst)))
  IN  [g     |-> FoldLeft(append, g, insts),
       succs |-> [b \in base .. base + Len(blocks) |->
                    IF b = base THEN <<>> ELSE Shift(blocks[b - base].succs, base)],
       preds |-> [b \in base .. base + Len(blocks) |-> Shift(PredsIn(blocks, b - base), base)],
       base  |-> base, top |-> base + Len(blocks) + 1]

----------------------------------------------------------------------------
(* The steps of Inline *)

\* Mutant of FindAndReplaceInPreds: the successors keep their predecessor.
KeepInPreds(st, bbs, find, replace) == st.preds

\* FindAndReplaceInPreds, of the successors bbs.
FindAndReplaceInPreds(st, bbs, find, replace) ==
  [b \in bbs |-> ReplaceAll(st.preds[b], find, replace)] @@ st.preds

\* SplitCallBlock, SplitBlockAfter and MoveSuccsFrom: what follows the call
\* moves to a new block, with the successors.
SplitBlockAfter(st, call) ==
  LET bb   == st.g.inst[call].bb
      list == st.g.insts[bb]
      at   == Position(list, call)
      tail == SubSeq(list, at + 1, Len(list))
      move(insts, i) == [insts EXCEPT ![i].bb = st.top]
  IN  [st EXCEPT
        !.g = [@ EXCEPT !.insts[bb] = SubSeq(list, 1, at), !.insts[st.top] = tail,
                        !.inst = FoldLeft(move, @, tail)],
        !.preds = FindAndReplaceInPreds(st, ToSet(st.succs[bb]), bb, st.top),
        !.succs = [@ EXCEPT ![bb] = <<>>, ![st.top] = st.succs[bb]], !.top = @ + 1]

\* FixParametersDF: the parameters of the entry block become the arguments.
FixParametersDF(st, call) ==
  LET args   == st.g.inst[call].inputs
      params == SelectSeq(st.g.insts[EntryOf(st)], LAMBDA i : st.g.inst[i].op = "PARAMETER")
      fix(g, n) == IF g.failed # OK THEN g
                   ELSE IF n > Len(args) THEN Crash(g, "GetInput")
                   ELSE ReplaceWith(g, params[n], args[n])
  IN  [st EXCEPT !.g = FoldLeft(fix, @, [n \in DOMAIN params |-> n])]

\* The last instructions of the predecessors of the callee's end block.
Returns(st) == LET ps == st.preds[EndOf(st)]
               IN  [n \in DOMAIN ps |-> Last(st.g.insts[ps[n]])]

DiscardAll(g, insts) == FoldLeft(LAMBDA acc, i : Discard(acc, i), g, insts)

\* FixSingleReturn: the call gives way to the value returned.
FixSingleReturn(st, call) ==
  LET ret == Returns(st)[1]
  IN  Then(ReplaceWith(st.g, call, st.g.inst[ret].inputs[1]), LAMBDA g : Discard(g, ret))

\* FixMultipleReturns: the call gives way to a phi in the callee's end block.
FixMultipleReturns(st, call) ==
  LET rets == Returns(st)
      made == New(st.g, "PHI", "UNKNOWN", 0, Len(rets))
      phi  == Len(st.g.inst) + 1
      g    == SetInputs(PushPhi(made, EndOf(st), phi), phi,
                        [n \in DOMAIN rets |-> st.g.inst[rets[n]].inputs[1]])
  IN  ReplaceWith(DiscardAll(g, rets), call, phi)

\* FixReturn: a call whose value nobody uses stays where it is.
FixReturn(st, call) ==
  LET rets == Returns(st)
      void == \E i \in ToSet(rets) : st.g.inst[i].op # "RETURN"
      g == IF rets = <<>> THEN Crash(st.g, "Preds().size() >= 1")
           ELSE IF ~HasUsers(st.g, call) THEN DiscardAll(st.g, rets)
           ELSE IF void THEN Crash(st.g, "IsReturn")
           ELSE IF Len(rets) > 1 THEN FixMultipleReturns(st, call)
           ELSE FixSingleReturn(st, call)
  IN  [st EXCEPT !.g = g]

\* FixCF: the callee's blocks between the two halves.
FixCF(st, bb, cont) ==
  [st EXCEPT !.succs = [@ EXCEPT ![bb] = <<EntryOf(st)>>, ![EndOf(st)] = <<cont>>],
             !.preds = [@ EXCEPT ![EntryOf(st)] = <<bb>>, ![cont] = <<EndOf(st)>>]]

\* Inline.  A callee that holds a call itself has no callee, or fails the
\* assertion that the caller is the current graph; the blocks of a callee can
\* be inserted once, which its entry block asserts.
Inline(st, call) ==
  LET nested == \E i \in Inserted(st.g) :
                  st.g.inst[i].op = "CALL" /\ st.g.inst[i].bb \in st.base .. st.base + Len(callee)
      step(s, Fix(_)) == IF s.g.failed # OK THEN s ELSE Fix(s)
      params(s) == FixParametersDF(s, call)
      return(s) == FixReturn(s, call)
      edges(s)  == FixCF(s, st.g.inst[call].bb, st.top)
  IN  IF nested THEN [st EXCEPT !.g = Crash(@, "GRAPH == graph_")]
      ELSE IF st.preds[EntryOf(st)] # <<>>
      THEN [st EXCEPT !.g = Crash(@, "GetEntryBlock")]
      ELSE step(step(step(SplitBlockAfter(st, call), params), return), edges)

\* The constructor of Inlining.  In each block the first call is inlined: the
\* rest of the block moves away.  lastAt is the last block that had one.
InlineIn(st, bb) ==
  LET calls == SelectSeq(st.g.insts[bb], LAMBDA i : st.g.inst[i].op = "CALL")
  IN  IF calls = <<>> \/ st.g.failed # OK THEN st
      ELSE IF st.lastAt # NULL /\ Len(st.g.inst) >= INSTS_LIMIT THEN st
      ELSE [Inline(st, Head(calls)) EXCEPT !.lastAt = bb]

InlineCalls(g, count) ==
  LET start(built) == [built EXCEPT !.succs = @ @@ succs, !.preds = @ @@ preds]
      inline(st) == IF Len(st.g.inst) >= INSTS_LIMIT THEN st
                    ELSE FoldLeft(InlineIn, st, [n \in 1 .. count |-> n - 1])
  IN  inline([lastAt |-> NULL] @@ start(BuildCallee(g, count, callee)))
=============================================================================
