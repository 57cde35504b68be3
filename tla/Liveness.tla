------------------------------ MODULE Liveness ------------------------------
(***************************************************************************)
(* Liveness analysis (analyses/liveness.h, live_intervals.h): one backward *)
(* pass over the linear order collects for each value the ranges of life   *)
(* numbers it is live in; the values live into a loop header get the range *)
(* of the loop as well; merged, the ranges are the value's intervals.      *)
(*                                                                         *)
(* A range <<b, e>> holds the numbers from b up to, but without, e.        *)
(* lv.live are the live sets, lv.ranges and lv.loop_ranges the ranges of a *)
(* value, the last one first.                                              *)
(***************************************************************************)
EXTENDS LinearOrder

LivenessStart ==
  [live |-> [b \in BlockIds |-> {}], failed |-> OK,
   ranges |-> [i \in DOMAIN ir.inst |-> <<>>],
   loop_ranges |-> [i \in DOMAIN ir.inst |-> <<>>]]

\* The inputs that the phis of succ have for the edge from bb.
PhiInputs(bb, succ) ==
  {ir.inst[phi].inputs[Position(preds[succ], bb)] : phi \in ToSet(ir.phis[succ])}

AddRange(lv, values, b, e) ==
  [lv EXCEPT !.ranges = [i \in DOMAIN lv.ranges |->
     IF i \in values THEN Append(lv.ranges[i], <<b, e>>) ELSE lv.ranges[i]]]

\* Mutant of InitializeBlock: the phis' inputs are not live at the end.
WithoutPhiInputs(lv, bb, b, e) ==
  LET live == UNION {lv.live[succ] : succ \in ToSet(succs[bb])}
  IN  [AddRange(lv, live, b, e) EXCEPT !.live[bb] = live]

\* InitializeBlock: what is live into a successor, and the inputs of its phis.
InitializeBlock(lv, bb, b, e) ==
  LET live == UNION {lv.live[succ] \cup PhiInputs(bb, succ) : succ \in ToSet(succs[bb])}
  IN  [AddRange(lv, live, b, e) EXCEPT !.live[bb] = live]

\* Mutant of DeadValue: a value without uses is not live anywhere.
NoRange(lv, i, ln) == lv

\* A value without uses is live where it is written.
DeadValue(lv, i, ln) == AddRange(lv, {i}, ln, ln + 2)

\* A definition ends the life of its value, going backwards: FinalizeDef.
ProcessDef(lv, bb, i, ln) ==
  LET first == Last(lv.ranges[i])
      live  == i \in lv.live[bb]
  IN  IF HasDst(ir, i) /\ HasUsers(ir, i)
      THEN IF lv.ranges[i] = <<>> THEN Crash(lv, "FinalizeDef")
           ELSE IF ~(first[1] < ln /\ ln < first[2]) THEN Crash(lv, "TrimBegin")
           ELSE IF ~live THEN Crash(lv, "Remove")
           ELSE [lv EXCEPT !.ranges[i] = Append(Front(@), <<ln, first[2]>>),
                           !.live[bb] = @ \ {i}]
      ELSE IF live THEN Crash(lv, "Has")
      ELSE IF HasDst(ir, i) THEN DeadValue(lv, i, ln)
      ELSE lv

\* An input that is not live yet is live from the start of the block on.
ProcessInputs(lv, bb, b, i, ln) ==
  LET fresh == ToSet(ir.inst[i].inputs) \ lv.live[bb]
  IN  [AddRange(lv, fresh, b, ln) EXCEPT !.live[bb] = @ \cup fresh]

ProcessInstructions(lv, bb, b, lns) ==
  LET inst(acc, i) ==
        Then(Then(acc, LAMBDA l : ProcessDef(l, bb, i, lns[i])),
             LAMBDA def : ProcessInputs(def, bb, b, i, lns[i]))
      phis(done) == IF ToSet(ir.phis[bb]) \subseteq done.live[bb]
                    THEN [done EXCEPT !.live[bb] = @ \ ToSet(ir.phis[bb])]
                    ELSE Crash(done, "Remove")
  IN  Then(FoldLeft(inst, lv, Reverse(ir.insts[bb])), phis)

\* Where the loop of the block at place n ends: at the next block of another
\* loop, which is NULL behind the last block.
LoopEnd(la, order, n) ==
  CHOOSE m \in n + 1 .. Len(order) :
    /\ order[m].block = NULL \/ la.loop[order[m].block] # la.loop[order[n].block]
    /\ \A k \in n + 1 .. m - 1 : la.loop[order[k].block] = la.loop[order[n].block]

\* Mutant of ProcessLoop: the loop is not looked at.
IgnoreLoop(lv, la, order, n) == lv

\* ProcessLoop: it asks the block behind the loop for its loop.
ProcessLoop(lv, la, order, n) ==
  LET m == LoopEnd(la, order, n)
      live == lv.live[order[n].block]
  IN  IF order[m].block = NULL THEN Crash(lv, "loop is last")
      ELSE [lv EXCEPT !.loop_ranges = [i \in DOMAIN lv.loop_ranges |->
              IF i \in live THEN Append(lv.loop_ranges[i], <<order[n].ln, order[m].ln>>)
              ELSE lv.loop_ranges[i]]]

CalculateLifeRanges(la, order) ==
  LET lns == LifeNumbers(order)
      visit(acc, n) ==
        LET bb   == order[n].block
            init == InitializeBlock(acc, bb, order[n].ln, order[n + 1].ln)
            loop(done) == IF IsHeader(la, bb) THEN ProcessLoop(done, la, order, n) ELSE done
        IN  Then(ProcessInstructions(init, bb, order[n].ln, lns), loop)
  IN  FoldLeft(LAMBDA acc, n : Then(acc, LAMBDA lv : visit(lv, n)), LivenessStart,
               Reverse([n \in 1 .. Len(order) - 1 |-> n]))

----------------------------------------------------------------------------
(* Intervals *)

\* LiveRanges::CheckRanges, of ranges and loop ranges in ascending order.
CheckRanges(rs, ls) ==
  /\ \A n \in 1 .. Len(rs) - 1 : rs[n][2] <= rs[n + 1][1]
  /\ \A n \in 1 .. Len(ls) - 1 : ls[n][2] <= ls[n + 1][1] \/ ls[n][1] <= ls[n + 1][1]

\* Ranges that touch are merged into the last interval.
RECURSIVE MergeTouching(_, _)
MergeTouching(iv, rs) ==
  LET cur == Last(iv)
  IN  IF rs = <<>> \/ Head(rs)[1] # cur[2] THEN [iv |-> iv, rs |-> rs]
      ELSE MergeTouching(Append(Front(iv), <<cur[1], Head(rs)[2]>>), Tail(rs))

\* A turn of the loop of FillIntervals: m.iv are the intervals so far, m.rs and
\* m.ls the ranges and the loop ranges still ahead.  An interval that reaches a
\* loop's range is prolonged over it; a hole starts a new interval.
MergeOne(m, all) ==
  LET cur   == Last(m.iv)
      loop  == Head(m.ls)
      grow(e, rs) == [m EXCEPT !.iv = Append(Front(@), <<cur[1], e>>), !.rs = rs]
      ahead == SelectSeq(m.rs, LAMBDA r : r[2] >= loop[2])
      joins == ahead # <<>> /\ Head(ahead)[1] <= loop[2]
      end   == Last(all.iv)[2]
      hole  == Head(all.rs)[1]
  IN  IF m.ls # <<>> /\ loop[1] <= cur[2]
      THEN IF loop[1] <= cur[1] THEN Crash(m, "loop intersection")
           ELSE IF loop[2] <= cur[2] THEN [m EXCEPT !.ls = Tail(@)]
           ELSE IF joins THEN grow(Head(ahead)[2], Tail(ahead))
           ELSE grow(loop[2], ahead)
      ELSE IF m.ls # <<>> /\ loop[1] < end THEN [m EXCEPT !.iv = all.iv, !.rs = all.rs]
      ELSE IF all.rs = <<>> THEN [m EXCEPT !.iv = all.iv, !.rs = <<>>, !.done = TRUE]
      ELSE IF hole < end \/ (m.ls # <<>> /\ hole >= loop[1]) THEN Crash(m, "hole before loop")
      ELSE [m EXCEPT !.iv = Append(all.iv, Head(all.rs)), !.rs = Tail(all.rs)]

RECURSIVE MergeRanges(_)
MergeRanges(m) == IF m.done \/ m.failed # OK THEN m
                  ELSE MergeRanges(MergeOne(m, MergeTouching(m.iv, m.rs)))

\* LiveInterval::CheckIntervals.
CheckIntervals(iv) ==
  /\ \A n \in DOMAIN iv : iv[n][1] < iv[n][2]
  /\ \A n \in 1 .. Len(iv) - 1 : iv[n][2] < iv[n + 1][1]

FillInterval(rs, ls) ==
  LET start == [iv |-> <<Head(rs)>>, rs |-> Tail(rs), ls |-> ls, done |-> FALSE, failed |-> OK]
      check(m) == IF CheckIntervals(m.iv) THEN m ELSE Crash(m, "CheckIntervals")
  IN  IF ~CheckRanges(rs, ls) THEN Crash(start, "CheckRanges")
      ELSE Then(MergeRanges(start), check)

\* FillIntervalUsepoints.
Usepoints(lns, i) == {lns[u[1]] : u \in ToSet(ir.inst[i].users)}

\* FillIntervals: a value is in insts_live_ranges_ once it has a range.
FillIntervals(lv, lns) ==
  LET seen == {i \in DOMAIN ir.inst : lv.ranges[i] # <<>>}
      join(fill) ==
        LET bad == {i \in seen : fill[i].failed # OK}
        IN  [iv |-> [i \in seen |-> fill[i].iv], use |-> [i \in seen |-> Usepoints(lns, i)],
             failed |-> IF bad = {} THEN OK ELSE fill[CHOOSE i \in bad : TRUE].failed]
  IN  join([i \in seen |-> FillInterval(Reverse(lv.ranges[i]), Reverse(lv.loop_ranges[i]))])

\* The constructor of LivenessAnalysis: an irreducible graph has no intervals.
LivenessAnalysis(la, order) ==
  IF la.reducible
  THEN Then(CalculateLifeRanges(la, order), LAMBDA lv : FillIntervals(lv, LifeNumbers(order)))
  ELSE [iv |-> <<>>, use |-> <<>>, failed |-> OK]
=============================================================================
