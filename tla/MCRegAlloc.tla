----------------------------- MODULE MCRegAlloc -----------------------------
(***************************************************************************)
(* The analyses for model checking on graphs of chosen shapes, so that the *)
(* states go into what their blocks compute: liveness analysis and         *)
(* register allocation.                                                    *)
(***************************************************************************)
EXTENDS JitAnalyses

\* The successors of the blocks 1, 2, ... of a graph.
Line       == <<<<2>>, <<0>>>>
Diamond    == <<<<2, 3>>, <<4>>, <<4>>, <<0>>>>
Triangle   == <<<<2, 3>>, <<3>>, <<0>>>>
WhileLoop  == <<<<2>>, <<3, 4>>, <<2>>, <<0>>>>
DoLoop     == <<<<2>>, <<3>>, <<4, 2>>, <<0>>>>
SideExit   == <<<<2>>, <<3, 4>>, <<2, 4>>, <<0>>>>
NestedLoop == <<<<2>>, <<3, 6>>, <<4, 5>>, <<3>>, <<2>>, <<0>>>>
GuardedLoop == <<<<2, 3>>, <<0>>, <<4, 5>>, <<3>>, <<0>>>>
TwoEntries  == <<<<2, 3>>, <<3>>, <<2, 4>>, <<0>>>>
EndlessLoop == <<<<2, 3>>, <<0>>, <<4>>, <<3>>>>

Shapes == {Line, Diamond, Triangle, WhileLoop, DoLoop, SideExit, NestedLoop,
           GuardedLoop, EndlessLoop, TwoEntries}

SuccsOf(shape) == [b \in BlockIds |-> IF b \in DOMAIN shape THEN shape[b] ELSE <<>>]
PredsOf(shape) ==
  [b \in BlockIds |-> SelectSeq([n \in DOMAIN shape |-> n],
                                LAMBDA n : b \in ToSet(shape[n]))]

ShapesInit ==
  /\ \E shape \in Shapes : succs = SuccsOf(shape) /\ preds = PredsOf(shape)
  /\ ir = NoInstructions
  /\ rpo = <<>> /\ idoms = <<>> /\ la = <<>> /\ linear_order = <<>>
  /\ intervals = <<>> /\ locations = <<>>
  /\ failed = OK

ShapesSpec == ShapesInit /\ [][Next]_vars
=============================================================================
