-------------------------- MODULE MCOptimizations --------------------------
(***************************************************************************)
(* The optimisations for model checking, in three settings: arithmetic in  *)
(* one or two blocks, checks in graphs with a branch or a loop, and calls  *)
(* of some callees.                                                        *)
(***************************************************************************)
EXTENDS Optimizations

\* The successors of the blocks 1, 2, ... of a graph.
Single    == <<<<0>>>>
Line      == <<<<2>>, <<0>>>>
Diamond   == <<<<2, 3>>, <<4>>, <<4>>, <<0>>>>
Fork      == <<<<2, 3>>, <<0>>, <<0>>>>
WhileLoop == <<<<2>>, <<3, 4>>, <<2>>, <<0>>>>

Inst(op, imm, inputs) == [op |-> op, imm |-> imm, inputs |-> inputs]
Block(to, insts) == [succs |-> to, insts |-> insts]
Param == Inst("PARAMETER", 0, <<>>)
Ret(i) == Inst("RETURN", 0, <<i>>)

CalleeIdentity == <<Block(<<0>>, <<Param, Ret(1)>>)>>
CalleeConst    == <<Block(<<0>>, <<Inst("CONST", 1, <<>>), Ret(1)>>)>>
CalleeVoid     == <<Block(<<0>>, <<Inst("RETURNVOID", 0, <<>>)>>)>>
CalleeSub      == <<Block(<<0>>, <<Param, Param, Inst("SUB", 0, <<1, 2>>), Ret(3)>>)>>
CalleeCheck    == <<Block(<<2>>, <<Param, Inst("CHECKNULL", 0, <<1>>)>>),
                    Block(<<0>>, <<Inst("CHECKNULL", 0, <<1>>), Ret(3)>>)>>
CalleeEither   == <<Block(<<2, 3>>, <<Param, Inst("NEG", 0, <<1>>)>>),
                    Block(<<0>>, <<Ret(1)>>), Block(<<0>>, <<Ret(2)>>)>>
CalleeMixed    == <<Block(<<2, 3>>, <<Param>>), Block(<<0>>, <<Ret(1)>>),
                    Block(<<0>>, <<Inst("RETURNVOID", 0, <<>>)>>)>>
CalleeEndless  == <<Block(<<2>>, <<Param>>), Block(<<3>>, <<>>), Block(<<2>>, <<>>)>>
CalleeNested   == <<Block(<<0>>, <<Inst("CALL", 0, <<>>), Ret(1)>>)>>

Callees == {CalleeIdentity, CalleeConst, CalleeVoid, CalleeSub, CalleeCheck,
            CalleeEither, CalleeMixed, CalleeEndless, CalleeNested}

\* The opcodes and the number of instructions of each setting.
Arithmetic == {"PARAMETER", "CONST", "SUB", "XOR", "ASHR", "SHL", "NEG", "NOT", "RETURN"}
Checks     == {"PARAMETER", "CHECKNULL", "CHECKBOUNDS", "GETELEM", "RETURNVOID"}
Calls      == {"PARAMETER", "CALL", "PHI", "RETURN"}
Settings ==
  {[shape |-> Single, callee |-> <<>>, ops |-> Arithmetic, size |-> 5],
   [shape |-> Line, callee |-> <<>>, ops |-> Arithmetic, size |-> 4],
   [shape |-> Diamond, callee |-> <<>>, ops |-> Checks, size |-> 5],
   [shape |-> WhileLoop, callee |-> <<>>, ops |-> Checks, size |-> 5]}
  \cup {[shape |-> s, callee |-> c, ops |-> Calls, size |-> 4]
        : s \in {Single, Diamond, Fork}, c \in Callees}

SuccsOf(shape) == [b \in BlockIds |-> IF b \in DOMAIN shape THEN shape[b] ELSE <<>>]
PredsOf(shape) ==
  [b \in BlockIds |-> SelectSeq([n \in DOMAIN shape |-> n],
                                LAMBDA n : b \in ToSet(shape[n]))]

\* The setting of a graph that is being built.
Setting == CHOOSE s \in Settings : s.callee = callee /\ SuccsOf(s.shape) = succs

MCInit ==
  /\ \E s \in Settings : /\ succs = SuccsOf(s.shape) /\ preds = PredsOf(s.shape)
                         /\ callee = s.callee
  /\ ir = NoInstructions
  /\ rpo = <<>> /\ idoms = <<>> /\ la = <<>> /\ linear_order = <<>>
  /\ intervals = <<>> /\ locations = <<>>
  /\ passes = <<>> /\ meant = <<>> /\ failed = OK

\* Bounds: the entry block has the first instruction; parameters and constants,
\* at most two and one of them a parameter, come first, in the order of their
\* immediates; arithmetic goes on with what it computed last.
Leaves == {"PARAMETER", "CONST"}
WithinSetting(setting, insts, missing) ==
  LET n   == Len(insts)
      new == Last(insts)
  IN  /\ n = 1 => new.bb = ENTRY_BLOCK_IDX
      /\ n + missing <= setting.size /\ new.op \in setting.ops
      /\ new.op \in Leaves => n = 1 \/ (n = 2 /\ insts[1].op \in Leaves)
      /\ new.op \in Leaves /\ n = 2 => new.op = "CONST" /\ insts[1].imm <= new.imm
      /\ setting.ops = Arithmetic /\ n > 1 /\ insts[n - 1].op \notin Leaves =>
           n - 1 \in ToSet(new.inputs)

MCNext ==
  /\ OptNext
  /\ Len(ir'.inst) > Len(ir.inst) /\ passes' = passes =>
       WithinSetting(Setting, ir'.inst, Cardinality(Open'))

MCSpec == MCInit /\ [][MCNext]_optVars
=============================================================================
