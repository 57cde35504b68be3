--------------------------- MODULE Optimizations ---------------------------
(***************************************************************************)
(* The optimisations of a graph (ApplyPeepholes, ApplyChecksElimination    *)
(* and ApplyInlining of graph.cpp), one after the other, on graphs that    *)
(* the builder made and the analyses went through.                         *)
(***************************************************************************)
EXTENDS JitAnalyses, Peepholes, ChecksElimination, Inlining

CONSTANT MAX_PASSES         \* bound: optimisations of one graph

ASSUME PassesAssumption == MAX_PASSES \in Nat

VARIABLES passes,           \* the optimisations applied, for the bound
          meant             \* history: what the graph computed before them

optVars == <<vars, callee, passes, meant>>

----------------------------------------------------------------------------
(* Reference: what a graph computes.  A check ends the function when it    *)
(* fails; what it and an element of an array yield is a function of the    *)
(* inputs.  A block with two successors goes where dir says.               *)

Value(v) == <<"value", v>>
TRAP == <<"trap", 0>>
VOID == <<"void", 0>>
LOST == <<"no return", 0>>

Eval(inst, in) ==
  CASE inst.op = "CONST" -> inst.imm
    [] inst.op = "ADD"  -> (in[1] + in[2]) % WORDS
    [] inst.op = "SUB"  -> (in[1] - in[2]) % WORDS
    [] inst.op = "NEG"  -> (0 - in[1]) % WORDS
    [] inst.op = "NOT"  -> AllOnes - in[1]
    [] inst.op = "XOR"  -> in[1] ^^ in[2]
    [] inst.op = "SHL"  -> (in[1] * 2 ^ in[2]) % WORDS
    [] inst.op = "ASHR" -> (Signed(in[1]) \div 2 ^ in[2]) % WORDS
    [] inst.op = "CAST" -> LET low == in[1] % 2 ^ HALF
                           IN  IF low >= 2 ^ (HALF - 1) THEN (low - 2 ^ HALF) % WORDS ELSE low
    [] inst.op = "CHECKNULL"   -> in[1]
    [] inst.op = "CHECKBOUNDS" -> in[2]
    [] inst.op = "GETELEM"     -> (in[1] + in[2]) % WORDS
Fails(inst, in) == \/ inst.op = "CHECKNULL" /\ in[1] = 0
                   \/ inst.op = "CHECKBOUNDS" /\ in[2] >= in[1]

\* What an instruction yields; f.called says it for calls.
Yield(f, inst, in) ==
  CASE Fails(inst, in)        -> TRAP
    [] inst.op = "RETURN"     -> Value(in[1])
    [] inst.op = "RETURNVOID" -> VOID
    [] inst.op = "CALL"       -> f.called[in]
    [] OTHER                  -> Value(Eval(inst, in))

\* One instruction of the graph f.g, f.succs, f.preds: at holds the values env
\* and, once ended, the result.
Execute(f, at, i) ==
  LET inst == f.g.inst[i]
      r    == Yield(f, inst, [k \in DOMAIN inst.inputs |-> at.env[inst.inputs[k]]])
  IN  IF at.ended \/ inst.op = "PARAMETER" THEN at
      ELSE IF ~HasDst(f.g, i) \/ r \in {TRAP, LOST}
      THEN [at EXCEPT !.ended = TRUE, !.result = r]
      ELSE [at EXCEPT !.env[i] = r[2]]

\* The block at.bb, entered from at.prev, and the way to the next one.
ExecuteBlock(f, at) ==
  LET phi(env, i) ==
        [env EXCEPT ![i] = at.env[f.g.inst[i].inputs[Position(f.preds[at.bb], at.prev)]]]
      entered == [at EXCEPT !.env = FoldLeft(phi, @, f.g.phis[at.bb])]
      ways == f.succs[at.bb]
      left == FoldLeft(LAMBDA acc, i : Execute(f, acc, i), entered, f.g.insts[at.bb])
  IN  IF at.ended \/ ways = <<>> THEN at
      ELSE [left EXCEPT !.prev = at.bb, !.bb = ways[IF f.dir THEN 1 ELSE Len(ways)]]

\* The parameters are those of the entry block; an argument left out is 0.
\* Branches always go the same way: who needs more steps than there are blocks
\* never returns.
Run(f, args) ==
  LET params == SelectSeq(f.g.insts[ENTRY_BLOCK_IDX], LAMBDA i : f.g.inst[i].op = "PARAMETER")
      value(i) == IF \E n \in DOMAIN args : n <= Len(params) /\ params[n] = i
                  THEN args[Position(params, i)] ELSE 0
      start == [bb |-> ENTRY_BLOCK_IDX, prev |-> NULL, ended |-> FALSE, result |-> LOST,
                env |-> FoldLeft(LAMBDA env, i : Append(env, value(i)), <<>>,
                                 [i \in DOMAIN f.g.inst |-> i])]
  IN  FoldLeft(LAMBDA at, n : ExecuteBlock(f, at), start, [n \in 1 .. MAX_BLOCKS |-> n]).result

Args == UNION {[1 .. n -> 0 .. AllOnes] : n \in CALL_ARGS}
Called(dir) ==
  LET built == BuildCallee(NoInstructions, END_BLOCK_IDX, callee)
      f     == [g |-> built.g, succs |-> built.succs, preds |-> built.preds, dir |-> dir,
                called |-> [in \in Args |-> VOID]]
  IN  [in \in Args |-> IF callee = <<>> THEN VOID ELSE Run(f, in)]

\* What the graph returns for each argument, when branches go where dir says.
Meaning == [dir \in BOOLEAN |->
  LET f == [g |-> ir, succs |-> succs, preds |-> preds, dir |-> dir, called |-> Called(dir)]
  IN  [arg \in 0 .. AllOnes |-> Run(f, <<arg>>)]]

----------------------------------------------------------------------------
(* The optimisations *)

Complete == Filling /\ Returned /\ PhisComplete

\* A pass looks for instructions with an opcode of ops.  A graph without one is
\* left as it is: that pass is left out.
Pass(name, ops) ==
  /\ Complete /\ Len(passes) < MAX_PASSES
  /\ \E i \in Inserted(ir) : ir.inst[i].op \in ops
  /\ passes' = Append(passes, name) /\ UNCHANGED callee
  /\ meant' = IF passes = <<>> THEN Meaning ELSE meant

\* The instructions after a pass, or the end of the process.
Leave(g) == IF g.failed # OK THEN failed' = g.failed /\ UNCHANGED ir
                             ELSE ir' = g /\ UNCHANGED failed

ApplyPeepholes ==
  /\ Pass("peepholes", {"SUB", "XOR", "ASHR"})
  /\ Leave(Peepholes(ir, rpo))
  /\ UNCHANGED <<succs, preds, results>>

ApplyChecksElimination ==
  /\ Pass("checks", CHECKS)
  /\ Leave(EliminateChecks(ir, rpo, idoms))
  /\ UNCHANGED <<succs, preds, results>>

\* Inlining adds blocks to the vector it goes through.  When more of the old
\* ones are left, it reads on in the memory the vector had: they are still
\* there, or it is something else by now.  What the analyses found is out of
\* date; they are called again (tests/hw_7.h).
ApplyInlining ==
  /\ callee # <<>> /\ "inlining" \notin ToSet(passes)
  /\ Pass("inlining", {"CALL"})
  /\ LET count == Cardinality(Blocks)
     IN  \E st \in {InlineCalls(ir, count)} :
         \/ /\ st.lastAt # NULL /\ st.lastAt < count - 1
            /\ failed' = "UNDEFINED"
            /\ UNCHANGED <<succs, preds, ir, results>>
         \/ /\ st.lastAt # NULL /\ st.g.failed # OK
            /\ failed' = st.g.failed
            /\ UNCHANGED <<succs, preds, ir, results>>
         \/ /\ st.lastAt # NULL /\ st.g.failed = OK
            /\ succs' = st.succs /\ preds' = st.preds /\ ir' = st.g
            /\ rpo' = <<>> /\ idoms' = <<>> /\ la' = <<>>
            /\ UNCHANGED <<linear_order, intervals, locations, failed>>
         \/ /\ st.lastAt = NULL
            /\ UNCHANGED <<succs, preds, ir, results, failed>>

Analyze == /\ BuildRPO \/ BuildDomTree \/ AnalyzeLoops
           /\ UNCHANGED <<callee, passes, meant>>

\* The builder is done when the first optimisation is applied.
Fill == /\ passes = <<>>
        /\ PutInst \/ PutPhi \/ SetPhiInput
        /\ UNCHANGED <<callee, passes, meant>>

\* A complete graph may be left as it is, or the process is gone.
OptDone == (failed # OK \/ Complete) /\ UNCHANGED optVars

\* The blocks are wired; a run says how, and what the callee is.
OptNext == \/ Analyze \/ Fill
           \/ ApplyPeepholes \/ ApplyChecksElimination \/ ApplyInlining
           \/ OptDone

----------------------------------------------------------------------------
(* Properties *)

Optimized == passes # <<>> /\ failed = OK

\* An optimisation does not change what a graph computes: the value returned,
\* that nothing is returned, or that a check fails (peepholes.h folds and
\* rewrites, checks_elimination.h drops checks, inlining.h moves a body).
SameResult == Optimized => Meaning = meant

\* The chain of users of an instruction holds exactly the inputs, of
\* instructions in blocks, that are it: ReplaceUsersTo relies on this, and an
\* instruction taken out of its block is used by nothing (instructions.h).
UsersMirrorInputs ==
  \A i \in Inserted(ir) :
    /\ IsInjective(ir.inst[i].users)
    /\ ToSet(ir.inst[i].users) =
         UNION {{<<j, k>> : k \in {n \in DOMAIN ir.inst[j].inputs : ir.inst[j].inputs[n] = i}}
                : j \in Inserted(ir)}
    /\ ToSet(ir.inst[i].inputs) \subseteq Inserted(ir) \cup {NIL}

\* After an optimisation a block is among the predecessors of each of its
\* successors, once, and a phi has an input for every predecessor: splitting a
\* block moves its edges (basic_block.h), and the order of the predecessors
\* is the order of the inputs.
BlocksLinked ==
  Optimized =>
    \A b \in Blocks :
      /\ IsInjective(preds[b])
      /\ ToSet(preds[b]) = {p \in Blocks : b \in ToSet(succs[p])}
      /\ \A phi \in ToSet(ir.phis[b]) : Len(ir.inst[phi].inputs) = Len(preds[b])

\* a comes before b on every path to b, by the paths of the graph.
Before(dom, a, b) ==
  LET x == ir.inst[a].bb
      y == ir.inst[b].bb
  IN  IF x # y THEN <<x, y>> \in dom
      ELSE IsPhi(ir, a) \/ Position(ir.insts[x], a) < Position(ir.insts[x], b)

\* After an optimisation a value is still defined on every path to its use,
\* or, as the input of a phi, on every path through its predecessor.
UsesDominated ==
  Optimized =>
    LET dom == Dominance
        arrives(v, p) == ir.inst[v].bb = p \/ <<ir.inst[v].bb, p>> \in dom
    IN  \A i \in Inserted(ir) : \A k \in DOMAIN ir.inst[i].inputs :
          LET v == ir.inst[i].inputs[k]
          IN  IF IsPhi(ir, i) THEN arrives(v, preds[ir.inst[i].bb][k])
                              ELSE Before(dom, v, i)

\* When checks were eliminated no check is left that an equal one comes
\* before on every path.
NoCheckTwice ==
  Optimized /\ Last(passes) = "checks" =>
    LET dom    == Dominance
        checks == {i \in Inserted(ir) : ir.inst[i].op \in CHECKS}
    IN  \A a, b \in checks : a # b /\ SameCheck(ir, a, b) => ~Before(dom, a, b)

\* Optimising aborts when a new instruction is to replace one that is first
\* or last in its block (graph.cpp follows its null neighbour), when constants
\* are shifted whose type has no size or by more than that size, when a pair of
\* shifts has no narrower type, and when calls are inlined
\* in more than one block, into a callee with calls itself, without an
\* argument it takes, where its value is used and a return has none, or where
\* it never returns.  The users and inputs of instructions always agree.
OptimizationsGiveUp ==
  LET calls   == {i \in Inserted(ir) : ir.inst[i].op = "CALL"}
      atEdge(i) == LET list == ir.insts[ir.inst[i].bb] IN i \in {Head(list), Last(list)}
      inCallee(op) == \E b \in DOMAIN callee : \E n \in DOMAIN callee[b].insts :
                        callee[b].insts[n].op = op
      takes   == IF callee = <<>> THEN 0
                 ELSE Len(SelectSeq(callee[1].insts, LAMBDA e : e.op = "PARAMETER"))
  IN  passes # <<>> =>
        /\ failed = "neighbour" =>
             \E i \in Inserted(ir) : ir.inst[i].op \in {"SUB", "XOR", "ASHR"} /\ atEdge(i)
        /\ failed \in {"GetSizeInBits", "GetSizeInBits() >= GetImm()", "GetDownCastType"} =>
             \E i \in Inserted(ir) :
               ir.inst[i].op = "ASHR" /\ IsConst(ir, ir.inst[i].inputs[2])
        /\ failed = "GetEntryBlock" => Cardinality({ir.inst[i].bb : i \in calls}) > 1
        /\ failed = "GRAPH == graph_" => inCallee("CALL")
        /\ failed = "IsReturn" => inCallee("RETURNVOID")
        /\ failed = "Preds().size() >= 1" =>
             \A b \in DOMAIN callee : END_BLOCK_IDX \notin ToSet(callee[b].succs)
        /\ failed = "GetInput" => \E i \in calls : Len(ir.inst[i].inputs) < takes
        /\ failed \notin {"AppendUseOf", "RemoveUser", "User::SetInput", "ReplaceInBB"}
=============================================================================
