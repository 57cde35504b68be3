----------------------------- MODULE Peepholes -----------------------------
(***************************************************************************)
(* Local simplifications (optimizations/peepholes.h): a subtraction, an    *)
(* exclusive or and an arithmetic shift are replaced by something simpler. *)
(*                                                                         *)
(* The pass goes on to the next_ of the instruction it looked at, and      *)
(* replacing an instruction clears its next_: at most one instruction of a *)
(* block is replaced.  Words have WIDTH bits (64 in the code).             *)
(***************************************************************************)
EXTENDS DomTree, Bitwise

CONSTANT WIDTH

ASSUME WidthAssumption == WIDTH \in Nat \ {0} /\ WIDTH % 2 = 0

HALF  == WIDTH \div 2       \* the size of the 32-bit types
WORDS == 2 ^ WIDTH
AllOnes == WORDS - 1
Signed(w) == IF w >= WORDS \div 2 THEN w - WORDS ELSE w

IsConst(g, i) == g.inst[i].op = "CONST"
IsZero(g, i)  == IsConst(g, i) /\ g.inst[i].imm = 0

\* GetSizeInBits; it aborts for the other types.
GetSizeInBits == [INT64 |-> WIDTH, UINT64 |-> WIDTH, FLOAT64 |-> WIDTH, INT32 |-> HALF]

\* GetDownCastType; it aborts for the other types.
GetDownCastType == [INT64 |-> "INT32", UINT64 |-> "UINT32"]

\* inst_->ReplaceWith(New<ConstInst>(inst_->GetType(), imm)).
ReplaceWithConst(g, i, imm) ==
  LET made == New(g, "CONST", g.inst[i].type, imm, 0)
  IN  ReplaceWith(made, i, LastMade(made))

\* A new instruction replaces i and then gets its inputs.
ReplaceWithNew(g, i, op, type, inputs) ==
  LET made == New(g, op, type, 0, Len(inputs))
  IN  Then(ReplaceWith(made, i, LastMade(made)),
           LAMBDA h : SetInputs(h, LastMade(h), inputs))

----------------------------------------------------------------------------
(* Visit<Inst::SUB> *)

\* a - -b is a + b.
SubOfNeg(g, i, i0, i1) ==
  ReplaceWithNew(g, i, "ADD", g.inst[i].type, <<i0, g.inst[i1].inputs[1]>>)

\* -a - b is -(a + b): the sum is put before the negation.
NegOfAdd(g, i, i0, i1) ==
  LET type == g.inst[i].type
      made == New(New(g, "ADD", type, 0, 2), "NEG", type, 0, 1)
      add  == Len(g.inst) + 1
      neg  == add + 1
  IN  Then(ReplaceWith(made, i, neg),
           LAMBDA h : SetInputs(SetInputs(Prepend(h, neg, add), add,
                                          <<g.inst[i0].inputs[1], i1>>), neg, <<add>>))

\* Mutant of VisitSub: the negated left operand loses its sign.
SubDropsSign(g, i, i0, i1) ==
  IF g.inst[i0].op = "NEG"
  THEN ReplaceWithNew(g, i, "ADD", g.inst[i].type, <<g.inst[i0].inputs[1], i1>>)
  ELSE g

VisitSub(g, i, i0, i1) ==
  IF IsConst(g, i0) /\ IsConst(g, i1)
  THEN ReplaceWithConst(g, i, (g.inst[i0].imm - g.inst[i1].imm) % WORDS)
  ELSE IF i0 = i1 THEN ReplaceWithConst(g, i, 0)
  ELSE IF g.inst[i1].op = "NEG" THEN SubOfNeg(g, i, i0, i1)
  ELSE IF g.inst[i0].op = "NEG" THEN NegOfAdd(g, i, i0, i1)
  ELSE IF IsZero(g, i1) THEN ReplaceWith(g, i, i0)
  ELSE IF IsZero(g, i0) THEN ReplaceWithNew(g, i, "NEG", "UNKNOWN", <<i1>>)
  ELSE g

----------------------------------------------------------------------------
(* Visit<Inst::XOR> *)

IsNotOf(g, a, b) == g.inst[a].op = "NOT" /\ g.inst[a].inputs[1] = b

VisitXor(g, i, i0, i1) ==
  IF IsConst(g, i0) /\ IsConst(g, i1)
  THEN ReplaceWithConst(g, i, g.inst[i1].imm ^^ g.inst[i0].imm)
  ELSE IF i0 = i1 THEN ReplaceWithConst(g, i, 0)
  ELSE IF IsNotOf(g, i0, i1) \/ IsNotOf(g, i1, i0) THEN ReplaceWithConst(g, i, AllOnes)
  ELSE IF IsZero(g, i0) THEN ReplaceWith(g, i, i1)
  ELSE g

----------------------------------------------------------------------------
(* Visit<Inst::ASHR> *)

\* A shift by the whole width is undefined; one by more is asserted not to be.
AshrFold(g, i, i0, i1) ==
  LET word == g.inst[i0]
      by   == g.inst[i1].imm
  IN  IF word.type \notin DOMAIN GetSizeInBits THEN Crash(g, "GetSizeInBits")
      ELSE IF by > GetSizeInBits[word.type] THEN Crash(g, "GetSizeInBits() >= GetImm()")
      ELSE IF by >= WIDTH THEN Crash(g, "UNDEFINED")
      ELSE ReplaceWithConst(g, i, (Signed(word.imm) \div 2 ^ by) % WORDS)

\* x << c >> c is a cast to the lower half.
AshrCast(g, i, i0, i1) ==
  IF g.inst[i1].imm # HALF \/ g.inst[i].type \notin DOMAIN GetDownCastType
  THEN Crash(g, "GetDownCastType")
  ELSE ReplaceWithNew(g, i, "CAST", GetDownCastType[g.inst[i].type], <<g.inst[i0].inputs[1]>>)

VisitAshr(g, i, i0, i1) ==
  IF IsConst(g, i0) /\ IsConst(g, i1) THEN AshrFold(g, i, i0, i1)
  ELSE IF IsZero(g, i1) THEN ReplaceWith(g, i, i0)
  ELSE IF IsConst(g, i1) /\ g.inst[i0].op = "SHL" /\ g.inst[i0].inputs[2] = i1
  THEN AshrCast(g, i, i0, i1)
  ELSE g

----------------------------------------------------------------------------
(* The pass *)

\* TryApply.
TryPeephole(g, i) ==
  LET op == g.inst[i].op
      in == g.inst[i].inputs
  IN  IF op = "XOR" THEN VisitXor(g, i, in[1], in[2])
      ELSE IF op = "SUB" THEN VisitSub(g, i, in[1], in[2])
      ELSE IF op = "ASHR" THEN VisitAshr(g, i, in[1], in[2])
      ELSE g

\* The constructor of Peepholes.  A block is left at an instruction that has
\* been taken out of it.
PeepholesIn(g, bb) ==
  LET step(next, i)  == [g |-> next, left |-> next.failed # OK \/ next.inst[i].bb = NULL]
      visit(acc, i) == IF acc.left THEN acc ELSE step(TryPeephole(acc.g, i), i)
  IN  FoldLeft(visit, [g |-> g, left |-> FALSE], g.insts[bb]).g

Peepholes(g, order) ==
  FoldLeft(LAMBDA acc, bb : Then(acc, LAMBDA h : PeepholesIn(h, bb)), g, order)
=============================================================================
