---------------------------- MODULE Instructions ----------------------------
(***************************************************************************)
(* The instructions of the blocks (jit/ir/graph: instructions.h, gen/,     *)
(* basic_block.h, graph.cpp).  An instruction knows its inputs and, so     *)
(* that it can be replaced, its users; both directions must agree.         *)
(*                                                                         *)
(* The chain through User::next_or_inst_ is the sequence users of pairs    *)
(* <<i, k>>: input k of instruction i.  The chains through prev_ and next_ *)
(* are the sequences phis and insts of a block.  An operation takes the    *)
(* instructions g and returns them changed; an assertion that fails, or a  *)
(* null pointer followed, sets failed.                                     *)
(***************************************************************************)
EXTENDS ControlFlow

CONSTANTS MAX_INSTS,        \* bound: instructions of a graph when it is built
          OPCODES,          \* bound: their opcodes; none: blocks stay empty
          IMMS,             \* bound: the immediates of constants
          CALL_ARGS         \* bound: the numbers of arguments of a call

ASSUME InstsAssumption == MAX_INSTS \in Nat /\ IMMS \subseteq Nat /\ CALL_ARGS \subseteq Nat

VARIABLE ir

NIL == 0                    \* nullptr, where an instruction is meant

\* INPUTS_COUNT_ARRAY; the number of a variadic instruction is its own.
INPUTS_COUNT ==
  [CONST |-> 0, PARAMETER |-> 0, CAST |-> 1, RETURN |-> 1, RETURNVOID |-> 0,
   CHECKNULL |-> 1, CHECKBOUNDS |-> 2, GETELEM |-> 2, ADD |-> 2, SUB |-> 2,
   MUL |-> 2, NEG |-> 1, NOT |-> 1, XOR |-> 2, ASHR |-> 2, SHL |-> 2, JMP |-> 2]

IsPhi(g, i)  == g.inst[i].op = "PHI"
HasDst(g, i) == g.inst[i].op \notin {"RETURN", "RETURNVOID", "JMP"}
HasUsers(g, i) == g.inst[i].users # <<>>
Inserted(g)  == {i \in DOMAIN g.inst : g.inst[i].bb # NULL}
Position(s, b) == CHOOSE i \in DOMAIN s : s[i] = b

Crash(g, why) == [g EXCEPT !.failed = why]

\* What comes next, unless an assertion failed.
Then(g, Step(_)) == IF g.failed # OK THEN g ELSE Step(g)

\* Graph::New and the constructors of the instruction classes.
NoInputs(count) == CHOOSE inputs \in [1 .. count -> {NIL}] : TRUE
New(g, op, type, imm, count) ==
  [g EXCEPT !.inst = Append(@, [op |-> op, type |-> type, imm |-> imm,
                                inputs |-> NoInputs(count),
                                users |-> <<>>, bb |-> NULL])]
LastMade(g) == Len(g.inst)

----------------------------------------------------------------------------
(* Inputs and users *)

\* Mutant of SetInput: the input is not told.
SetInputOnly(g, i, k, input) == [g EXCEPT !.inst[i].inputs[k] = input]

\* SetInput and User::AppendUseOf, of an input that is not set yet.
SetInput(g, i, k, input) ==
  IF g.inst[i].inputs[k] # NIL THEN Crash(g, "AppendUseOf")
  ELSE [g EXCEPT !.inst[i].inputs[k] = input,
                 !.inst[input].users = <<<<i, k>>>> \o @]

SetInputs(g, i, inputs) ==
  FoldLeft(LAMBDA acc, k : SetInput(acc, i, k, inputs[k]), g,
           [k \in DOMAIN inputs |-> k])

\* RemoveUser and FindAndRemoveFromChain.
RemoveUser(g, i, user) ==
  IF user \notin ToSet(g.inst[i].users) THEN Crash(g, "RemoveUser")
  ELSE [g EXCEPT !.inst[i].users = Remove(@, user)]

\* ClearInputs: the inputs forget the instruction, which keeps its inputs_.
ClearInputs(g, i) ==
  FoldLeft(LAMBDA acc, k : RemoveUser(acc, acc.inst[i].inputs[k], <<i, k>>), g,
           [k \in DOMAIN g.inst[i].inputs |-> k])

\* User::SetInput of every user in users.
Redirect(g, users, new) ==
  FoldLeft(LAMBDA acc, u : [acc EXCEPT !.inst[u[1]].inputs[u[2]] = new], g, users)

\* Mutant of ReplaceUsersTo: the users of the replacement are overwritten.
OverwriteUsers(g, i, new) ==
  [Redirect(g, g.inst[i].users, new) EXCEPT !.inst[new].users = g.inst[i].users]

\* ReplaceUsersTo: the users get the new input and head its chain.  An
\* instruction that is its own input aborts (User::SetInput).
ReplaceUsersTo(g, i, new) ==
  LET users == g.inst[i].users
  IN  IF \E u \in ToSet(users) : u[1] = i THEN Crash(g, "User::SetInput")
      ELSE [Redirect(g, users, new) EXCEPT !.inst[new].users = users \o @]

----------------------------------------------------------------------------
(* Places in a block *)

PushBack(g, bb, i) ==
  [g EXCEPT !.insts[bb] = Append(@, i), !.inst[i].bb = bb]

PushPhi(g, bb, i) ==
  [g EXCEPT !.phis[bb] = Append(@, i), !.inst[i].bb = bb]

\* ReplaceInBB(nullptr).
RemoveFromBB(g, i) ==
  [g EXCEPT !.insts[g.inst[i].bb] = Remove(@, i), !.inst[i].bb = NULL]

\* ReplaceInBB: a new instruction takes the place; one that is in a block
\* already stays there.  The first and the last instruction of a block have a
\* null neighbour, which is followed when a new one takes the place.
ReplaceInBB(g, i, new) ==
  LET bb == g.inst[i].bb
  IN  IF IsPhi(g, i) THEN Crash(g, "ReplaceInBB")
      ELSE IF g.inst[new].bb # NULL THEN RemoveFromBB(g, i)
      ELSE IF i \in {Head(g.insts[bb]), Last(g.insts[bb])}
      THEN Crash(g, "neighbour")
      ELSE [g EXCEPT !.insts[bb] = ReplaceAll(@, i, new),
                     !.inst[i].bb = NULL, !.inst[new].bb = bb]

\* Prepend: it follows prev_ before it looks whether there is one.
Prepend(g, i, new) ==
  LET bb == g.inst[i].bb
  IN  IF i = Head(g.insts[bb]) THEN Crash(g, "neighbour")
      ELSE [g EXCEPT !.insts[bb] = InsertAt(@, Position(@, i), new),
                     !.inst[new].bb = bb]

\* ReplaceWith(nullptr), and ReplaceWith of an instruction.
Discard(g, i) == RemoveFromBB(ClearInputs(g, i), i)

ReplaceWith(g, i, new) ==
  Then(ReplaceInBB(ClearInputs(g, i), i, new), LAMBDA h : ReplaceUsersTo(h, i, new))

----------------------------------------------------------------------------
(* The builder (gen/graph_ctor.h) *)

NoInstructions ==
  [inst |-> <<>>, phis |-> [b \in BlockIds |-> <<>>],
   insts |-> [b \in BlockIds |-> <<>>], failed |-> OK]

\* The constructor macros: a new instruction gets its inputs and is appended.
AppendInst(g, bb, op, type, imm, inputs) ==
  LET made == New(g, op, type, imm, Len(inputs))
  IN  PushBack(SetInputs(made, LastMade(made), inputs), bb, LastMade(made))

AppendPhi(g, bb) ==
  LET made == New(g, "PHI", "UNKNOWN", 0, Len(preds[bb]))
  IN  PushPhi(made, bb, LastMade(made))
=============================================================================
