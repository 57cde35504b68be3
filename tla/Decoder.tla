------------------------------ MODULE Decoder ------------------------------
(***************************************************************************)
(* Decoding an instruction and choosing its overload by the types the      *)
(* accumulator and the registers hold (InstDecoder::DecodeAndResolve,      *)
(* Interpreter::CheckRegsType), with the table of isa/isa.yaml.  A frame   *)
(* has as many registers as a near operand can name.                       *)
(***************************************************************************)
EXTENDS Bytecode, Sequences

VARIABLES opcode,                  \* dispatched, or FETCH
          source,                  \* the operands as the assembler got them
          acc, regs,               \* types held when the instruction is fetched
          register_operands_idx, immediate_operand,
          overload                 \* the overload taken, or NO_OVERLOAD

vars == <<opcode, source, acc, regs, register_operands_idx,
          immediate_operand, overload>>

\* What a register can hold: nothing ever makes a NIL.
Type == {"NUM", "ARR", "STR", "OBJ", "FUNC", "ANY"}
Regs == 0 .. NEAR - 1

\* An overload: the type asked of the accumulator ("" when it is no input) and
\* the types asked of the operand registers.
In(a, rs) == [acc |-> a, regs |-> rs]

\* Opcodes that share signature and overloads go under the first one's name:
\* JUMP, LDAI; BLE, BLT, BGE, BNE; RET; STNULL, GETTHIS, GETARG0, GETARG1;
\* SUB, MUL, DIV, MOD; SUB2, DIV2, MUL2; DECA; LDA, DUMP, SETRET0;
\* SETARG0, SETARG1.
Signature ==
  [JUMP |-> "i8", BLE |-> "i8", CALL |-> "opc", RET |-> "opc",
   STNULL |-> "r8", LDA |-> "r8", STA |-> "r8", MOV |-> "r4_r4",
   ADD |-> "r4_r4", SUB |-> "r4_r4", ADD2 |-> "r8", SUB2 |-> "r8",
   DECA |-> "opc", NEWARR |-> "r8", SETELEM |-> "r4_r4",
   GETELEM |-> "r4_r4", DUMPA |-> "opc", SETARG |-> "r8", GETRET0 |-> "r8"]
Overloads ==
  [JUMP    |-> <<In("", <<>>)>>,
   BLE     |-> <<In("NUM", <<>>)>>,
   CALL    |-> <<In("FUNC", <<>>)>>,
   RET     |-> <<In("", <<>>)>>,
   STNULL  |-> <<In("", <<>>)>>,
   LDA     |-> <<In("", <<"ANY">>)>>,
   STA     |-> <<In("ANY", <<>>)>>,
   MOV     |-> <<In("", <<"ANY">>)>>,
   ADD     |-> <<In("", <<"NUM", "NUM">>), In("", <<"STR", "STR">>)>>,
   SUB     |-> <<In("", <<"NUM", "NUM">>)>>,
   ADD2    |-> <<In("NUM", <<"NUM">>), In("STR", <<"STR">>),
                 In("ARR", <<"NUM">>)>>,
   SUB2    |-> <<In("NUM", <<"NUM">>), In("ARR", <<"NUM">>)>>,
   DECA    |-> <<In("NUM", <<>>)>>,
   NEWARR  |-> <<In("", <<"NUM">>)>>,
   SETELEM |-> <<In("ANY", <<"ARR", "NUM">>), In("ANY", <<"OBJ", "STR">>)>>,
   GETELEM |-> <<In("", <<"ARR", "NUM">>), In("", <<"OBJ", "STR">>)>>,
   DUMPA   |-> <<In("ANY", <<>>)>>,
   SETARG  |-> <<In("FUNC", <<"ANY">>)>>,
   GETRET0 |-> <<In("FUNC", <<>>)>>]
Opcodes == DOMAIN Overloads
NO_OVERLOAD == 0
FETCH == "FETCH"

----------------------------------------------------------------------------
Holds(asked, held) == asked = "ANY" \/ held = asked

\* CheckRegsType: the recursion over the registers ends at the last one, whose
\* type it does not look at.
CheckRegsType(asked, idx) ==
  \A k \in 1 .. Len(asked) - 1 : Holds(asked[k], regs'[idx[k]])

\* Mutant of CheckRegsTypeWithAcc: the accumulator is not looked at.
CheckRegsTypeOnly(o, idx) == CheckRegsType(o.regs, idx)

CheckRegsTypeWithAcc(o, idx) ==
  /\ o.acc # "" => Holds(o.acc, acc')
  /\ CheckRegsType(o.regs, idx)

\* The operand the assembler encodes for the registers or the immediate src.
EncodedOperands(sig, src) ==
  CASE sig = "r4_r4" -> EncodeNear(src[1], src[2])
    [] sig = "opc"   -> 0
    [] OTHER         -> Unsigned(src[1])

\* The operands the decoder keeps: what an instruction does not have stays
\* what the one before it left.
DecodeOperands(sig, byte) ==
  /\ register_operands_idx' =
       CASE sig = "r4_r4" -> <<FirstNear(byte), SecondNear(byte)>>
         [] sig = "r8"    -> [register_operands_idx EXCEPT ![1] = byte]
         [] OTHER         -> register_operands_idx
  /\ immediate_operand' = IF sig = "i8" THEN byte ELSE immediate_operand

\* DecodeAndResolve of the next instruction, whichever it is and whatever the
\* registers hold by then.  The first overload that is found to fit is taken.
DecodeAndResolve ==
  /\ opcode = FETCH
  /\ \E op \in Opcodes, a \in Type, rs \in [Regs -> Type],
        src \in Byte \X Byte :
       LET sig == Signature[op]
           fit == {k \in DOMAIN Overloads[op] :
                     CheckRegsTypeWithAcc(Overloads[op][k],
                                          register_operands_idx')}
       IN  /\ sig = "r4_r4" => src[1] \in Regs  \* asserted by the assembler
           /\ opcode' = op /\ acc' = a /\ regs' = rs /\ source' = src
           /\ DecodeOperands(sig, EncodedOperands(sig, src))
           /\ overload' = IF fit = {} THEN NO_OVERLOAD
                          ELSE CHOOSE k \in fit : \A j \in fit : k <= j

\* The handler runs.  What it leaves in the registers is chosen when the next
\* instruction is fetched.
Handle ==
  /\ opcode # FETCH /\ overload # NO_OVERLOAD
  /\ opcode' = FETCH /\ source' = <<0, 0>> /\ overload' = NO_OVERLOAD
  /\ acc' = "ANY" /\ regs' = [r \in Regs |-> "ANY"]
  /\ UNCHANGED <<register_operands_idx, immediate_operand>>

\* LOG_FATAL: no overload fits.
Aborted == opcode # FETCH /\ overload = NO_OVERLOAD /\ UNCHANGED vars

\* The operands are not initialised: any.
Init ==
  /\ opcode = FETCH /\ source = <<0, 0>> /\ overload = NO_OVERLOAD
  /\ acc = "ANY" /\ regs = [r \in Regs |-> "ANY"]
  /\ register_operands_idx \in Byte \X Byte
  /\ immediate_operand \in Byte

Next == DecodeAndResolve \/ Handle \/ Aborted
Spec == Init /\ [][Next]_vars

----------------------------------------------------------------------------
\* What the source named is what the handler of the instruction uses.  A near
\* second register has to be one of the frame: the assembler asserts that of
\* the first one only.
OperandsKept ==
  opcode # FETCH =>
    CASE Signature[opcode] = "r4_r4" ->
           source[2] \in Regs => register_operands_idx = source
      [] Signature[opcode] = "r8"    -> register_operands_idx[1] = source[1]
      [] Signature[opcode] = "i8"    -> immediate_operand = source[1]
      [] OTHER                       -> TRUE

\* The inputs of an overload are as the table asks.
Fits(o) ==
  /\ o.acc # "" => Holds(o.acc, acc)
  /\ \A k \in DOMAIN o.regs :
       register_operands_idx[k] \in Regs =>
         Holds(o.regs[k], regs[register_operands_idx[k]])

\* Operands that some overload is for reach an overload that is for them,
\* although the last register is not compared.
WellTypedDispatched ==
  /\ opcode # FETCH
  /\ \E k \in DOMAIN Overloads[opcode] : Fits(Overloads[opcode][k])
  => overload # NO_OVERLOAD /\ Fits(Overloads[opcode][overload])
=============================================================================
