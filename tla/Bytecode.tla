------------------------------ MODULE Bytecode ------------------------------
(***************************************************************************)
(* The operand of an instruction: one unsigned byte that holds two near    *)
(* registers, one far register or an immediate (BytecodeInstruction, and   *)
(* the masks of InstDecoder).                                              *)
(***************************************************************************)
EXTENDS Integers

\* Registers that half an operand can name: 16 in the code, whose masks and
\* shift take a byte apart into two halves of 4 bits.
CONSTANT NEAR

ASSUME NearAssumption == NEAR \in Nat \ {0} /\ NEAR % 2 = 0

POOL_SIZE == NEAR * NEAR    \* CONSTANT_POOL_SIZE: one entry per immediate
Byte      == 0 .. POOL_SIZE - 1

\* Mutant of Unsigned: a negative number stays what it is.
Uncut(n) == n

\* Conversions to uint8_t and int8_t.
Unsigned(n) == n % POOL_SIZE
Signed(n)   == LET u == Unsigned(n)
               IN  IF 2 * u >= POOL_SIZE THEN u - POOL_SIZE ELSE u

\* Masks and the shift of the near registers.
FirstNear(byte)  == byte % NEAR
SecondNear(byte) == byte \div NEAR

\* Mutant of EncodeNear: the registers change places.
EncodeNearSwapped(op1, op2) == Unsigned(op1 * NEAR) + op2

\* AsmEncoder::Encode of two near registers: the shift drops the high bits of
\* the second one.
EncodeNear(op1, op2) == Unsigned(op2 * NEAR) + op1
=============================================================================
