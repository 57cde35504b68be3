--------------------------- MODULE DecoderProofs ---------------------------
(***************************************************************************)
(* Decoding for every width of the operand: the operands arrive as the     *)
(* source named them, and the first overload found to fit is the one that  *)
(* fits, although the last register is never compared.                     *)
(***************************************************************************)
EXTENDS Decoder, TLAPS

----------------------------------------------------------------------------
(* Arithmetic of the operand *)

\* A pair of digits to the base m is taken apart by division.
LEMMA DivMod ==
  ASSUME NEW m \in Nat \ {0}, NEW q \in Nat, NEW r \in 0 .. m - 1
  PROVE  (q * m + r) % m = r /\ (q * m + r) \div m = q
  OBVIOUS

LEMMA DigitFits ==
  ASSUME NEW m \in Nat \ {0}, NEW q \in 0 .. m - 1
  PROVE  q * m \in 0 .. m * m - 1
  OBVIOUS

LEMMA ModRange ==
  ASSUME NEW m \in Nat \ {0}, NEW n \in Int
  PROVE  /\ n % m \in 0 .. m - 1
         /\ n \in 0 .. m - 1 => n % m = n
  OBVIOUS

LEMMA PoolSize == POOL_SIZE \in Nat \ {0}
  BY NearAssumption DEF POOL_SIZE

\* What fits in the operand is not changed by the conversion.
LEMMA UnsignedByte ==
  ASSUME NEW n \in Byte
  PROVE  Unsigned(n) = n
  BY PoolSize, ModRange DEF Unsigned, Byte

\* Two near registers survive packing.
LEMMA NearSurvives ==
  ASSUME NEW op1 \in Regs, NEW op2 \in Regs
  PROVE  /\ FirstNear(EncodeNear(op1, op2)) = op1
         /\ SecondNear(EncodeNear(op1, op2)) = op2
  <1>1. NEAR \in Nat \ {0} /\ op1 \in 0 .. NEAR - 1 /\ op2 \in 0 .. NEAR - 1
    BY NearAssumption DEF Regs
  <1>2. op2 * NEAR \in Byte
    BY <1>1, DigitFits DEF Byte, POOL_SIZE
  <1>3. EncodeNear(op1, op2) = op2 * NEAR + op1
    BY <1>2, UnsignedByte DEF EncodeNear
  <1>4. op2 \in Nat
    BY <1>1
  <1>5. (op2 * NEAR + op1) % NEAR = op1 /\ (op2 * NEAR + op1) \div NEAR = op2
    BY <1>1, <1>4, DivMod
  <1>6. QED
    BY <1>3, <1>5 DEF FirstNear, SecondNear

\* The first half names a register of the frame, whatever the second does.
LEMMA FirstIsNear ==
  ASSUME NEW op1 \in Regs, NEW op2 \in Nat
  PROVE  FirstNear(EncodeNear(op1, op2)) \in Regs
  <1>1. NEAR \in Nat \ {0} /\ op1 \in Int /\ op2 * NEAR \in Int
    BY NearAssumption DEF Regs
  <1>2. Unsigned(op2 * NEAR) \in Int
    BY <1>1, PoolSize, ModRange DEF Unsigned
  <1>3. EncodeNear(op1, op2) \in Int
    BY <1>1, <1>2 DEF EncodeNear
  <1>4. QED
    BY <1>1, <1>3, ModRange DEF FirstNear, Regs

----------------------------------------------------------------------------
(* The table of overloads *)

\* Overloads a check that skips the last register can still tell apart.
Exact(asked) == asked \notin {"", "ANY"}
Apart(o, p) ==
  \/ Exact(o.acc) /\ Exact(p.acc) /\ o.acc # p.acc
  \/ /\ Len(o.regs) > 1 /\ Len(p.regs) > 1
     /\ Exact(o.regs[1]) /\ Exact(p.regs[1]) /\ o.regs[1] # p.regs[1]

\* At most two registers, the first of two being a near one.
Shape(op, o) ==
  /\ Len(o.regs) \in 0 .. 2 /\ DOMAIN o.regs = 1 .. Len(o.regs)
  /\ Len(o.regs) = 2 => Signature[op] = "r4_r4"

TableOK(op) ==
  /\ DOMAIN Overloads[op] \subseteq Nat \ {0}
  /\ \A k \in DOMAIN Overloads[op] : Shape(op, Overloads[op][k])
  /\ \A j, k \in DOMAIN Overloads[op] :
       j # k => Apart(Overloads[op][j], Overloads[op][k])

\* Overloads by the number of their registers.
LEMMA Shapes ==
  ASSUME NEW op, NEW a, NEW t, NEW u
  PROVE  /\ Shape(op, In(a, <<>>))
         /\ Shape(op, In(a, <<t>>))
         /\ Signature[op] = "r4_r4" => Shape(op, In(a, <<t, u>>))
  <1>1. /\ Len(<<>>) = 0 /\ DOMAIN <<>> = 1 .. 0
        /\ Len(<<t>>) = 1 /\ DOMAIN <<t>> = 1 .. 1
        /\ Len(<<t, u>>) = 2 /\ DOMAIN <<t, u>> = 1 .. 2
    OBVIOUS
  <1>2. QED
    BY <1>1 DEF Shape, In

\* One overload, two and three.
LEMMA Single ==
  ASSUME NEW op, NEW o, Overloads[op] = <<o>>, Shape(op, o)
  PROVE  TableOK(op)
  <1> DEFINE T == <<o>>
  <1>1. DOMAIN T = {1} /\ T[1] = o
    OBVIOUS
  <1> HIDE DEF T
  <1>2. Overloads[op] = T
    BY DEF T
  <1>3. QED
    BY <1>1, <1>2 DEF TableOK

LEMMA Double ==
  ASSUME NEW op, NEW o, NEW p, Overloads[op] = <<o, p>>,
         Shape(op, o), Shape(op, p), Apart(o, p), Apart(p, o)
  PROVE  TableOK(op)
  <1> DEFINE T == <<o, p>>
  <1>1. DOMAIN T = {1, 2} /\ T[1] = o /\ T[2] = p
    OBVIOUS
  <1> HIDE DEF T
  <1>2. Overloads[op] = T
    BY DEF T
  <1>3. QED
    BY <1>1, <1>2 DEF TableOK

LEMMA Triple ==
  ASSUME NEW op, NEW o, NEW p, NEW q, Overloads[op] = <<o, p, q>>,
         Shape(op, o), Shape(op, p), Shape(op, q), Apart(o, p), Apart(p, o),
         Apart(o, q), Apart(q, o), Apart(p, q), Apart(q, p)
  PROVE  TableOK(op)
  <1> DEFINE T == <<o, p, q>>
  <1>1. DOMAIN T = {1, 2, 3} /\ T[1] = o /\ T[2] = p /\ T[3] = q
    OBVIOUS
  <1> HIDE DEF T
  <1>2. Overloads[op] = T
    BY DEF T
  <1>3. QED
    BY <1>1, <1>2 DEF TableOK

\* Told apart by the accumulator, and by the first of two registers.
LEMMA ApartByAcc ==
  ASSUME NEW a, NEW b, NEW rs, NEW qs, Exact(a), Exact(b), a # b
  PROVE  Apart(In(a, rs), In(b, qs))
  BY DEF Apart, In

LEMMA ApartByReg ==
  ASSUME NEW a, NEW b, NEW t, NEW u, NEW v, NEW w, Exact(t), Exact(v), t # v
  PROVE  Apart(In(a, <<t, u>>), In(b, <<v, w>>))
  <1>1. /\ Len(<<t, u>>) > 1 /\ Len(<<v, w>>) > 1
        /\ <<t, u>>[1] = t /\ <<v, w>>[1] = v
    OBVIOUS
  <1>2. QED
    BY <1>1 DEF Apart, In

\* No two overloads of an opcode differ in the last register only.
LEMMA Table == \A op \in Opcodes : TableOK(op)
  <1>1. TableOK("JUMP") /\ TableOK("RET") /\ TableOK("STNULL")
    <2>1. /\ Overloads["JUMP"] = <<In("", <<>>)>>
          /\ Overloads["RET"] = <<In("", <<>>)>>
          /\ Overloads["STNULL"] = <<In("", <<>>)>>
      BY DEF Overloads
    <2>2. QED
      BY <2>1, Single, Shapes
  <1>2. TableOK("BLE") /\ TableOK("DECA")
    <2>1. /\ Overloads["BLE"] = <<In("NUM", <<>>)>>
          /\ Overloads["DECA"] = <<In("NUM", <<>>)>>
      BY DEF Overloads
    <2>2. QED
      BY <2>1, Single, Shapes
  <1>3. TableOK("CALL") /\ TableOK("GETRET0")
    <2>1. /\ Overloads["CALL"] = <<In("FUNC", <<>>)>>
          /\ Overloads["GETRET0"] = <<In("FUNC", <<>>)>>
      BY DEF Overloads
    <2>2. QED
      BY <2>1, Single, Shapes
  <1>4. TableOK("STA") /\ TableOK("DUMPA")
    <2>1. /\ Overloads["STA"] = <<In("ANY", <<>>)>>
          /\ Overloads["DUMPA"] = <<In("ANY", <<>>)>>
      BY DEF Overloads
    <2>2. QED
      BY <2>1, Single, Shapes
  <1>5. TableOK("LDA") /\ TableOK("MOV")
    <2>1. /\ Overloads["LDA"] = <<In("", <<"ANY">>)>>
          /\ Overloads["MOV"] = <<In("", <<"ANY">>)>>
      BY DEF Overloads
    <2>2. QED
      BY <2>1, Single, Shapes
  <1>6. TableOK("NEWARR") /\ TableOK("SETARG")
    <2>1. /\ Overloads["NEWARR"] = <<In("", <<"NUM">>)>>
          /\ Overloads["SETARG"] = <<In("FUNC", <<"ANY">>)>>
      BY DEF Overloads
    <2>2. QED
      BY <2>1, Single, Shapes
  <1>7. TableOK("SUB")
    <2>1. Overloads["SUB"] = <<In("", <<"NUM", "NUM">>)>>
      BY DEF Overloads
    <2>2. Signature["SUB"] = "r4_r4"
      BY DEF Signature
    <2>3. QED
      BY <2>1, <2>2, Single, Shapes
  <1>8. TableOK("ADD")
    <2> DEFINE o == In("", <<"NUM", "NUM">>)
               p == In("", <<"STR", "STR">>)
    <2>1. Overloads["ADD"] = <<o, p>>
      BY DEF Overloads
    <2>2. Signature["ADD"] = "r4_r4"
      BY DEF Signature
    <2>3. Shape("ADD", o) /\ Shape("ADD", p)
      BY <2>2, Shapes
    <2>4. Apart(o, p) /\ Apart(p, o)
      BY ApartByReg DEF Exact
    <2> HIDE DEF o, p
    <2>5. QED
      BY <2>1, <2>3, <2>4, Double
  <1>9. TableOK("SUB2")
    <2> DEFINE o == In("NUM", <<"NUM">>)
               p == In("ARR", <<"NUM">>)
    <2>1. Overloads["SUB2"] = <<o, p>>
      BY DEF Overloads
    <2>2. Shape("SUB2", o) /\ Shape("SUB2", p)
      BY Shapes
    <2>3. Apart(o, p) /\ Apart(p, o)
      BY ApartByAcc DEF Exact
    <2> HIDE DEF o, p
    <2>4. QED
      BY <2>1, <2>2, <2>3, Double
  <1>10. TableOK("ADD2")
    <2> DEFINE o == In("NUM", <<"NUM">>)
               p == In("STR", <<"STR">>)
               q == In("ARR", <<"NUM">>)
    <2>1. Overloads["ADD2"] = <<o, p, q>>
      BY DEF Overloads
    <2>2. Shape("ADD2", o) /\ Shape("ADD2", p) /\ Shape("ADD2", q)
      BY Shapes
    <2>3. /\ Apart(o, p) /\ Apart(p, o) /\ Apart(o, q)
          /\ Apart(q, o) /\ Apart(p, q) /\ Apart(q, p)
      BY ApartByAcc DEF Exact
    <2> HIDE DEF o, p, q
    <2>4. QED
      BY <2>1, <2>2, <2>3, Triple
  <1>11. ASSUME NEW op, op \in {"SETELEM", "GETELEM"}
         PROVE  TableOK(op)
    <2>1. /\ Overloads["SETELEM"] = <<In("ANY", <<"ARR", "NUM">>),
                                      In("ANY", <<"OBJ", "STR">>)>>
          /\ Overloads["GETELEM"] = <<In("", <<"ARR", "NUM">>),
                                      In("", <<"OBJ", "STR">>)>>
      BY DEF Overloads
    <2>2. Signature["SETELEM"] = "r4_r4" /\ Signature["GETELEM"] = "r4_r4"
      BY DEF Signature
    <2>3. PICK a : Overloads[op] = <<In(a, <<"ARR", "NUM">>),
                                     In(a, <<"OBJ", "STR">>)>>
      BY <1>11, <2>1
    <2> DEFINE o == In(a, <<"ARR", "NUM">>)
               p == In(a, <<"OBJ", "STR">>)
    <2>4. Shape(op, o) /\ Shape(op, p)
      BY <1>11, <2>2, Shapes
    <2>5. Apart(o, p) /\ Apart(p, o)
      BY ApartByReg DEF Exact
    <2> HIDE DEF o, p
    <2>6. Overloads[op] = <<o, p>>
      BY <2>3 DEF o, p
    <2>7. QED
      BY <2>4, <2>5, <2>6, Double
  <1>12. Opcodes = {"JUMP", "RET", "STNULL", "BLE", "DECA", "CALL", "GETRET0",
                    "STA", "DUMPA", "LDA", "MOV", "NEWARR", "SETARG", "SUB",
                    "ADD", "SUB2", "ADD2", "SETELEM", "GETELEM"}
    BY DEF Opcodes, Overloads
  <1>13. QED
    BY <1>1, <1>2, <1>3, <1>4, <1>5, <1>6, <1>7, <1>8, <1>9, <1>10, <1>11,
       <1>12


----------------------------------------------------------------------------
(* One instruction *)

\* Two operand registers, whatever an instruction before this one left there.
TwoRegisters == register_operands_idx \in Int \X Int

\* The operands after decoding.
LEMMA OperandsDecoded ==
  ASSUME TwoRegisters, NEW sig, NEW src \in Byte \X Byte,
         sig = "r4_r4" => src[1] \in Regs,
         DecodeOperands(sig, EncodedOperands(sig, src))
  PROVE  /\ TwoRegisters'
         /\ sig = "r4_r4" =>
              /\ register_operands_idx'[1] \in Regs
              /\ src[2] \in Regs => register_operands_idx' = src
         /\ sig = "r8" => register_operands_idx'[1] = src[1]
         /\ sig = "i8" => immediate_operand' = src[1]
  <1> DEFINE byte == EncodedOperands(sig, src)
  <1>1. src[1] \in Byte /\ src[2] \in Byte /\ src = <<src[1], src[2]>>
    OBVIOUS
  <1>2. src[1] \in Nat /\ src[2] \in Nat
    BY <1>1, PoolSize DEF Byte
  <1>3. CASE sig = "r4_r4"
    <2>1. byte = EncodeNear(src[1], src[2])
      BY <1>3 DEF EncodedOperands
    <2> DEFINE first == FirstNear(byte)
               second == SecondNear(byte)
    <2>2. register_operands_idx' = <<first, second>>
      BY <1>3 DEF DecodeOperands
    <2>3. first \in Regs
      BY <1>2, <1>3, <2>1, FirstIsNear
    <2>4. src[2] \in Regs => first = src[1] /\ second = src[2]
      BY <1>3, <2>1, NearSurvives
    <2>5. first \in Int /\ second \in Int
      <3>1. NEAR \in Nat \ {0} /\ src[2] * NEAR \in Int
        BY <1>2, NearAssumption
      <3>2. Unsigned(src[2] * NEAR) \in Int
        BY <3>1, PoolSize, ModRange DEF Unsigned
      <3>3. byte \in Int
        BY <1>2, <2>1, <3>2 DEF EncodeNear
      <3> HIDE DEF byte
      <3>4. QED
        BY <3>1, <3>3 DEF FirstNear, SecondNear
    <2> HIDE DEF first, second
    <2>6. <<first, second>> \in Int \X Int /\ <<first, second>>[1] = first
      BY <2>5
    <2>7. QED
      BY <1>1, <1>3, <2>2, <2>3, <2>4, <2>6 DEF TwoRegisters
  <1>4. CASE sig = "r8"
    <2>1. byte = src[1]
      BY <1>1, <1>4, UnsignedByte DEF EncodedOperands
    <2>2. register_operands_idx' = [register_operands_idx EXCEPT ![1] = src[1]]
      BY <1>4, <2>1 DEF DecodeOperands
    <2>3. PICK x \in Int, y \in Int : register_operands_idx = <<x, y>>
      BY DEF TwoRegisters
    <2>4. register_operands_idx' = <<src[1], y>>
      BY <2>2, <2>3
    <2>5. QED
      BY <1>2, <1>4, <2>4 DEF TwoRegisters
  <1>5. CASE sig \notin {"r4_r4", "r8"}
    <2>1. register_operands_idx' = register_operands_idx
      BY <1>5 DEF DecodeOperands
    <2>2. sig = "i8" => byte = src[1] /\ immediate_operand' = byte
      BY <1>1, UnsignedByte DEF EncodedOperands, DecodeOperands
    <2>3. QED
      BY <1>5, <2>1, <2>2 DEF TwoRegisters
  <1>6. QED
    BY <1>3, <1>4, <1>5

\* An overload that the operands fit passes the check.
LEMMA FitsPasses ==
  ASSUME NEW op, NEW o, Shape(op, o), Fits(o)',
         Signature[op] = "r4_r4" => register_operands_idx'[1] \in Regs
  PROVE  CheckRegsTypeWithAcc(o, register_operands_idx')
  <1>1. o.acc # "" => Holds(o.acc, acc')
    BY DEF Fits, Holds
  <1>2. ASSUME NEW k, k \in 1 .. Len(o.regs) - 1
        PROVE  Holds(o.regs[k], regs'[register_operands_idx'[k]])
    <2>1. PICK n \in 0 .. 2 : n = Len(o.regs) /\ DOMAIN o.regs = 1 .. n
      BY DEF Shape
    <2>2. k \in 1 .. n - 1
      BY <1>2, <2>1
    <2>3. n = 2 /\ k = 1
      BY <2>2
    <2>4. k \in DOMAIN o.regs
      BY <2>1, <2>3
    <2>5. register_operands_idx'[k] \in Regs
      BY <2>1, <2>3 DEF Shape
    <2>6. QED
      BY <2>4, <2>5 DEF Fits, Holds
  <1>3. QED
    BY <1>1, <1>2 DEF CheckRegsTypeWithAcc, CheckRegsType

\* Two overloads that are told apart do not both pass.
LEMMA OnePasses ==
  ASSUME NEW op, NEW o, NEW p, Shape(op, o), Shape(op, p), Apart(o, p),
         CheckRegsTypeWithAcc(o, register_operands_idx'),
         CheckRegsTypeWithAcc(p, register_operands_idx')
  PROVE  FALSE
  <1>1. CASE Exact(o.acc) /\ Exact(p.acc) /\ o.acc # p.acc
    BY <1>1 DEF CheckRegsTypeWithAcc, Holds, Exact
  <1>2. CASE /\ Len(o.regs) > 1 /\ Len(p.regs) > 1
             /\ Exact(o.regs[1]) /\ Exact(p.regs[1]) /\ o.regs[1] # p.regs[1]
    <2>1. 1 \in 1 .. Len(o.regs) - 1 /\ 1 \in 1 .. Len(p.regs) - 1
      BY <1>2 DEF Shape
    <2>2. /\ Holds(o.regs[1], regs'[register_operands_idx'[1]])
          /\ Holds(p.regs[1], regs'[register_operands_idx'[1]])
      BY <2>1 DEF CheckRegsTypeWithAcc, CheckRegsType
    <2>3. QED
      BY <1>2, <2>2 DEF Holds, Exact
  <1>3. QED
    BY <1>1, <1>2 DEF Apart

\* So the first overload that passes is the one the operands fit.
LEMMA FirstFits ==
  ASSUME NEW op \in Opcodes, NEW k \in DOMAIN Overloads[op],
         Fits(Overloads[op][k])',
         Signature[op] = "r4_r4" => register_operands_idx'[1] \in Regs,
         NEW fit, fit = {j \in DOMAIN Overloads[op] :
                           CheckRegsTypeWithAcc(Overloads[op][j],
                                                register_operands_idx')}
  PROVE  fit = {k} /\ (CHOOSE i \in fit : \A j \in fit : i <= j) = k
  <1>1. TableOK(op)
    BY Table
  <1>2. k \in fit
    BY <1>1, FitsPasses DEF TableOK
  <1>3. ASSUME NEW j \in fit, j # k
        PROVE  FALSE
    <2>1. /\ CheckRegsTypeWithAcc(Overloads[op][j], register_operands_idx')
          /\ CheckRegsTypeWithAcc(Overloads[op][k], register_operands_idx')
          /\ j \in DOMAIN Overloads[op]
      BY <1>2
    <2>2. /\ Shape(op, Overloads[op][j]) /\ Shape(op, Overloads[op][k])
          /\ Apart(Overloads[op][j], Overloads[op][k])
      BY <1>1, <1>3, <2>1 DEF TableOK
    <2>3. QED
      BY <2>1, <2>2, OnePasses
  <1>4. fit = {k}
    BY <1>2, <1>3
  <1>5. k <= k
    BY <1>1 DEF TableOK
  <1>6. QED
    BY <1>4, <1>5

----------------------------------------------------------------------------
(* The decoder *)

DecoderInv == TwoRegisters /\ OperandsKept /\ WellTypedDispatched

LEMMA DecodeKeeps ==
  ASSUME DecoderInv, DecodeAndResolve
  PROVE  DecoderInv'
  <1>1. PICK op \in Opcodes, a \in Type, rs \in [Regs -> Type],
             src \in Byte \X Byte :
          LET sig == Signature[op]
              fit == {k \in DOMAIN Overloads[op] :
                        CheckRegsTypeWithAcc(Overloads[op][k],
                                             register_operands_idx')}
          IN  /\ sig = "r4_r4" => src[1] \in Regs
              /\ opcode' = op /\ acc' = a /\ regs' = rs /\ source' = src
              /\ DecodeOperands(sig, EncodedOperands(sig, src))
              /\ overload' = IF fit = {} THEN NO_OVERLOAD
                             ELSE CHOOSE k \in fit : \A j \in fit : k <= j
    BY DEF DecodeAndResolve
  <1> DEFINE sig == Signature[op]
  <1>2. PICK fit : fit = {k \in DOMAIN Overloads[op] :
                            CheckRegsTypeWithAcc(Overloads[op][k],
                                                 register_operands_idx')}
    OBVIOUS
  <1>3. /\ sig = "r4_r4" => src[1] \in Regs
        /\ opcode' = op /\ source' = src
        /\ DecodeOperands(sig, EncodedOperands(sig, src))
    BY <1>1
  <1>4. overload' = IF fit = {} THEN NO_OVERLOAD
                    ELSE CHOOSE k \in fit : \A j \in fit : k <= j
    BY <1>1, <1>2
  <1>5. /\ TwoRegisters'
        /\ sig = "r4_r4" =>
             /\ register_operands_idx'[1] \in Regs
             /\ src[2] \in Regs => register_operands_idx' = src
        /\ sig = "r8" => register_operands_idx'[1] = src[1]
        /\ sig = "i8" => immediate_operand' = src[1]
    <2>1. TwoRegisters
      BY DEF DecoderInv
    <2> HIDE DEF sig
    <2>2. QED
      BY <1>3, <2>1, OperandsDecoded
  <1>6. OperandsKept'
    BY <1>3, <1>5 DEF OperandsKept
  <1>7. WellTypedDispatched'
    <2>1. ASSUME NEW k \in DOMAIN Overloads[op], Fits(Overloads[op][k])'
          PROVE  overload' = k /\ k # NO_OVERLOAD
      <3>1. fit = {k} /\ (CHOOSE i \in fit : \A j \in fit : i <= j) = k
        BY <1>2, <1>5, <2>1, FirstFits
      <3>2. overload' = k
        BY <1>4, <3>1
      <3>3. k # NO_OVERLOAD
        BY Table DEF TableOK, NO_OVERLOAD
      <3>4. QED
        BY <3>2, <3>3
    <2>2. SUFFICES ASSUME NEW k \in DOMAIN Overloads[opcode'],
                          Fits(Overloads[opcode][k])'
                   PROVE  /\ overload' # NO_OVERLOAD
                          /\ Fits(Overloads[opcode][overload])'
      BY DEF WellTypedDispatched
    <2>3. k \in DOMAIN Overloads[op] /\ Fits(Overloads[op][k])'
      BY <1>3, <2>2 DEF Fits
    <2>4. overload' = k /\ k # NO_OVERLOAD
      BY <2>1, <2>3
    <2>5. QED
      BY <2>2, <2>4 DEF Fits
  <1>8. QED
    BY <1>5, <1>6, <1>7 DEF DecoderInv

LEMMA DecoderInductive ==
  ASSUME DecoderInv, [Next]_vars
  PROVE  DecoderInv'
  <1>1. CASE DecodeAndResolve
    BY <1>1, DecodeKeeps
  <1>2. CASE Handle
    BY <1>2 DEF Handle, DecoderInv, TwoRegisters, OperandsKept,
                WellTypedDispatched
  <1>3. CASE Aborted \/ UNCHANGED vars
    BY <1>3 DEF Aborted, vars, DecoderInv, TwoRegisters, OperandsKept,
                WellTypedDispatched, Fits
  <1>4. QED
    BY <1>1, <1>2, <1>3 DEF Next

LEMMA DecoderInvHolds == Spec => []DecoderInv
  <1>1. Init => DecoderInv
    <2>1. Byte \subseteq Int
      BY PoolSize DEF Byte
    <2>2. QED
      BY <2>1 DEF Init, DecoderInv, TwoRegisters, OperandsKept,
                  WellTypedDispatched
  <1>2. DecoderInv /\ [Next]_vars => DecoderInv'
    BY DecoderInductive
  <1>3. QED
    BY <1>1, <1>2, PTL DEF Spec

\* DecodeAndResolve hands a handler the registers and the immediate that the
\* source named, for every width of the operand and whatever the instruction
\* before it left in the decoder.
THEOREM OperandsArrive == Spec => []OperandsKept
  BY DecoderInvHolds, PTL DEF DecoderInv

\* Operands that some overload is for run the handler of an overload they
\* fit: CheckRegsType never compares the last register, and the table has no
\* two overloads of an opcode that differ in it alone.
THEOREM DispatchIsSound == Spec => []WellTypedDispatched
  BY DecoderInvHolds, PTL DEF DecoderInv
=============================================================================
