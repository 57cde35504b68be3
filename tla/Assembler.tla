----------------------------- MODULE Assembler -----------------------------
(***************************************************************************)
(* The assembler (assembler/assembler.h) as its grammar drives it: names   *)
(* of constants, functions and objects become indices of the constant      *)
(* pool, labels become offsets relative to the instruction that names      *)
(* them, known at once or filled in when the label is met.                 *)
(*                                                                         *)
(* The source is open: any declaration, instruction or label the grammar   *)
(* allows may come next.                                                   *)
(***************************************************************************)
EXTENDS Bytecode, Sequences, SequencesExt, FiniteSets

CONSTANTS IDENTIFIERS,      \* names the source may use
          MEMBERS,          \* names of data members and methods
          NUMS,             \* numbers it may write, immediates included
          STRS,             \* string literals it may write
          MAX_CODE,         \* bound: instructions in the source
          MAX_DECLS,        \* bound: names declared
          MAX_LABELS,       \* bound: labels
          MAX_MEMBERS       \* bound: members of an object

ASSUME SourceAssumption ==
  /\ NUMS \subseteq Nat
  /\ {MAX_CODE, MAX_DECLS, MAX_LABELS, MAX_MEMBERS} \subseteq Nat

VARIABLES instructions_buffer, declared_objects, declared_labels,
          unresolved_labels, strings_storage, objects_storage, constant_pool,
          context,          \* the rule of the grammar that is open
          status            \* "run", "FATAL", "ASSERT", "UNDEFINED", "done"

tables  == <<declared_objects, declared_labels, unresolved_labels>>
storage == <<strings_storage, objects_storage, constant_pool>>
asmVars == <<instructions_buffer, tables, storage, context, status>>

\* Operands of instructions that take an immediate, and the other opcodes.
ImmOps == {"JUMP", "LDAI"}
OtherOps == {"RET", "MOV"}

Pc == Len(instructions_buffer)         \* offset of the next instruction
Inst(pc) == instructions_buffer[pc + 1]

\* An element of the pool: what a STR and an OBJ hold is an index of storage.
Element(t, v) == [type |-> t, val |-> v]
NoElement     == Element("ANY", 0)

Put(f, k, v) == [x \in DOMAIN f \cup {k} |-> IF x = k THEN v ELSE f[x]]

In(rules) == status = "run" /\ context.rule \in rules
Body      == {"function", "method"}
Rule(r)   == [rule |-> r, empty |-> TRUE]
Filled    == [context EXCEPT !.empty = FALSE]

Abort(why) ==
  /\ status' = why
  /\ UNCHANGED <<instructions_buffer, tables, storage, context>>

----------------------------------------------------------------------------
(* Declarations *)

\* Mutant of FreshIndex: the index is kept in half of the bits.
NearIndex == Cardinality(DOMAIN declared_objects) % NEAR

\* The index a new name gets.
FreshIndex == Unsigned(Cardinality(DOMAIN declared_objects))

\* DeclareId, and the Set... of the pool that follows it.
Declare(id, elem) ==
  /\ declared_objects' = Put(declared_objects, id, FreshIndex)
  /\ constant_pool' = [constant_pool EXCEPT ![FreshIndex] = elem]
  /\ UNCHANGED <<instructions_buffer, declared_labels, unresolved_labels,
                 status>>

CanDeclare(id) ==
  /\ In({"program"})
  /\ Cardinality(DOMAIN declared_objects) < MAX_DECLS
  /\ id \notin DOMAIN declared_objects

\* The assertion of DeclareId.
Redeclare ==
  /\ In({"program"})
  /\ \E id \in IDENTIFIERS : id \in DOMAIN declared_objects
  /\ Abort("ASSERT")

DefineNum ==
  \E id \in IDENTIFIERS, n \in NUMS :
    /\ CanDeclare(id)
    /\ Declare(id, Element("NUM", n))
    /\ UNCHANGED <<strings_storage, objects_storage, context>>

DefineStr ==
  \E id \in IDENTIFIERS, s \in STRS :
    /\ CanDeclare(id)
    /\ strings_storage' = Append(strings_storage, s)
    /\ Declare(id, Element("STR", Len(strings_storage)))
    /\ UNCHANGED <<objects_storage, context>>

DeclareObject ==
  \E id \in IDENTIFIERS :
    /\ CanDeclare(id)
    /\ Declare(id, Element("OBJ", Len(objects_storage)))
    /\ objects_storage' =
         Append(objects_storage, [data_fields |-> <<>>, methods |-> <<>>,
                                  methods_bc_offsets |-> <<>>])
    /\ context' = Rule("object")
    /\ UNCHANGED strings_storage

DeclareAndDefineFunction ==
  \E id \in IDENTIFIERS :
    /\ CanDeclare(id)
    /\ Declare(id, Element("FUNC", Pc))
    /\ context' = Rule("function")
    /\ UNCHANGED <<strings_storage, objects_storage>>

\* Members of the object being declared.
ObjectDescr == Last(objects_storage)
RoomForMember ==
  /\ In({"object"})
  /\ Len(ObjectDescr.data_fields) + Len(ObjectDescr.methods) < MAX_MEMBERS
SetObjectDescr(descr) ==
  /\ objects_storage' = [objects_storage EXCEPT ![Len(objects_storage)] = descr]
  /\ UNCHANGED <<instructions_buffer, tables, strings_storage, constant_pool,
                 status>>

DeclareAndDefineAnyDataMember ==
  /\ RoomForMember
  /\ \E m \in MEMBERS :
       SetObjectDescr([ObjectDescr EXCEPT !.data_fields = Append(@, m)])
  /\ UNCHANGED context

DeclareAndDefineMethod ==
  /\ RoomForMember
  /\ \E m \in MEMBERS :
       SetObjectDescr([ObjectDescr EXCEPT
                         !.methods = Append(@, m),
                         !.methods_bc_offsets = Append(@, Pc)])
  /\ context' = Rule("method")

EndOfObject ==
  /\ In({"object"})
  /\ context' = Rule("program")
  /\ UNCHANGED <<instructions_buffer, tables, storage, status>>

----------------------------------------------------------------------------
(* Instructions and labels *)

\* GetResolveRelativeOffset.
RelativeOffset(label_offset, inst_offset) == Signed(label_offset - inst_offset)

\* TryResolveName: a constant before a label; neither is an operand to be
\* filled in.
IsConstant(n) == n \in DOMAIN declared_objects
IsLabel(n)    == ~IsConstant(n) /\ n \in DOMAIN declared_labels
TryResolveName(n) ==
  CASE IsConstant(n) -> declared_objects[n]
    [] IsLabel(n)    -> Unsigned(RelativeOffset(declared_labels[n], Pc))
    [] OTHER         -> 0
AppendUnresolvedLabels(n) ==
  IF IsConstant(n) \/ IsLabel(n) THEN unresolved_labels
  ELSE Put(unresolved_labels, n,
           IF n \in DOMAIN unresolved_labels
           THEN Append(unresolved_labels[n], Pc) ELSE <<Pc>>)

\* Encode.  A record keeps, besides what the code stores, the name its operand
\* was written as and whether that name was a constant then.
Encode(op, operand, src, constant) ==
  /\ Pc < MAX_CODE
  /\ instructions_buffer' =
       Append(instructions_buffer, [opcode |-> op, operands |-> operand,
                                    src |-> src, constant |-> constant])
  /\ context' = Filled
  /\ UNCHANGED <<declared_objects, declared_labels, storage, status>>

EncodeOther ==
  /\ In(Body)
  /\ \E op \in OtherOps : Encode(op, 0, "none", FALSE)
  /\ UNCHANGED unresolved_labels

EncodeLiteral ==
  /\ In(Body)
  /\ \E op \in ImmOps, n \in NUMS : Encode(op, Unsigned(n), "none", FALSE)
  /\ UNCHANGED unresolved_labels

EncodeImm ==
  /\ In(Body)
  /\ \E op \in ImmOps, n \in IDENTIFIERS :
       /\ Encode(op, TryResolveName(n), n, IsConstant(n))
       /\ unresolved_labels' = AppendUnresolvedLabels(n)

Pending(l) == IF l \in DOMAIN unresolved_labels
              THEN {unresolved_labels[l][k] : k \in DOMAIN unresolved_labels[l]}
              ELSE {}

\* Mutant of Patched: only the last pending reference is filled in.
PatchedLast(l) ==
  [k \in DOMAIN instructions_buffer |->
     IF Pending(l) # {} /\ k - 1 = Last(unresolved_labels[l])
     THEN [instructions_buffer[k] EXCEPT
             !.operands = Unsigned(RelativeOffset(Pc, k - 1))]
     ELSE instructions_buffer[k]]

\* ResolveUnresolved: the code once the references to label l are filled in.
Patched(l) ==
  [k \in DOMAIN instructions_buffer |->
     IF k - 1 \in Pending(l)
     THEN [instructions_buffer[k] EXCEPT
             !.operands = Unsigned(RelativeOffset(Pc, k - 1))]
     ELSE instructions_buffer[k]]

DefineLabel ==
  /\ In(Body)
  /\ \E l \in IDENTIFIERS :
       \/ l \in DOMAIN declared_labels /\ Abort("FATAL")
       \/ /\ l \notin DOMAIN declared_labels
          /\ Cardinality(DOMAIN declared_labels) < MAX_LABELS
          /\ declared_labels' = Put(declared_labels, l, Pc)
          /\ instructions_buffer' = Patched(l)
          /\ unresolved_labels' =
               [x \in DOMAIN unresolved_labels \ {l} |-> unresolved_labels[x]]
          /\ context' = Filled
          /\ UNCHANGED <<declared_objects, storage, status>>

LabelsResolved == unresolved_labels = <<>>

\* CheckLabelsResolved, at the end of a function or method.
CheckLabelsResolved ==
  /\ In(Body)
  /\ ~context.empty
  /\ \/ ~LabelsResolved /\ Abort("FATAL")
     \/ LabelsResolved /\ Pc = 0 /\ Abort("UNDEFINED")
     \/ /\ LabelsResolved /\ Pc > 0
        /\ Inst(Pc - 1).opcode # "RET"
        /\ Abort("FATAL")
     \/ /\ LabelsResolved /\ Pc > 0
        /\ Inst(Pc - 1).opcode = "RET"
        /\ context' = Rule(IF context.rule = "method" THEN "object"
                                                      ELSE "program")
        /\ UNCHANGED <<instructions_buffer, tables, storage, status>>

\* The source ends inside a rule, or goes on with what the grammar refuses.
ParsingFailed == status = "run" /\ Abort("FATAL")

----------------------------------------------------------------------------
AsmInit ==
  /\ instructions_buffer = <<>>
  /\ declared_objects = <<>>
  /\ declared_labels = <<>>
  /\ unresolved_labels = <<>>
  /\ strings_storage = <<>>
  /\ objects_storage = <<>>
  /\ constant_pool = [i \in Byte |-> NoElement]
  /\ context = Rule("program")
  /\ status = "run"

AsmStep == \/ DefineNum \/ DefineStr \/ DeclareAndDefineFunction \/ Redeclare
           \/ DeclareObject \/ DeclareAndDefineAnyDataMember
           \/ DeclareAndDefineMethod \/ EndOfObject
           \/ EncodeOther \/ EncodeLiteral \/ EncodeImm \/ DefineLabel
           \/ CheckLabelsResolved \/ ParsingFailed
=============================================================================
