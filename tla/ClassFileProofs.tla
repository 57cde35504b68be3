-------------------------- MODULE ClassFileProofs --------------------------
(***************************************************************************)
(* From source to a loaded program, for every source and every size of the *)
(* pool: indices of constants, references to labels, and what the loader   *)
(* finds in the file.                                                      *)
(***************************************************************************)
EXTENDS ClassFile, FiniteSetTheorems, TLAPS

----------------------------------------------------------------------------
(* What the assembler keeps *)

Instruction == [opcode : ImmOps \cup OtherOps, operands : Byte,
                src : IDENTIFIERS \cup {"none"}, constant : BOOLEAN]
Descr == [data_fields : Seq(MEMBERS), methods : Seq(MEMBERS),
          methods_bc_offsets : Seq(Nat)]
ElementType == {"ANY", "NUM", "STR", "OBJ", "FUNC"}

BufferOK == instructions_buffer \in Seq(Instruction)
StringsOK == strings_storage \in Seq(STRS)
LabelsOK == \A l \in DOMAIN declared_labels : declared_labels[l] \in 0 .. Pc
PoolOK   == constant_pool \in [Byte -> [type : ElementType, val : Nat]]
ContextOK ==
  context \in [rule : {"program", "object", "function", "method"},
               empty : BOOLEAN]

\* Members are described in pairs, and an object of the pool has a description.
ObjectsOK ==
  /\ objects_storage \in Seq(Descr)
  /\ \A k \in DOMAIN objects_storage :
       Len(objects_storage[k].methods)
         = Len(objects_storage[k].methods_bc_offsets)
  /\ \A i \in Byte : constant_pool[i].type = "OBJ" =>
       constant_pool[i].val + 1 \in DOMAIN objects_storage
  /\ context.rule \in {"object", "method"} => objects_storage # <<>>

\* Until the pool has wrapped around, names have the indices below their
\* number, and no other element is in use.
Declared == Cardinality(DOMAIN declared_objects)
IndicesOK ==
  /\ IsFiniteSet(DOMAIN declared_objects)
  /\ \A n \in DOMAIN declared_objects :
       declared_objects[n] \in Byte /\ InUse(declared_objects[n])
  /\ Declared <= POOL_SIZE =>
       /\ \A n \in DOMAIN declared_objects : declared_objects[n] < Declared
       /\ \A i \in Byte : InUse(i) => i < Declared

\* A reference that waits for a label was written as that label, and nothing
\* waits outside of bodies.
PendingOK ==
  status = "run" =>
    /\ \A l \in DOMAIN unresolved_labels :
         /\ unresolved_labels[l] \in Seq(Nat)
         /\ \A k \in DOMAIN unresolved_labels[l] :
              /\ unresolved_labels[l][k] < Pc
              /\ Inst(unresolved_labels[l][k]).src = l
    /\ context.rule \notin Body => DOMAIN unresolved_labels = {}

AsmInv == /\ BufferOK /\ StringsOK /\ LabelsOK /\ PoolOK /\ ContextOK
          /\ ObjectsOK /\ IndicesOK /\ PendingOK

----------------------------------------------------------------------------
(* The file and what is loaded from it *)

FileInv ==
  /\ status = "run" => file = NoFile
  /\ loaded # NoFile => status = "done"
  /\ status = "done" =>
       /\ file.entry_point = constant_pool[MainId].val
       /\ file.records = {Record(i) : i \in {j \in WrittenIds : InUse(j)}}
       /\ file.zeros = (\E j \in Byte \ WrittenIds : InUse(j))

\* The element of index i came out of the file as it went in, or is empty or
\* the number that zeros are read as.
Restored(i) ==
  /\ i \in WrittenIds /\ InUse(i)
  /\ loaded.data[i] = LoadedElement(Record(i))
  /\ constant_pool[i].type = "OBJ" =>
       /\ loaded.object_mappings[i] = Mapping(Payload(constant_pool[i]))
       /\ IsInjective(Names(Payload(constant_pool[i])))
Lost(i) ==
  /\ loaded.data[i].type \in {"ANY", "NUM"}
  /\ \/ i \notin WrittenIds \/ ~InUse(i)
     \/ \E j \in Byte \ WrittenIds : InUse(j)

LoadedInv ==
  loaded # NoFile =>
    /\ loaded.pc = constant_pool[MainId].val
    /\ \A i \in Byte : Restored(i) \/ Lost(i)

\* The invariant of the whole, with what is proved of the labels.
Inv == AsmInv /\ FileInv /\ LoadedInv /\ LabelsReached

----------------------------------------------------------------------------
(* Arithmetic of the operand *)

LEMMA PoolSize == POOL_SIZE \in Nat \ {0}
  BY NearAssumption DEF POOL_SIZE

LEMMA ModFacts ==
  ASSUME NEW m \in Nat \ {0}, NEW n \in Int
  PROVE  /\ n % m \in 0 .. m - 1
         /\ n \in 0 .. m - 1 => n % m = n
         /\ n < 0 /\ n >= -m => n % m = n + m
  OBVIOUS

LEMMA UnsignedFacts ==
  ASSUME NEW n \in Int
  PROVE  /\ Unsigned(n) \in Byte
         /\ n \in Byte => Unsigned(n) = n
         /\ n < 0 /\ n >= -POOL_SIZE => Unsigned(n) = n + POOL_SIZE
  BY PoolSize, ModFacts DEF Unsigned, Byte

\* A difference that fits in the operand comes back as it was.
LEMMA SignedFits ==
  ASSUME NEW d \in Int, Fits(d)
  PROVE  Signed(d) = d /\ Signed(Unsigned(Signed(d))) = d
  <1>1. POOL_SIZE \in Nat \ {0}
    BY PoolSize
  <1>2. Unsigned(d) = IF d >= 0 THEN d ELSE d + POOL_SIZE
    BY <1>1, UnsignedFacts DEF Fits, Byte
  <1>3. Signed(d) = d
    BY <1>1, <1>2 DEF Signed, Fits
  <1>4. Unsigned(Unsigned(d)) = Unsigned(d)
    <2>1. Unsigned(d) \in Byte /\ Unsigned(d) \in Int
      BY <1>1, UnsignedFacts DEF Byte
    <2>2. QED
      BY <2>1, UnsignedFacts
  <1>5. Signed(Unsigned(d)) = Signed(d)
    BY <1>4 DEF Signed
  <1>6. QED
    BY <1>3, <1>5

LEMMA SignedInt ==
  ASSUME NEW d \in Int
  PROVE  Signed(d) \in Int
  <1>1. Unsigned(d) \in Int
    BY PoolSize, UnsignedFacts DEF Byte
  <1>2. QED
    BY <1>1, PoolSize DEF Signed

\* The sign of a record's index is undone by the loader.
LEMMA SignedByte ==
  ASSUME NEW i \in Byte
  PROVE  /\ Unsigned(Signed(i)) = i
         /\ Signed(i) \in Int
         /\ 2 * i < POOL_SIZE => Signed(i) = i
         /\ 2 * i >= POOL_SIZE => Signed(i) < 0
  <1>1. POOL_SIZE \in Nat \ {0} /\ i \in Int /\ i >= 0 /\ i < POOL_SIZE
    BY PoolSize DEF Byte
  <1>2. Unsigned(i) = i
    BY <1>1, UnsignedFacts
  <1>3. Signed(i) = IF 2 * i >= POOL_SIZE THEN i - POOL_SIZE ELSE i
    BY <1>2 DEF Signed
  <1>4. i - POOL_SIZE \in Int /\ Unsigned(i - POOL_SIZE) = i
    BY <1>1, UnsignedFacts
  <1>5. QED
    BY <1>1, <1>2, <1>3, <1>4

\* WriteConstantPool reaches the lower half of the pool.
LEMMA LowerHalf == WrittenIds = {i \in Byte : 2 * i < POOL_SIZE}
  <1>1. POOL_SIZE \in Nat \ {0}
    BY PoolSize
  <1>2. ASSUME NEW i \in Byte, 2 * i < POOL_SIZE, NEW j \in 0 .. i
        PROVE  Signed(j) >= 0
    <2>1. j \in Byte /\ 2 * j < POOL_SIZE /\ j >= 0
      BY <1>1, <1>2 DEF Byte
    <2>2. QED
      BY <2>1, SignedByte
  <1>3. ASSUME NEW i \in Byte, 2 * i >= POOL_SIZE
        PROVE  i \in 0 .. i /\ ~(Signed(i) >= 0)
    BY <1>1, <1>3, SignedByte DEF Byte
  <1>4. \A i \in Byte : 2 * i < POOL_SIZE \/ 2 * i >= POOL_SIZE
    BY <1>1 DEF Byte
  <1>5. QED
    BY <1>2, <1>3, <1>4 DEF WrittenIds


----------------------------------------------------------------------------
(* Steps of the assembler *)

\* While the assembler runs there is no file.
LEMMA NoFileYet ==
  ASSUME Inv, status = "run", status' # "done", UNCHANGED <<file, loaded>>
  PROVE  FileInv' /\ LoadedInv'
  BY DEF Inv, FileInv, LoadedInv

LEMMA AbortKeeps ==
  ASSUME Inv, status = "run", UNCHANGED <<file, loaded>>,
         NEW why, why \notin {"run", "done"}, Abort(why)
  PROVE  Inv'
  <1>1. FileInv' /\ LoadedInv'
    BY NoFileYet DEF Abort
  <1>2. AsmInv'
    BY DEF Abort, tables, storage, Inv, AsmInv, BufferOK, StringsOK, LabelsOK,
           PoolOK, ContextOK, ObjectsOK, IndicesOK, Declared, InUse, PendingOK, Pc
  <1>3. LabelsReached'
    BY DEF Abort, LabelsReached
  <1>4. QED
    BY <1>1, <1>2, <1>3 DEF Inv

\* Neither code nor labels change.
LEMMA CodeStays ==
  ASSUME Inv, status = "run",
         UNCHANGED <<instructions_buffer, declared_labels, unresolved_labels,
                     status>>
  PROVE  BufferOK' /\ LabelsOK' /\ LabelsReached'
  <1>1. BufferOK' /\ LabelsOK'
    BY DEF Inv, AsmInv, BufferOK, LabelsOK, Pc
  <1>2. LabelsReached
    BY DEF Inv
  <1>3. /\ Pc' = Pc
        /\ \A pc : /\ Inst(pc)' = Inst(pc)
                   /\ NamesLabel(pc)' <=> NamesLabel(pc)
    BY DEF Pc, Inst, NamesLabel
  <1>4. \A l : Pending(l)' = Pending(l)
    BY DEF Pending
  <1>5. QED
    BY <1>1, <1>2, <1>3, <1>4 DEF LabelsReached

\* The index of a new name.
LEMMA FreshIndexFree ==
  ASSUME IndicesOK
  PROVE  /\ FreshIndex \in Byte
         /\ Declared \in Nat
         /\ Declared + 1 <= POOL_SIZE => FreshIndex = Declared
  <1>1. Declared \in Nat
    BY FS_CardinalityType DEF IndicesOK, Declared
  <1>2. POOL_SIZE \in Nat \ {0}
    BY PoolSize
  <1>3. FreshIndex = Unsigned(Declared)
    BY DEF FreshIndex, Declared
  <1>4. QED
    BY <1>1, <1>2, <1>3, UnsignedFacts DEF Byte

LEMMA DeclareIndices ==
  ASSUME IndicesOK, PoolOK, NEW id, id \notin DOMAIN declared_objects,
         NEW elem, elem.type # "ANY", Declare(id, elem)
  PROVE  /\ IndicesOK'
         /\ Declared' = Declared + 1
  <1> DEFINE D == DOMAIN declared_objects
             fresh == FreshIndex
  <1>1. /\ declared_objects' = Put(declared_objects, id, fresh)
        /\ constant_pool' = [constant_pool EXCEPT ![fresh] = elem]
    BY DEF Declare
  <1>2. /\ fresh \in Byte /\ Declared \in Nat
        /\ Declared + 1 <= POOL_SIZE => fresh = Declared
    BY FreshIndexFree
  <1> HIDE DEF fresh
  <1>3. /\ DOMAIN declared_objects' = D \cup {id}
        /\ declared_objects'[id] = fresh
        /\ \A n \in D : declared_objects'[n] = declared_objects[n]
    BY <1>1 DEF Put
  <1>4. IsFiniteSet(DOMAIN declared_objects') /\ Declared' = Declared + 1
    BY <1>3, FS_AddElement DEF IndicesOK, Declared
  <1>5. \A i \in Byte : constant_pool'[i] = IF i = fresh THEN elem
                                            ELSE constant_pool[i]
    BY <1>1 DEF PoolOK
  <1>6. ASSUME NEW i \in Byte
        PROVE  InUse(i)' <=> (i = fresh \/ InUse(i))
    BY <1>5 DEF InUse
  <1>7. \A n \in DOMAIN declared_objects' :
          declared_objects'[n] \in Byte /\ InUse(declared_objects[n])'
    <2>1. ASSUME NEW n \in DOMAIN declared_objects'
          PROVE  \E i \in Byte : /\ declared_objects'[n] = i
                                 /\ i = fresh \/ InUse(i)
      BY <1>2, <1>3 DEF IndicesOK
    <2>2. QED
      BY <2>1, <1>6 DEF InUse
  <1>8. ASSUME Declared' <= POOL_SIZE
        PROVE  /\ \A n \in DOMAIN declared_objects' :
                    declared_objects'[n] < Declared'
               /\ \A i \in Byte : InUse(i)' => i < Declared'
    <2>1. Declared <= POOL_SIZE /\ fresh = Declared
      BY <1>2, <1>4, <1>8, PoolSize
    <2>2. /\ \A n \in D : declared_objects[n] \in Byte
                          /\ declared_objects[n] < Declared
          /\ \A i \in Byte : InUse(i) => i < Declared
      BY <2>1 DEF IndicesOK
    <2>3. Byte \subseteq Int
      BY PoolSize DEF Byte
    <2>4. ASSUME NEW i \in Int, i = fresh \/ i < Declared
          PROVE  i < Declared'
      BY <1>2, <1>4, <2>1, <2>4
    <2>5. \A n \in DOMAIN declared_objects' : declared_objects'[n] < Declared'
      BY <1>2, <1>3, <2>2, <2>3, <2>4
    <2>6. \A i \in Byte : InUse(i)' => i < Declared'
      BY <1>6, <2>2, <2>3, <2>4
    <2>7. QED
      BY <2>5, <2>6
  <1>9. QED
    BY <1>4, <1>7, <1>8 DEF IndicesOK

\* A declaration, whatever it stores besides.
LEMMA DeclareKeeps ==
  ASSUME Inv, UNCHANGED <<file, loaded>>, NEW id, CanDeclare(id),
         NEW elem \in [type : ElementType, val : Nat], elem.type # "ANY",
         Declare(id, elem), StringsOK', ContextOK', ObjectsOK'
  PROVE  Inv'
  <1>1. status = "run" /\ context.rule = "program"
    BY DEF CanDeclare, In
  <1>2. FileInv' /\ LoadedInv'
    BY <1>1, NoFileYet DEF Declare
  <1>3. BufferOK' /\ LabelsOK' /\ LabelsReached'
    BY <1>1, CodeStays DEF Declare
  <1>4. IndicesOK'
    BY DeclareIndices DEF CanDeclare, Inv, AsmInv
  <1>5. PoolOK'
    <2>1. FreshIndex \in Byte
      BY FreshIndexFree DEF Inv, AsmInv
    <2>2. QED
      BY <2>1 DEF Declare, PoolOK, Inv, AsmInv
  <1>6. PendingOK'
    <2>1. DOMAIN unresolved_labels = {}
      BY <1>1 DEF Inv, AsmInv, PendingOK, Body
    <2>2. QED
      BY <2>1 DEF Declare, PendingOK
  <1>7. QED
    BY <1>2, <1>3, <1>4, <1>5, <1>6 DEF Inv, AsmInv


\* Constants that are no objects.
LEMMA DeclareOther ==
  ASSUME Inv, UNCHANGED <<file, loaded, objects_storage>>,
         NEW id, CanDeclare(id), NEW t \in {"NUM", "STR", "FUNC"},
         NEW v \in Nat, Declare(id, Element(t, v)), StringsOK',
         context' = context \/ context' = Rule("function")
  PROVE  Inv'
  <1> DEFINE elem == Element(t, v)
  <1>1. elem \in [type : ElementType, val : Nat] /\ elem.type = t
    BY DEF Element, ElementType
  <1>2. Declare(id, elem)
    OBVIOUS
  <1> HIDE DEF elem
  <1>3. ContextOK' /\ (context'.rule = context.rule
                       \/ context'.rule = "function")
    <2>1. CASE context' = context
      BY <2>1 DEF Inv, AsmInv, ContextOK
    <2>2. CASE context' = Rule("function")
      BY <2>2 DEF ContextOK, Rule
    <2>3. QED
      BY <2>1, <2>2
  <1>4. ObjectsOK'
    <2>1. constant_pool' = [constant_pool EXCEPT ![FreshIndex] = elem]
      BY <1>2 DEF Declare
    <2>2. \A i \in Byte : \/ constant_pool'[i] = elem
                          \/ constant_pool'[i] = constant_pool[i]
      BY <2>1 DEF Inv, AsmInv, PoolOK
    <2>3. QED
      BY <1>1, <1>3, <2>2 DEF Inv, AsmInv, ObjectsOK
  <1>5. QED
    BY <1>1, <1>2, <1>3, <1>4, DeclareKeeps

LEMMA DefineNumKeeps ==
  ASSUME Inv, DefineNum, UNCHANGED <<file, loaded>>
  PROVE  Inv'
  <1>1. PICK id \in IDENTIFIERS, n \in NUMS :
          /\ CanDeclare(id)
          /\ Declare(id, Element("NUM", n))
          /\ UNCHANGED <<strings_storage, objects_storage, context>>
    BY DEF DefineNum
  <1>2. n \in Nat /\ StringsOK'
    BY <1>1, SourceAssumption DEF Inv, AsmInv, StringsOK
  <1>3. QED
    BY <1>1, <1>2, DeclareOther

LEMMA DefineStrKeeps ==
  ASSUME Inv, DefineStr, UNCHANGED <<file, loaded>>
  PROVE  Inv'
  <1>1. PICK id \in IDENTIFIERS, s \in STRS :
          /\ CanDeclare(id)
          /\ strings_storage' = Append(strings_storage, s)
          /\ Declare(id, Element("STR", Len(strings_storage)))
          /\ UNCHANGED <<objects_storage, context>>
    BY DEF DefineStr
  <1>2. strings_storage \in Seq(STRS)
    BY DEF Inv, AsmInv, StringsOK
  <1>3. Len(strings_storage) \in Nat /\ StringsOK'
    BY <1>1, <1>2 DEF StringsOK
  <1>4. PICK v \in Nat : v = Len(strings_storage)
    BY <1>3
  <1>5. QED
    BY <1>1, <1>3, <1>4, DeclareOther

LEMMA DeclareFunctionKeeps ==
  ASSUME Inv, DeclareAndDefineFunction, UNCHANGED <<file, loaded>>
  PROVE  Inv'
  <1>1. PICK id \in IDENTIFIERS :
          /\ CanDeclare(id)
          /\ Declare(id, Element("FUNC", Pc))
          /\ context' = Rule("function")
          /\ UNCHANGED <<strings_storage, objects_storage>>
    BY DEF DeclareAndDefineFunction
  <1>2. Pc \in Nat /\ StringsOK'
    BY <1>1 DEF Inv, AsmInv, StringsOK, BufferOK, Pc
  <1>3. PICK v \in Nat : v = Pc
    BY <1>2
  <1>4. QED
    BY <1>1, <1>2, <1>3, DeclareOther

LEMMA DeclareObjectKeeps ==
  ASSUME Inv, DeclareObject, UNCHANGED <<file, loaded>>
  PROVE  Inv'
  <1> DEFINE new == [data_fields |-> <<>>, methods |-> <<>>,
                     methods_bc_offsets |-> <<>>]
             elem == Element("OBJ", Len(objects_storage))
  <1>1. PICK id \in IDENTIFIERS :
          /\ CanDeclare(id)
          /\ Declare(id, elem)
          /\ objects_storage' = Append(objects_storage, new)
          /\ context' = Rule("object")
          /\ UNCHANGED strings_storage
    BY DEF DeclareObject
  <1>2. new \in Descr /\ Len(new.methods) = Len(new.methods_bc_offsets)
    BY DEF Descr
  <1>3. objects_storage \in Seq(Descr) /\ Len(objects_storage) \in Nat
    BY DEF Inv, AsmInv, ObjectsOK
  <1>4. /\ elem \in [type : ElementType, val : Nat]
        /\ elem.type = "OBJ" /\ elem.val = Len(objects_storage)
    BY <1>3 DEF Element, ElementType
  <1> HIDE DEF new, elem
  <1>5. ContextOK' /\ StringsOK'
    BY <1>1 DEF Inv, AsmInv, ContextOK, StringsOK, Rule
  <1>6. ObjectsOK'
    <2>1. /\ objects_storage' \in Seq(Descr)
          /\ DOMAIN objects_storage = 1 .. Len(objects_storage)
          /\ DOMAIN objects_storage' = 1 .. Len(objects_storage) + 1
          /\ objects_storage'[Len(objects_storage) + 1] = new
          /\ \A k \in 1 .. Len(objects_storage) :
               objects_storage'[k] = objects_storage[k]
          /\ objects_storage' # <<>>
      BY <1>1, <1>2, <1>3
    <2>2. \A k \in DOMAIN objects_storage' :
            Len(objects_storage'[k].methods)
              = Len(objects_storage'[k].methods_bc_offsets)
      BY <1>2, <1>3, <2>1 DEF Inv, AsmInv, ObjectsOK
    <2>3. \A i \in Byte : constant_pool'[i].type = "OBJ" =>
            constant_pool'[i].val + 1 \in DOMAIN objects_storage'
      <3>1. constant_pool' = [constant_pool EXCEPT ![FreshIndex] = elem]
        BY <1>1 DEF Declare
      <3>2. \A i \in Byte : \/ constant_pool'[i] = elem
                            \/ constant_pool'[i] = constant_pool[i]
        BY <3>1 DEF Inv, AsmInv, PoolOK
      <3>3. DOMAIN objects_storage \subseteq DOMAIN objects_storage'
        BY <1>3, <2>1
      <3>4. elem.val + 1 \in DOMAIN objects_storage'
        BY <1>3, <1>4, <2>1
      <3>5. \A i \in Byte : constant_pool[i].type = "OBJ" =>
              constant_pool[i].val + 1 \in DOMAIN objects_storage
        BY DEF Inv, AsmInv, ObjectsOK
      <3>6. QED
        BY <3>2, <3>3, <3>4, <3>5
    <2>4. QED
      BY <2>1, <2>2, <2>3 DEF ObjectsOK
  <1>7. QED
    BY <1>1, <1>4, <1>5, <1>6, DeclareKeeps


\* Members of the object being declared.
LEMMA SetObjectKeeps ==
  ASSUME Inv, In({"object"}), UNCHANGED <<file, loaded>>,
         NEW descr \in Descr,
         Len(descr.methods) = Len(descr.methods_bc_offsets),
         SetObjectDescr(descr), ContextOK',
         context' = context \/ context' = Rule("method")
  PROVE  Inv'
  <1>1. status = "run" /\ context.rule = "object"
    BY DEF In
  <1>2. /\ objects_storage' =
             [objects_storage EXCEPT ![Len(objects_storage)] = descr]
        /\ UNCHANGED <<instructions_buffer, declared_objects, declared_labels,
                       unresolved_labels, strings_storage, constant_pool,
                       status>>
    BY DEF SetObjectDescr, tables
  <1>3. FileInv' /\ LoadedInv'
    BY <1>1, <1>2, NoFileYet
  <1>4. BufferOK' /\ LabelsOK' /\ LabelsReached'
    BY <1>1, <1>2, CodeStays
  <1>5. IndicesOK' /\ PoolOK' /\ StringsOK'
    BY <1>2 DEF Inv, AsmInv, IndicesOK, Declared, InUse, PoolOK, StringsOK
  <1>6. PendingOK'
    <2>1. DOMAIN unresolved_labels = {}
      BY <1>1 DEF Inv, AsmInv, PendingOK, Body
    <2>2. QED
      BY <1>2, <2>1 DEF PendingOK
  <1>7. ObjectsOK'
    <2>1. objects_storage \in Seq(Descr) /\ objects_storage # <<>>
      BY <1>1 DEF Inv, AsmInv, ObjectsOK
    <2>2. /\ objects_storage' \in Seq(Descr)
          /\ DOMAIN objects_storage' = DOMAIN objects_storage
          /\ \A k \in DOMAIN objects_storage : \/ objects_storage'[k] = descr
                                               \/ objects_storage'[k] = objects_storage[k]
          /\ objects_storage' # <<>>
      BY <1>2, <2>1
    <2>3. QED
      BY <1>2, <2>2 DEF Inv, AsmInv, ObjectsOK
  <1>8. QED
    BY <1>3, <1>4, <1>5, <1>6, <1>7 DEF Inv, AsmInv

\* The description of that object.
LEMMA ObjectDescrOK ==
  ASSUME Inv, In({"object"})
  PROVE  /\ ObjectDescr \in Descr
         /\ Len(ObjectDescr.methods) = Len(ObjectDescr.methods_bc_offsets)
  <1>1. objects_storage \in Seq(Descr) /\ objects_storage # <<>>
    BY DEF Inv, AsmInv, ObjectsOK, In
  <1>2. Len(objects_storage) \in DOMAIN objects_storage
    BY <1>1
  <1>3. QED
    BY <1>1, <1>2 DEF Inv, AsmInv, ObjectsOK, ObjectDescr, Last

LEMMA DataMemberKeeps ==
  ASSUME Inv, DeclareAndDefineAnyDataMember, UNCHANGED <<file, loaded>>
  PROVE  Inv'
  <1>1. In({"object"}) /\ context' = context
    BY DEF DeclareAndDefineAnyDataMember, RoomForMember
  <1>2. PICK d : d = ObjectDescr
    OBVIOUS
  <1>3. PICK m \in MEMBERS :
          SetObjectDescr([d EXCEPT !.data_fields = Append(@, m)])
    BY <1>2 DEF DeclareAndDefineAnyDataMember
  <1>4. d \in Descr /\ Len(d.methods) = Len(d.methods_bc_offsets)
    BY <1>1, <1>2, ObjectDescrOK
  <1> DEFINE e == [d EXCEPT !.data_fields = Append(@, m)]
  <1>5. e \in Descr /\ Len(e.methods) = Len(e.methods_bc_offsets)
    <2>1. Append(d.data_fields, m) \in Seq(MEMBERS)
      BY <1>4 DEF Descr
    <2>2. QED
      BY <1>4, <2>1 DEF Descr
  <1>6. ContextOK'
    BY <1>1 DEF Inv, AsmInv, ContextOK
  <1> HIDE DEF e
  <1>7. SetObjectDescr(e)
    BY <1>3 DEF e
  <1>8. QED
    BY <1>1, <1>5, <1>6, <1>7, SetObjectKeeps

LEMMA MethodKeeps ==
  ASSUME Inv, DeclareAndDefineMethod, UNCHANGED <<file, loaded>>
  PROVE  Inv'
  <1>1. In({"object"}) /\ context' = Rule("method")
    BY DEF DeclareAndDefineMethod, RoomForMember
  <1>2. PICK d, pc : d = ObjectDescr /\ pc = Pc
    OBVIOUS
  <1>3. PICK m \in MEMBERS :
          SetObjectDescr([d EXCEPT !.methods = Append(@, m),
                                   !.methods_bc_offsets = Append(@, pc)])
    BY <1>2 DEF DeclareAndDefineMethod
  <1>4. d \in Descr /\ Len(d.methods) = Len(d.methods_bc_offsets)
    BY <1>1, <1>2, ObjectDescrOK
  <1>5. pc \in Nat
    BY <1>2 DEF Inv, AsmInv, BufferOK, Pc
  <1> DEFINE e == [d EXCEPT !.methods = Append(@, m),
                            !.methods_bc_offsets = Append(@, pc)]
  <1>6. e \in Descr /\ Len(e.methods) = Len(e.methods_bc_offsets)
    <2>1. d.methods \in Seq(MEMBERS) /\ d.methods_bc_offsets \in Seq(Nat)
      BY <1>4 DEF Descr
    <2>2. /\ Append(d.methods, m) \in Seq(MEMBERS)
          /\ Append(d.methods_bc_offsets, pc) \in Seq(Nat)
          /\ Len(Append(d.methods, m)) = Len(Append(d.methods_bc_offsets, pc))
      BY <1>4, <1>5, <2>1
    <2>3. QED
      BY <1>4, <2>2 DEF Descr
  <1>7. ContextOK'
    BY <1>1 DEF ContextOK, Rule
  <1> HIDE DEF e
  <1>8. SetObjectDescr(e)
    BY <1>3 DEF e
  <1>9. QED
    BY <1>1, <1>6, <1>7, <1>8, SetObjectKeeps

\* A rule of the grammar ends.
LEMMA RuleEnds ==
  ASSUME Inv, status = "run", DOMAIN unresolved_labels = {},
         UNCHANGED <<file, loaded, instructions_buffer, tables, storage, status>>,
         \/ context' = Rule("program")
         \/ context.rule = "method" /\ context' = Rule("object")
  PROVE  Inv'
  <1>1. UNCHANGED <<instructions_buffer, declared_objects, declared_labels,
                    unresolved_labels, strings_storage, objects_storage,
                    constant_pool, status>>
    BY DEF tables, storage
  <1>2. FileInv' /\ LoadedInv'
    BY NoFileYet
  <1>3. BufferOK' /\ LabelsOK' /\ LabelsReached'
    BY <1>1, CodeStays
  <1>4. /\ ContextOK'
        /\ context'.rule = "object" => context.rule = "method"
        /\ context'.rule \in {"program", "object"}
    <2>1. CASE context' = Rule("program")
      BY <2>1 DEF ContextOK, Rule
    <2>2. CASE context.rule = "method" /\ context' = Rule("object")
      BY <2>2 DEF ContextOK, Rule
    <2>3. QED
      BY <2>1, <2>2
  <1>5. IndicesOK' /\ PoolOK' /\ StringsOK'
    BY <1>1 DEF Inv, AsmInv, IndicesOK, Declared, InUse, PoolOK, StringsOK
  <1>6. PendingOK'
    BY <1>1 DEF PendingOK
  <1>7. ObjectsOK'
    BY <1>1, <1>4 DEF Inv, AsmInv, ObjectsOK
  <1>8. QED
    BY <1>2, <1>3, <1>4, <1>5, <1>6, <1>7 DEF Inv, AsmInv

LEMMA EndOfObjectKeeps ==
  ASSUME Inv, EndOfObject, UNCHANGED <<file, loaded>>
  PROVE  Inv'
  <1>1. status = "run" /\ context.rule = "object"
    BY DEF EndOfObject, In
  <1>2. DOMAIN unresolved_labels = {}
    BY <1>1 DEF Inv, AsmInv, PendingOK, Body
  <1>3. QED
    BY <1>1, <1>2, RuleEnds DEF EndOfObject

LEMMA CheckLabelsKeeps ==
  ASSUME Inv, CheckLabelsResolved, UNCHANGED <<file, loaded>>
  PROVE  Inv'
  <1>1. status = "run" /\ context.rule \in Body
    BY DEF CheckLabelsResolved, In
  <1>2. CASE Abort("FATAL") \/ Abort("UNDEFINED")
    BY <1>1, <1>2, AbortKeeps
  <1>3. CASE /\ LabelsResolved
             /\ context' = Rule(IF context.rule = "method" THEN "object"
                                                           ELSE "program")
             /\ UNCHANGED <<instructions_buffer, tables, storage, status>>
    <2>1. DOMAIN unresolved_labels = {}
      BY <1>3 DEF LabelsResolved
    <2>2. QED
      BY <1>1, <1>3, <2>1, RuleEnds
  <1>4. QED
    BY <1>2, <1>3 DEF CheckLabelsResolved

----------------------------------------------------------------------------
(* Instructions and labels *)

\* The code with one more instruction.
LEMMA BufferGrows ==
  ASSUME BufferOK, NEW rec \in Instruction,
         instructions_buffer' = Append(instructions_buffer, rec)
  PROVE  /\ BufferOK' /\ Pc \in Nat /\ Pc' = Pc + 1
         /\ \A pc \in 0 .. Pc - 1 : Inst(pc)' = Inst(pc)
         /\ instructions_buffer'[Pc + 1] = rec
  <1>1. instructions_buffer \in Seq(Instruction)
    BY DEF BufferOK
  <1> DEFINE n == Len(instructions_buffer)
  <1>2. /\ n \in Nat /\ Len(instructions_buffer') = n + 1
        /\ instructions_buffer' \in Seq(Instruction)
        /\ \A k \in 1 .. n : instructions_buffer'[k] = instructions_buffer[k]
        /\ instructions_buffer'[n + 1] = rec
    BY <1>1
  <1> HIDE DEF n
  <1>3. Pc = n
    BY DEF Pc, n
  <1>4. ASSUME NEW pc \in 0 .. n - 1
        PROVE  Inst(pc)' = Inst(pc)
    <2>1. pc + 1 \in 1 .. n
      BY <1>2
    <2>2. QED
      BY <1>2, <2>1 DEF Inst
  <1>5. QED
    BY <1>2, <1>3, <1>4 DEF BufferOK, Pc

\* The instruction at pc leads to l or waits for it.
Reached(pc, l) ==
  IF l \in DOMAIN declared_labels
  THEN Fits(declared_labels[l] - pc) =>
         pc + Signed(Inst(pc).operands) = declared_labels[l]
  ELSE status = "run" /\ pc \in Pending(l)

AllReached ==
  status \in {"run", "done"} =>
    \A pc \in 0 .. Pc - 1 : \A x :
      NamesLabel(pc) /\ Inst(pc).src = x => Reached(pc, x)

LEMMA ReachedForm == LabelsReached <=> AllReached
  BY DEF LabelsReached, AllReached, Reached

\* What an instruction promises when it is encoded.
Promises(src, constant, operand) ==
  src # "none" /\ ~constant =>
    IF src \in DOMAIN declared_labels
    THEN Fits(declared_labels[src] - Pc) =>
           Pc + Signed(operand) = declared_labels[src]
    ELSE Pc \in {unresolved_labels'[src][k] : k \in DOMAIN unresolved_labels'[src]}
         /\ src \in DOMAIN unresolved_labels'

LEMMA EncodeKeeps ==
  ASSUME Inv, In(Body), UNCHANGED <<file, loaded>>,
         NEW op \in ImmOps \cup OtherOps, NEW operand \in Byte,
         NEW src \in IDENTIFIERS \cup {"none"}, NEW constant \in BOOLEAN,
         Encode(op, operand, src, constant),
         Promises(src, constant, operand), PendingOK',
         \A l : Pending(l) \subseteq Pending(l)'
  PROVE  Inv'
  <1> DEFINE rec == [opcode |-> op, operands |-> operand,
                     src |-> src, constant |-> constant]
  <1>1. /\ instructions_buffer' = Append(instructions_buffer, rec)
        /\ context' = Filled
        /\ UNCHANGED <<declared_objects, declared_labels, strings_storage,
                       objects_storage, constant_pool, status>>
    BY DEF Encode, storage
  <1>2. rec \in Instruction
    BY DEF Instruction
  <1>3. /\ rec.src = src /\ rec.constant = constant /\ rec.operands = operand
    OBVIOUS
  <1> HIDE DEF rec
  <1>4. status = "run" /\ context.rule \in Body
    BY DEF In
  <1>5. PICK p : p = Pc
    OBVIOUS
  <1>6. /\ BufferOK' /\ p \in Nat /\ Pc' = p + 1
        /\ \A pc \in 0 .. p - 1 : Inst(pc)' = Inst(pc)
        /\ instructions_buffer'[p + 1] = rec
    BY <1>1, <1>2, <1>5, BufferGrows DEF Inv, AsmInv
  <1>7. FileInv' /\ LoadedInv'
    BY <1>1, <1>4, NoFileYet
  <1>8. LabelsOK'
    BY <1>1, <1>5, <1>6 DEF LabelsOK, Inv, AsmInv
  <1>9. ContextOK' /\ context'.rule = context.rule
    BY <1>1 DEF Filled, ContextOK, Inv, AsmInv
  <1>10. IndicesOK' /\ PoolOK' /\ StringsOK' /\ ObjectsOK'
    BY <1>1, <1>9 DEF Inv, AsmInv, IndicesOK, Declared, InUse, PoolOK,
                      StringsOK, ObjectsOK
  <1>11. LabelsReached'
    <2>1. ASSUME NEW pc \in 0 .. p, NEW l, NamesLabel(pc)',
                 (Inst(pc).src = l)'
          PROVE  Reached(pc, l)'
      <3>1. CASE pc \in 0 .. p - 1
        <4>1. Inst(pc)' = Inst(pc) /\ NamesLabel(pc) /\ Inst(pc).src = l
          BY <1>6, <2>1, <3>1 DEF NamesLabel
        <4>2. Reached(pc, l)
          BY <1>4, <1>5, <3>1, <4>1, ReachedForm DEF Inv, AllReached
        <4>3. Pending(l) \subseteq Pending(l)'
          OBVIOUS
        <4>4. QED
          BY <1>1, <4>1, <4>2, <4>3 DEF Reached
      <3>2. CASE pc = p
        <4>1. Inst(pc)' = rec
          BY <1>6, <3>2 DEF Inst
        <4>2. l = src /\ src # "none" /\ ~constant
          BY <1>3, <2>1, <4>1 DEF NamesLabel
        <4>3. Inst(pc)'.operands = operand
          BY <1>3, <4>1
        <4>4. CASE l \in DOMAIN declared_labels
          BY <1>1, <1>5, <3>2, <4>2, <4>3, <4>4 DEF Promises, Reached
        <4>5. CASE l \notin DOMAIN declared_labels
          BY <1>1, <1>4, <1>5, <3>2, <4>2, <4>5 DEF Promises, Reached, Pending
        <4>6. QED
          BY <4>4, <4>5
      <3>3. QED
        BY <1>6, <3>1, <3>2
    <2>2. AllReached'
      <3>1. 0 .. p = 0 .. Pc' - 1
        BY <1>6
      <3>2. QED
        BY <2>1, <3>1 DEF AllReached
    <2>3. QED
      BY <2>2, ReachedForm, PTL
  <1>12. QED
    BY <1>6, <1>7, <1>8, <1>9, <1>10, <1>11 DEF Inv, AsmInv


\* The references that wait when one more does, or none more.
Waiting(src) ==
  Put(unresolved_labels, src,
      IF src \in DOMAIN unresolved_labels
      THEN Append(unresolved_labels[src], Pc) ELSE <<Pc>>)

LEMMA EncodePending ==
  ASSUME Inv, In(Body),
         NEW op \in ImmOps \cup OtherOps, NEW operand \in Byte,
         NEW src \in IDENTIFIERS \cup {"none"}, NEW constant \in BOOLEAN,
         Encode(op, operand, src, constant),
         unresolved_labels' = unresolved_labels
           \/ unresolved_labels' = Waiting(src)
  PROVE  PendingOK' /\ \A l : Pending(l) \subseteq Pending(l)'
  <1> DEFINE rec == [opcode |-> op, operands |-> operand,
                     src |-> src, constant |-> constant]
  <1>1. /\ instructions_buffer' = Append(instructions_buffer, rec)
        /\ context' = Filled
        /\ UNCHANGED status
    BY DEF Encode
  <1>2. rec \in Instruction /\ rec.src = src
    BY DEF Instruction
  <1> HIDE DEF rec
  <1>3. status = "run" /\ context.rule \in Body
    BY DEF In
  <1>4. context'.rule \in Body
    BY <1>1, <1>3 DEF Filled, ContextOK, Inv, AsmInv
  <1>5. PICK p : p = Pc
    OBVIOUS
  <1>6. /\ p \in Nat /\ Pc' = p + 1
        /\ \A pc \in 0 .. p - 1 : Inst(pc)' = Inst(pc)
        /\ instructions_buffer'[p + 1] = rec
    BY <1>1, <1>2, <1>5, BufferGrows DEF Inv, AsmInv
  <1>7. Inst(p)'.src = src
    BY <1>2, <1>6 DEF Inst
  <1>8. ASSUME NEW l \in DOMAIN unresolved_labels
        PROVE  /\ unresolved_labels[l] \in Seq(Nat)
               /\ \A k \in DOMAIN unresolved_labels[l] :
                    /\ unresolved_labels[l][k] \in 0 .. p - 1
                    /\ (Inst(unresolved_labels[l][k]).src) = l
    BY <1>3, <1>5, <1>6 DEF Inv, AsmInv, PendingOK
  <1>9. ASSUME NEW l \in DOMAIN unresolved_labels'
        PROVE  /\ unresolved_labels'[l] \in Seq(Nat)
               /\ \A k \in DOMAIN unresolved_labels'[l] :
                    \/ /\ l \in DOMAIN unresolved_labels
                       /\ k \in DOMAIN unresolved_labels[l]
                       /\ unresolved_labels'[l][k] = unresolved_labels[l][k]
                    \/ unresolved_labels'[l][k] = p /\ l = src
    <2>1. CASE unresolved_labels' = unresolved_labels
      BY <1>8, <2>1
    <2>2. CASE unresolved_labels' = Waiting(src) /\ l # src
      <3>1. /\ l \in DOMAIN unresolved_labels
            /\ unresolved_labels'[l] = unresolved_labels[l]
        BY <2>2 DEF Waiting, Put
      <3>2. QED
        BY <1>8, <3>1
    <2>3. CASE unresolved_labels' = Waiting(src) /\ l = src
      <3>1. unresolved_labels'[l] =
              IF l \in DOMAIN unresolved_labels
              THEN Append(unresolved_labels[l], p) ELSE <<p>>
        BY <1>5, <2>3 DEF Waiting, Put
      <3>2. CASE l \in DOMAIN unresolved_labels
        <4>1. PICK q : q = unresolved_labels[l]
          OBVIOUS
        <4>2. q \in Seq(Nat)
          BY <1>8, <3>2, <4>1
        <4>3. unresolved_labels'[l] = Append(q, p)
          BY <3>1, <3>2, <4>1
        <4>4. /\ Append(q, p) \in Seq(Nat)
              /\ \A k \in DOMAIN Append(q, p) :
                   \/ k \in DOMAIN q /\ Append(q, p)[k] = q[k]
                   \/ Append(q, p)[k] = p
          BY <1>6, <4>2
        <4>5. QED
          BY <2>3, <3>2, <4>1, <4>3, <4>4
      <3>3. CASE l \notin DOMAIN unresolved_labels
        <4>1. unresolved_labels'[l] = <<p>>
          BY <3>1, <3>3
        <4>2. <<p>> \in Seq(Nat) /\ DOMAIN <<p>> = {1} /\ <<p>>[1] = p
          BY <1>6
        <4>3. QED
          BY <2>3, <4>1, <4>2
      <3>4. QED
        BY <3>2, <3>3
    <2>4. QED
      BY <2>1, <2>2, <2>3
  <1>10. PendingOK'
    <2>1. ASSUME NEW l \in DOMAIN unresolved_labels',
                 NEW k \in DOMAIN unresolved_labels'[l]
          PROVE  /\ unresolved_labels'[l][k] < Pc'
                 /\ (Inst(unresolved_labels[l][k]).src = l)'
      <3>1. CASE /\ l \in DOMAIN unresolved_labels
                 /\ k \in DOMAIN unresolved_labels[l]
                 /\ unresolved_labels'[l][k] = unresolved_labels[l][k]
        <4>1. PICK q : q = unresolved_labels[l][k]
          OBVIOUS
        <4>2. q \in 0 .. p - 1 /\ Inst(q).src = l
          BY <1>8, <3>1, <4>1
        <4>3. Inst(q)' = Inst(q)
          BY <1>6, <4>2
        <4>4. q < Pc'
          BY <1>6, <4>2
        <4>5. QED
          BY <3>1, <4>1, <4>2, <4>3, <4>4 DEF Inst
      <3>2. CASE unresolved_labels'[l][k] = p /\ l = src
        BY <1>6, <1>7, <3>2 DEF Inst
      <3>3. QED
        BY <1>9, <2>1, <3>1, <3>2
    <2>2. QED
      BY <1>4, <1>9, <2>1 DEF PendingOK
  <1>11. ASSUME NEW l
         PROVE  Pending(l) \subseteq Pending(l)'
    <2>1. CASE unresolved_labels' = unresolved_labels
      BY <2>1 DEF Pending
    <2>2. CASE unresolved_labels' = Waiting(src) /\ l # src
      BY <2>2 DEF Pending, Waiting, Put
    <2>3. CASE unresolved_labels' = Waiting(src) /\ l = src
      <3>1. CASE l \in DOMAIN unresolved_labels
        <4>1. PICK q : q = unresolved_labels[l]
          OBVIOUS
        <4>2. q \in Seq(Nat)
          BY <1>8, <3>1, <4>1
        <4>3. /\ unresolved_labels'[l] = Append(q, p)
              /\ l \in DOMAIN unresolved_labels'
          BY <1>5, <2>3, <3>1, <4>1 DEF Waiting, Put
        <4>4. \A k \in DOMAIN q : k \in DOMAIN Append(q, p)
                                  /\ Append(q, p)[k] = q[k]
          BY <1>6, <4>2
        <4>5. QED
          BY <3>1, <4>1, <4>3, <4>4 DEF Pending
      <3>2. QED
        BY <3>1 DEF Pending
    <2>4. QED
      BY <2>1, <2>2, <2>3
  <1>12. QED
    BY <1>10, <1>11

\* Instructions without a name.
LEMMA EncodePlain ==
  ASSUME Inv, In(Body), UNCHANGED <<file, loaded, unresolved_labels>>,
         NEW op \in ImmOps \cup OtherOps, NEW operand \in Byte,
         Encode(op, operand, "none", FALSE)
  PROVE  Inv'
  <1>1. PICK src \in IDENTIFIERS \cup {"none"}, constant \in BOOLEAN :
          src = "none" /\ constant = FALSE
    OBVIOUS
  <1>2. Encode(op, operand, src, constant)
    BY <1>1
  <1>3. PendingOK' /\ \A l : Pending(l) \subseteq Pending(l)'
    BY <1>2, EncodePending
  <1>4. Promises(src, constant, operand)
    BY <1>1 DEF Promises
  <1>5. QED
    BY <1>2, <1>3, <1>4, EncodeKeeps

LEMMA EncodeOtherKeeps ==
  ASSUME Inv, EncodeOther, UNCHANGED <<file, loaded>>
  PROVE  Inv'
  <1>1. In(Body) /\ UNCHANGED unresolved_labels
    BY DEF EncodeOther
  <1>2. PICK op \in OtherOps : Encode(op, 0, "none", FALSE)
    BY DEF EncodeOther
  <1>3. 0 \in Byte
    BY PoolSize DEF Byte
  <1>4. QED
    BY <1>1, <1>2, <1>3, EncodePlain

LEMMA EncodeLiteralKeeps ==
  ASSUME Inv, EncodeLiteral, UNCHANGED <<file, loaded>>
  PROVE  Inv'
  <1>1. In(Body) /\ UNCHANGED unresolved_labels
    BY DEF EncodeLiteral
  <1>2. PICK op \in ImmOps, n \in NUMS : Encode(op, Unsigned(n), "none", FALSE)
    BY DEF EncodeLiteral
  <1>3. n \in Int
    BY SourceAssumption
  <1>4. PICK operand \in Byte : operand = Unsigned(n)
    BY <1>3, UnsignedFacts
  <1>5. QED
    BY <1>1, <1>2, <1>4, EncodePlain

\* TryResolveName, by what the name is.
LEMMA EncodeImmKeeps ==
  ASSUME Inv, EncodeImm, UNCHANGED <<file, loaded>>
  PROVE  Inv'
  <1>1. In(Body)
    BY DEF EncodeImm
  <1>2. PICK op \in ImmOps, n \in IDENTIFIERS :
          /\ Encode(op, TryResolveName(n), n, IsConstant(n))
          /\ unresolved_labels' = AppendUnresolvedLabels(n)
    BY DEF EncodeImm
  <1>3. Pc \in Nat
    BY DEF Inv, AsmInv, BufferOK, Pc
  <1>4. PICK constant \in BOOLEAN : constant = IsConstant(n)
    <2>1. IsConstant(n) \in BOOLEAN
      BY DEF IsConstant
    <2> WITNESS IsConstant(n) \in BOOLEAN
    <2>2. QED
      OBVIOUS
  <1>5. ASSUME IsLabel(n)
        PROVE  /\ n \in DOMAIN declared_labels
               /\ declared_labels[n] - Pc \in Int /\ declared_labels[n] \in Int
               /\ TryResolveName(n)
                    = Unsigned(Signed(declared_labels[n] - Pc))
    <2>1. n \in DOMAIN declared_labels /\ ~IsConstant(n)
      BY <1>5 DEF IsLabel
    <2>2. declared_labels[n] \in 0 .. Pc
      BY <2>1 DEF Inv, AsmInv, LabelsOK
    <2>3. TryResolveName(n) = Unsigned(Signed(declared_labels[n] - Pc))
      BY <1>5, <2>1 DEF TryResolveName, RelativeOffset
    <2>4. QED
      BY <1>3, <2>1, <2>2, <2>3
  <1>6. TryResolveName(n) \in Byte
    <2>1. CASE IsConstant(n)
      <3>1. TryResolveName(n) = declared_objects[n]
        BY <2>1 DEF TryResolveName, IsLabel
      <3>2. QED
        BY <2>1, <3>1 DEF IsConstant, Inv, AsmInv, IndicesOK
    <2>2. CASE IsLabel(n)
      BY <1>5, <2>2, SignedInt, UnsignedFacts
    <2>3. CASE ~IsConstant(n) /\ ~IsLabel(n)
      BY <2>3, PoolSize DEF TryResolveName, Byte
    <2>4. QED
      BY <2>1, <2>2, <2>3
  <1>7. PICK operand \in Byte : operand = TryResolveName(n)
    BY <1>6
  <1>8. Encode(op, operand, n, constant)
    BY <1>2, <1>4, <1>7
  <1>9. unresolved_labels' = IF IsConstant(n) \/ IsLabel(n)
                             THEN unresolved_labels ELSE Waiting(n)
    BY <1>2 DEF AppendUnresolvedLabels, Waiting
  <1>10. PendingOK' /\ \A l : Pending(l) \subseteq Pending(l)'
    BY <1>1, <1>8, <1>9, EncodePending
  <1>11. Promises(n, constant, operand)
    <2>1. CASE IsConstant(n)
      BY <1>4, <2>1 DEF Promises
    <2>2. CASE IsLabel(n)
      <3>1. PICK L \in Int, p \in Nat : L = declared_labels[n] /\ p = Pc
        BY <1>3, <1>5, <2>2
      <3>2. operand = Unsigned(Signed(L - p)) /\ L - p \in Int
        BY <1>5, <1>7, <2>2, <3>1
      <3>3. Fits(L - p) => p + Signed(operand) = L
        <4>1. Fits(L - p) => Signed(operand) = L - p
          BY <3>2, SignedFits
        <4>2. QED
          BY <4>1
      <3>4. QED
        BY <1>5, <2>2, <3>1, <3>3 DEF Promises
    <2>3. CASE ~IsConstant(n) /\ ~IsLabel(n)
      <3>1. n \notin DOMAIN declared_labels
        BY <2>3 DEF IsLabel
      <3>2. PICK p : p = Pc
        OBVIOUS
      <3>3. unresolved_labels' = Waiting(n)
        BY <1>9, <2>3
      <3>4. /\ n \in DOMAIN unresolved_labels'
            /\ unresolved_labels'[n] = IF n \in DOMAIN unresolved_labels
                                       THEN Append(unresolved_labels[n], p)
                                       ELSE <<p>>
        BY <3>2, <3>3 DEF Waiting, Put
      <3>5. \E k \in DOMAIN unresolved_labels'[n] : unresolved_labels'[n][k] = p
        <4>1. CASE n \in DOMAIN unresolved_labels
          <5>1. PICK q : q = unresolved_labels[n]
            OBVIOUS
          <5>2. q \in Seq(Nat)
            BY <1>1, <4>1, <5>1 DEF In, Inv, AsmInv, PendingOK
          <5>3. /\ Len(q) + 1 \in DOMAIN Append(q, p)
                /\ Append(q, p)[Len(q) + 1] = p
            BY <1>3, <3>2, <5>2
          <5>4. QED
            BY <3>4, <4>1, <5>1, <5>3
        <4>2. CASE n \notin DOMAIN unresolved_labels
          <5>1. 1 \in DOMAIN <<p>> /\ <<p>>[1] = p
            OBVIOUS
          <5>2. QED
            BY <3>4, <4>2, <5>1
        <4>3. QED
          BY <4>1, <4>2
      <3>6. QED
        BY <3>1, <3>2, <3>4, <3>5 DEF Promises
    <2>4. QED
      BY <2>1, <2>2, <2>3
  <1>12. QED
    BY <1>1, <1>8, <1>10, <1>11, EncodeKeeps

\* ResolveUnresolved: the references that wait for l, and they alone, change.
LEMMA PatchedFacts ==
  ASSUME Inv, status = "run", NEW l, instructions_buffer' = Patched(l)
  PROVE  /\ BufferOK' /\ Pc \in Nat /\ Pc' = Pc
         /\ \A pc \in 0 .. Pc - 1 :
              /\ Inst(pc)'.src = Inst(pc).src
              /\ NamesLabel(pc)' = NamesLabel(pc)
              /\ pc \notin Pending(l) => Inst(pc)' = Inst(pc)
              /\ pc \in Pending(l) =>
                   /\ Inst(pc).src = l
                   /\ Inst(pc)'.operands = Unsigned(Signed(Pc - pc))
  <1>1. instructions_buffer \in Seq(Instruction)
    BY DEF Inv, AsmInv, BufferOK
  <1>2. PICK p : p = Pc
    OBVIOUS
  <1>3. p \in Nat /\ DOMAIN instructions_buffer = 1 .. p
    BY <1>1, <1>2 DEF Pc
  <1>4. \A k \in 1 .. p : instructions_buffer[k] \in Instruction
    BY <1>1, <1>3
  <1> DEFINE new(k) == [instructions_buffer[k] EXCEPT
                          !.operands = Unsigned(Signed(p - (k - 1)))]
  <1>5. instructions_buffer' =
          [k \in 1 .. p |-> IF k - 1 \in Pending(l) THEN new(k)
                            ELSE instructions_buffer[k]]
    BY <1>2, <1>3 DEF Patched, RelativeOffset
  <1>6. ASSUME NEW k \in 1 .. p
        PROVE  /\ new(k) \in Instruction
               /\ new(k).src = instructions_buffer[k].src
               /\ new(k).constant = instructions_buffer[k].constant
               /\ new(k).operands = Unsigned(Signed(p - (k - 1)))
    <2>1. p - (k - 1) \in Int
      BY <1>3
    <2>2. Unsigned(Signed(p - (k - 1))) \in Byte
      BY <2>1, SignedInt, UnsignedFacts
    <2>3. QED
      BY <1>4, <2>2 DEF Instruction
  <1> HIDE DEF new
  <1>7. instructions_buffer' \in Seq(Instruction) /\ Len(instructions_buffer') = p
    BY <1>3, <1>4, <1>5, <1>6
  <1>8. \A pc \in Pending(l) : Inst(pc).src = l
    BY DEF Inv, AsmInv, PendingOK, Pending
  <1>9. ASSUME NEW pc \in 0 .. p - 1
        PROVE  /\ Inst(pc)'.src = Inst(pc).src
               /\ Inst(pc)'.constant = Inst(pc).constant
               /\ pc \notin Pending(l) => Inst(pc)' = Inst(pc)
               /\ pc \in Pending(l) =>
                    Inst(pc)'.operands = Unsigned(Signed(p - pc))
    <2>1. PICK k : k = pc + 1
      OBVIOUS
    <2>2. k \in 1 .. p /\ k - 1 = pc
      BY <1>3, <2>1
    <2>3. Inst(pc) = instructions_buffer[k] /\ Inst(pc)' = instructions_buffer'[k]
      BY <2>1 DEF Inst
    <2>4. CASE pc \in Pending(l)
      <3>1. instructions_buffer'[k] = new(k)
        BY <1>5, <2>2, <2>4
      <3>2. new(k).operands = Unsigned(Signed(p - pc))
        BY <1>6, <2>2
      <3>3. QED
        BY <1>6, <2>2, <2>3, <2>4, <3>1, <3>2
    <2>5. CASE pc \notin Pending(l)
      <3>1. instructions_buffer'[k] = instructions_buffer[k]
        BY <1>5, <2>2, <2>5
      <3>2. QED
        BY <2>3, <2>5, <3>1
    <2>6. QED
      BY <2>4, <2>5
  <1>10. \A pc \in 0 .. p - 1 : NamesLabel(pc)' = NamesLabel(pc)
    BY <1>9 DEF NamesLabel
  <1>11. QED
    BY <1>2, <1>3, <1>7, <1>8, <1>9, <1>10 DEF BufferOK, Pc

LEMMA DefineLabelKeeps ==
  ASSUME Inv, DefineLabel, UNCHANGED <<file, loaded>>
  PROVE  Inv'
  <1>1. status = "run" /\ context.rule \in Body
    BY DEF DefineLabel, In
  <1>2. CASE Abort("FATAL")
    BY <1>1, <1>2, AbortKeeps
  <1>3. ASSUME NEW l \in IDENTIFIERS, l \notin DOMAIN declared_labels,
               declared_labels' = Put(declared_labels, l, Pc),
               instructions_buffer' = Patched(l),
               unresolved_labels' = [x \in DOMAIN unresolved_labels \ {l} |->
                                       unresolved_labels[x]],
               context' = Filled,
               UNCHANGED <<declared_objects, storage, status>>
        PROVE  Inv'
    <2>1. UNCHANGED <<declared_objects, strings_storage, objects_storage,
                      constant_pool, status>>
      BY <1>3 DEF storage
    <2>2. PICK p : p = Pc
      OBVIOUS
    <2>3. /\ BufferOK' /\ p \in Nat /\ Pc' = p
          /\ \A pc \in 0 .. p - 1 :
               /\ Inst(pc)'.src = Inst(pc).src
               /\ NamesLabel(pc)' = NamesLabel(pc)
               /\ pc \notin Pending(l) => Inst(pc)' = Inst(pc)
               /\ pc \in Pending(l) =>
                    /\ Inst(pc).src = l
                    /\ Inst(pc)'.operands = Unsigned(Signed(p - pc))
      BY <1>1, <1>3, <2>2, PatchedFacts
    <2>4. /\ DOMAIN declared_labels' = DOMAIN declared_labels \cup {l}
          /\ declared_labels'[l] = p
          /\ \A x \in DOMAIN declared_labels :
               declared_labels'[x] = declared_labels[x]
      BY <1>3, <2>2 DEF Put
    <2>5. LabelsOK'
      BY <2>2, <2>3, <2>4 DEF LabelsOK, Inv, AsmInv
    <2>6. FileInv' /\ LoadedInv'
      BY <1>1, <2>1, NoFileYet
    <2>7. ContextOK' /\ context'.rule = context.rule
      BY <1>3 DEF Filled, ContextOK, Inv, AsmInv
    <2>8. IndicesOK' /\ PoolOK' /\ StringsOK' /\ ObjectsOK'
      BY <2>1, <2>7 DEF Inv, AsmInv, IndicesOK, Declared, InUse, PoolOK,
                        StringsOK, ObjectsOK
    <2>9. PendingOK'
      <3>1. ASSUME NEW x \in DOMAIN unresolved_labels'
            PROVE  /\ x \in DOMAIN unresolved_labels
                   /\ unresolved_labels'[x] = unresolved_labels[x]
        BY <1>3
      <3>2. ASSUME NEW x \in DOMAIN unresolved_labels',
                   NEW k \in DOMAIN unresolved_labels'[x]
            PROVE  /\ unresolved_labels'[x][k] < Pc'
                   /\ (Inst(unresolved_labels[x][k]).src = x)'
        <4>1. PICK q : q = unresolved_labels[x][k]
          OBVIOUS
        <4>2. q \in 0 .. p - 1 /\ Inst(q).src = x
          BY <1>1, <2>2, <2>3, <3>1, <4>1 DEF Inv, AsmInv, PendingOK
        <4>3. Inst(q)'.src = x
          BY <2>3, <4>2
        <4>4. q < Pc'
          BY <2>3, <4>2
        <4>5. QED
          BY <3>1, <4>1, <4>3, <4>4 DEF Inst
      <3>3. QED
        BY <1>1, <2>7, <3>1, <3>2 DEF PendingOK, Inv, AsmInv
    <2>10. LabelsReached'
      <3>1. ASSUME NEW pc \in 0 .. p - 1, NEW x, NamesLabel(pc)',
                   (Inst(pc).src = x)'
            PROVE  Reached(pc, x)'
        <4>1. NamesLabel(pc) /\ Inst(pc).src = x
          BY <2>3, <3>1
        <4>2. Reached(pc, x)
          BY <1>1, <2>2, <4>1, ReachedForm DEF Inv, AllReached
        <4>3. CASE x = l
          <5>1. pc \in Pending(l)
            BY <1>3, <4>2, <4>3 DEF Reached
          <5>2. Inst(pc)'.operands = Unsigned(Signed(p - pc))
            BY <2>3, <5>1
          <5>3. p - pc \in Int /\ pc \in Int
            BY <2>3
          <5>4. Fits(p - pc) => Signed(Unsigned(Signed(p - pc))) = p - pc
            BY <5>3, SignedFits
          <5>5. Fits(p - pc) => pc + Signed(Inst(pc)'.operands) = p
            BY <2>3, <5>2, <5>3, <5>4
          <5>6. QED
            BY <2>4, <4>3, <5>5 DEF Reached
        <4>4. CASE x # l
          <5>1. Inst(pc)' = Inst(pc)
            BY <2>3, <4>1, <4>4
          <5>2. Pending(x)' = Pending(x)
            BY <1>3, <4>4 DEF Pending
          <5>3. /\ x \in DOMAIN declared_labels' <=> x \in DOMAIN declared_labels
                /\ x \in DOMAIN declared_labels =>
                     declared_labels'[x] = declared_labels[x]
            BY <2>4, <4>4
          <5>4. QED
            BY <2>1, <4>2, <5>1, <5>2, <5>3 DEF Reached
        <4>5. QED
          BY <4>3, <4>4
      <3>2. AllReached'
        BY <2>3, <3>1 DEF AllReached
      <3>3. QED
        BY <3>2, ReachedForm, PTL
    <2>11. QED
      BY <2>3, <2>5, <2>6, <2>7, <2>8, <2>9, <2>10 DEF Inv, AsmInv
  <1>4. QED
    BY <1>2, <1>3 DEF DefineLabel

----------------------------------------------------------------------------
(* Writing and loading *)

LEMMA DumpKeeps ==
  ASSUME Inv, DumpClassFile
  PROVE  Inv'
  <1>1. status = "run" /\ context.rule = "program"
    BY DEF DumpClassFile, In
  <1>2. UNCHANGED <<instructions_buffer, declared_objects, declared_labels,
                    strings_storage, objects_storage, constant_pool, context,
                    loaded>>
    BY DEF DumpClassFile, storage
  <1>3. status' \in {"ASSERT", "done"}
    BY DEF DumpClassFile
  <1>4. AsmInv'
    BY <1>2, <1>3 DEF Inv, AsmInv, BufferOK, StringsOK, LabelsOK, PoolOK,
         ContextOK, ObjectsOK, IndicesOK, Declared, InUse, PendingOK, Pc
  <1>5. LabelsReached'
    <2>1. DOMAIN unresolved_labels = {}
      BY <1>1 DEF Inv, AsmInv, PendingOK, Body
    <2>2. ASSUME NEW pc \in 0 .. Pc - 1, NEW x, NamesLabel(pc)',
                 (Inst(pc).src = x)'
          PROVE  Reached(pc, x)'
      <3>1. Inst(pc)' = Inst(pc) /\ NamesLabel(pc) /\ Inst(pc).src = x
        BY <1>2, <2>2 DEF Inst, NamesLabel
      <3>2. Reached(pc, x)
        BY <1>1, <3>1, ReachedForm DEF Inv, AllReached
      <3>3. x \in DOMAIN declared_labels
        BY <2>1, <3>2 DEF Reached, Pending
      <3>4. QED
        BY <1>2, <3>1, <3>2, <3>3 DEF Reached
    <2>3. AllReached'
      BY <1>2, <2>2 DEF AllReached, Pc
    <2>4. QED
      BY <2>3, ReachedForm, PTL
  <1>6. loaded = NoFile
    BY <1>1 DEF Inv, FileInv
  <1>7. FileInv'
    <2>1. /\ MainId' = MainId
          /\ \A i : InUse(i)' = InUse(i)
          /\ \A i : Record(i)' = Record(i)
      BY <1>2 DEF MainId, TryResolveName, IsConstant, IsLabel, Pc, InUse,
                  Record, Payload
    <2>2. CASE status' = "ASSERT"
      BY <1>2, <1>6, <2>2 DEF FileInv
    <2>3. CASE status' = "done"
      <3>1. file' = [entry_point |-> constant_pool[MainId].val,
                     code |-> instructions_buffer,
                     records |-> {Record(i) : i \in {j \in WrittenIds : InUse(j)}},
                     zeros |-> \E j \in Byte \ WrittenIds : InUse(j)]
        BY <2>3 DEF DumpClassFile
      <3>2. /\ file'.entry_point = constant_pool[MainId].val
            /\ file'.records = {Record(i) : i \in {j \in WrittenIds : InUse(j)}}
            /\ file'.zeros = (\E j \in Byte \ WrittenIds : InUse(j))
        BY <3>1
      <3>3. {Record(i)' : i \in {j \in WrittenIds : InUse(j)'}}
              = {Record(i) : i \in {j \in WrittenIds : InUse(j)}}
        BY <2>1
      <3>4. (\E j \in Byte \ WrittenIds : InUse(j)')
              = (\E j \in Byte \ WrittenIds : InUse(j))
        BY <2>1
      <3>5. QED
        BY <1>2, <1>6, <2>1, <2>3, <3>2, <3>3, <3>4 DEF FileInv
    <2>4. QED
      BY <1>3, <2>2, <2>3
  <1>8. LoadedInv'
    BY <1>2, <1>6 DEF LoadedInv
  <1>9. QED
    BY <1>4, <1>5, <1>7, <1>8 DEF Inv

\* The records of a file with index i.
At(rs, i) == {r \in rs : Unsigned(r.id) = i}

LEMMA RecordFacts ==
  ASSUME NEW i \in Byte
  PROVE  /\ Record(i).type = constant_pool[i].type
         /\ Record(i).payload = Payload(constant_pool[i])
         /\ Record(i).id = Signed(i)
         /\ Unsigned(Record(i).id) = i
  BY SignedByte DEF Record

\* A record is found under the index of its element, and no other is.
LEMMA AtWritten ==
  ASSUME NEW i \in Byte, NEW S \in SUBSET Byte,
         NEW R, R = {Record(j) : j \in S}
  PROVE  At(R, i) = IF i \in S THEN {Record(i)} ELSE {}
  <1>1. \A j \in S : Unsigned(Record(j).id) = j
    BY RecordFacts
  <1>2. QED
    BY <1>1 DEF At

LEMMA LoadRestores ==
  ASSUME Inv, status = "done", NEW i \in Byte
  PROVE  \/ /\ i \in WrittenIds /\ InUse(i)
            /\ At(RecordsRead, i) = {Record(i)}
         \/ /\ At(RecordsRead, i) = {} \/ At(RecordsRead, i) = {ZeroRecord}
            /\ \/ i \notin WrittenIds \/ ~InUse(i)
               \/ \E j \in Byte \ WrittenIds : InUse(j)
  <1> DEFINE S == {j \in WrittenIds : InUse(j)}
  <1>1. /\ file.records = {Record(j) : j \in S}
        /\ file.zeros = (\E j \in Byte \ WrittenIds : InUse(j))
    BY DEF Inv, FileInv
  <1>2. S \in SUBSET Byte
    BY DEF WrittenIds
  <1>3. At(file.records, i) = IF i \in S THEN {Record(i)} ELSE {}
    BY <1>1, <1>2, AtWritten
  <1>4. CASE ~file.zeros
    BY <1>3, <1>4 DEF RecordsRead
  <1>5. CASE file.zeros
    <2>1. RecordsRead = {r \in file.records : r.id # 0} \cup {ZeroRecord}
      BY <1>5 DEF RecordsRead
    <2>2. ZeroRecord.id = 0 /\ Unsigned(0) = 0 /\ 0 \in Byte
      BY PoolSize, UnsignedFacts DEF ZeroRecord, Byte
    <2>3. At(RecordsRead, i) = {r \in At(file.records, i) : r.id # 0}
                                 \cup (IF i = 0 THEN {ZeroRecord} ELSE {})
      BY <2>1, <2>2 DEF At
    <2>4. CASE i = 0
      <3>1. Record(i).id = 0
        BY <2>4, PoolSize, SignedByte, RecordFacts
      <3>2. At(RecordsRead, i) = {ZeroRecord}
        BY <1>3, <2>3, <2>4, <3>1
      <3>3. QED
        BY <1>1, <1>5, <3>2
    <2>5. CASE i # 0
      <3>1. Record(i).id # 0
        BY <2>2, <2>5, RecordFacts
      <3>2. At(RecordsRead, i) = At(file.records, i)
        BY <1>3, <2>3, <2>5, <3>1
      <3>3. QED
        BY <1>3, <3>2
    <2>6. QED
      BY <2>4, <2>5
  <1>6. file.zeros \in BOOLEAN
    BY <1>1
  <1>7. QED
    BY <1>4, <1>5, <1>6

LEMMA LoadKeeps ==
  ASSUME Inv, LoadClassFile
  PROVE  Inv'
  <1>1. /\ status = "done" /\ loaded = NoFile
        /\ UNCHANGED <<instructions_buffer, declared_objects, declared_labels,
                       unresolved_labels, strings_storage, objects_storage,
                       constant_pool, context, file>>
        /\ status' \in {"FATAL", "done"}
    BY DEF LoadClassFile, tables, storage
  <1>2. AsmInv'
    BY <1>1 DEF Inv, AsmInv, BufferOK, StringsOK, LabelsOK, PoolOK, ContextOK,
                ObjectsOK, IndicesOK, Declared, InUse, PendingOK, Pc
  <1>3. LabelsReached'
    <2>1. CASE status' = "FATAL"
      BY <2>1 DEF LabelsReached
    <2>2. CASE status' = "done"
      BY <1>1, <2>2 DEF Inv, LabelsReached, Pc, Inst, NamesLabel, Pending
    <2>3. QED
      BY <1>1, <2>1, <2>2
  <1>4. /\ MainId' = MainId
        /\ \A i : InUse(i)' = InUse(i)
        /\ \A i : Record(i)' = Record(i)
        /\ \A i : Payload(constant_pool[i])' = Payload(constant_pool[i])
    BY <1>1 DEF MainId, TryResolveName, IsConstant, IsLabel, Pc, InUse,
                Record, Payload
  <1>5. CASE \E r \in file.records : Overlapping(r)
    <2>1. status' = "FATAL" /\ loaded' = loaded
      BY <1>5 DEF LoadClassFile
    <2>2. QED
      BY <1>1, <1>2, <1>3, <2>1 DEF Inv, FileInv, LoadedInv
  <1>6. CASE ~\E r \in file.records : Overlapping(r)
    <2> DEFINE objects == {r \in file.records : r.type = "OBJ"}
    <2>1. /\ status' = status
          /\ loaded' =
               [data |->
                  [i \in Byte |->
                     IF At(RecordsRead, i) = {} THEN NoElement
                     ELSE LoadedElement(CHOOSE r \in At(RecordsRead, i) : TRUE)],
                object_mappings |->
                  [i \in Byte |->
                     IF At(objects, i) = {} THEN <<>>
                     ELSE Mapping((CHOOSE r \in At(objects, i) : TRUE).payload)],
                pc |-> file.entry_point]
      BY <1>1, <1>6 DEF LoadClassFile, At
    <2>2. /\ loaded'.pc = file.entry_point
          /\ \A i \in Byte :
               /\ loaded'.data[i] =
                    IF At(RecordsRead, i) = {} THEN NoElement
                    ELSE LoadedElement(CHOOSE r \in At(RecordsRead, i) : TRUE)
               /\ loaded'.object_mappings[i] =
                    IF At(objects, i) = {} THEN <<>>
                    ELSE Mapping((CHOOSE r \in At(objects, i) : TRUE).payload)
      BY <2>1
    <2> DEFINE S == {j \in WrittenIds : InUse(j)}
    <2>3. /\ file.records = {Record(j) : j \in S} /\ S \in SUBSET Byte
          /\ file.entry_point = constant_pool[MainId].val
          /\ file.zeros = (\E j \in Byte \ WrittenIds : InUse(j))
      BY <1>1 DEF Inv, FileInv, WrittenIds
    <2>4. ASSUME NEW i \in Byte
          PROVE  Restored(i)' \/ Lost(i)'
      <3>1. CASE /\ i \in WrittenIds /\ InUse(i)
                 /\ At(RecordsRead, i) = {Record(i)}
        <4>1. loaded'.data[i] = LoadedElement(Record(i))
          BY <2>2, <3>1
        <4>2. ASSUME constant_pool[i].type = "OBJ"
              PROVE  /\ loaded'.object_mappings[i]
                          = Mapping(Payload(constant_pool[i]))
                     /\ IsInjective(Names(Payload(constant_pool[i])))
          <5>1. /\ Record(i).type = "OBJ"
                /\ Record(i).payload = Payload(constant_pool[i])
            BY <4>2, RecordFacts
          <5>2. Record(i) \in file.records
            BY <2>3, <3>1
          <5>3. At(file.records, i) = {Record(i)}
            <6>1. At(file.records, i) = IF i \in S THEN {Record(i)} ELSE {}
              BY <2>3, AtWritten
            <6>2. QED
              BY <3>1, <6>1
          <5>4. At(objects, i) = {Record(i)}
            BY <5>1, <5>3 DEF At
          <5>5. loaded'.object_mappings[i] = Mapping(Record(i).payload)
            BY <2>2, <5>4
          <5>6. IsInjective(Names(Record(i).payload))
            BY <1>6, <5>1, <5>2 DEF Overlapping
          <5>7. QED
            BY <5>1, <5>5, <5>6
        <4>3. Restored(i)'
          <5>1. InUse(i)' /\ i \in WrittenIds
            BY <1>4, <3>1
          <5>2. (loaded.data[i] = LoadedElement(Record(i)))'
            BY <1>4, <4>1
          <5>3. (constant_pool[i].type = "OBJ" =>
                   /\ loaded.object_mappings[i]
                        = Mapping(Payload(constant_pool[i]))
                   /\ IsInjective(Names(Payload(constant_pool[i]))))'
            BY <1>1, <1>4, <4>2
          <5>4. QED
            BY <5>1, <5>2, <5>3 DEF Restored
        <4>4. QED
          BY <4>3
      <3>2. CASE /\ At(RecordsRead, i) = {} \/ At(RecordsRead, i) = {ZeroRecord}
                 /\ \/ i \notin WrittenIds \/ ~InUse(i)
                    \/ \E j \in Byte \ WrittenIds : InUse(j)
        <4>1. /\ NoElement.type = "ANY"
              /\ LoadedElement(ZeroRecord).type = "NUM"
          BY DEF NoElement, Element, LoadedElement, ZeroRecord
        <4>2. loaded'.data[i] \in {NoElement, LoadedElement(ZeroRecord)}
          BY <2>2, <3>2
        <4>3. loaded'.data[i].type \in {"ANY", "NUM"}
          BY <4>1, <4>2
        <4>4. QED
          BY <1>4, <3>2, <4>3 DEF Lost
      <3>3. QED
        BY <1>1, <3>1, <3>2, LoadRestores
    <2>5. LoadedInv'
      BY <1>1, <1>4, <2>2, <2>3, <2>4 DEF LoadedInv
    <2>6. FileInv'
      <3>1. {Record(i)' : i \in {j \in WrittenIds : InUse(j)'}}
              = {Record(i) : i \in {j \in WrittenIds : InUse(j)}}
        BY <1>4
      <3>2. (\E j \in Byte \ WrittenIds : InUse(j)')
              = (\E j \in Byte \ WrittenIds : InUse(j))
        BY <1>4
      <3>3. QED
        BY <1>1, <1>4, <2>1, <2>3, <3>1, <3>2 DEF FileInv
    <2>7. QED
      BY <1>2, <1>3, <2>5, <2>6 DEF Inv
  <1>7. QED
    BY <1>5, <1>6

----------------------------------------------------------------------------
(* The invariant *)

LEMMA InitInv == Init => Inv
  <1> SUFFICES ASSUME Init
               PROVE  Inv
    OBVIOUS
  <1> USE DEF Init, AsmInit
  <1>1. BufferOK /\ StringsOK /\ Pc = 0
    BY DEF BufferOK, StringsOK, Pc
  <1>2. LabelsOK /\ PendingOK
    BY DEF LabelsOK, PendingOK
  <1>3. PoolOK /\ ContextOK
    BY DEF PoolOK, ContextOK, Rule, NoElement, Element, ElementType
  <1>4. \A i \in Byte : constant_pool[i].type = "ANY" /\ ~InUse(i)
    BY DEF NoElement, Element, InUse
  <1>5. ObjectsOK
    BY <1>4 DEF ObjectsOK, Rule
  <1>6. IndicesOK
    <2>1. DOMAIN declared_objects = {} /\ IsFiniteSet({})
      BY FS_EmptySet
    <2>2. QED
      BY <1>4, <2>1 DEF IndicesOK
  <1>7. FileInv /\ LoadedInv
    BY DEF FileInv, LoadedInv
  <1>8. LabelsReached
    BY <1>1 DEF LabelsReached
  <1>9. QED
    BY <1>1, <1>2, <1>3, <1>5, <1>6, <1>7, <1>8 DEF Inv, AsmInv

LEMMA StutterKeeps ==
  ASSUME Inv, UNCHANGED vars
  PROVE  Inv'
  <1> USE DEF vars
  <1>1. AsmInv'
    BY DEF Inv, AsmInv, BufferOK, StringsOK, LabelsOK, PoolOK, ContextOK,
           ObjectsOK, IndicesOK, Declared, InUse, PendingOK, Pc, Inst
  <1>2. LabelsReached'
    BY DEF Inv, LabelsReached, Pc, Inst, NamesLabel, Pending
  <1>3. /\ MainId' = MainId
        /\ \A i : InUse(i)' = InUse(i)
        /\ \A i : Record(i)' = Record(i)
        /\ \A i : Payload(constant_pool[i])' = Payload(constant_pool[i])
    BY DEF MainId, TryResolveName, IsConstant, IsLabel, Pc, InUse, Record,
           Payload
  <1>4. FileInv'
    <2>1. {Record(i)' : i \in {j \in WrittenIds : InUse(j)'}}
            = {Record(i) : i \in {j \in WrittenIds : InUse(j)}}
      BY <1>3
    <2>2. (\E j \in Byte \ WrittenIds : InUse(j)')
            = (\E j \in Byte \ WrittenIds : InUse(j))
      BY <1>3
    <2>3. QED
      BY <1>3, <2>1, <2>2 DEF Inv, FileInv
  <1>5. LoadedInv'
    <2>1. \A i \in Byte : Restored(i)' = Restored(i) /\ Lost(i)' = Lost(i)
      BY <1>3 DEF Restored, Lost
    <2>2. QED
      BY <1>3, <2>1 DEF Inv, LoadedInv
  <1>6. QED
    BY <1>1, <1>2, <1>4, <1>5 DEF Inv

LEMMA AsmStepKeeps ==
  ASSUME Inv, AsmStep, UNCHANGED <<file, loaded>>
  PROVE  Inv'
  <1>1. CASE Redeclare
    BY <1>1, AbortKeeps DEF Redeclare, In
  <1>2. CASE ParsingFailed
    BY <1>2, AbortKeeps DEF ParsingFailed
  <1>3. CASE DefineNum
    BY <1>3, DefineNumKeeps
  <1>4. CASE DefineStr
    BY <1>4, DefineStrKeeps
  <1>5. CASE DeclareAndDefineFunction
    BY <1>5, DeclareFunctionKeeps
  <1>6. CASE DeclareObject
    BY <1>6, DeclareObjectKeeps
  <1>7. CASE DeclareAndDefineAnyDataMember
    BY <1>7, DataMemberKeeps
  <1>8. CASE DeclareAndDefineMethod
    BY <1>8, MethodKeeps
  <1>9. CASE EndOfObject
    BY <1>9, EndOfObjectKeeps
  <1>10. CASE EncodeOther
    BY <1>10, EncodeOtherKeeps
  <1>11. CASE EncodeLiteral
    BY <1>11, EncodeLiteralKeeps
  <1>12. CASE EncodeImm
    BY <1>12, EncodeImmKeeps
  <1>13. CASE DefineLabel
    BY <1>13, DefineLabelKeeps
  <1>14. CASE CheckLabelsResolved
    BY <1>14, CheckLabelsKeeps
  <1>15. QED
    BY <1>1, <1>2, <1>3, <1>4, <1>5, <1>6, <1>7, <1>8, <1>9, <1>10, <1>11,
       <1>12, <1>13, <1>14 DEF AsmStep

LEMMA InvHolds == Spec => []Inv
  <1>1. Inv /\ [Next]_vars => Inv'
    <2>1. ASSUME Inv, AsmStep, UNCHANGED <<file, loaded>>
          PROVE  Inv'
      BY <2>1, AsmStepKeeps
    <2>2. ASSUME Inv, Stopped \/ UNCHANGED vars
          PROVE  Inv'
      BY <2>2, StutterKeeps DEF Stopped
    <2>3. QED
      BY <2>1, <2>2, DumpKeeps, LoadKeeps DEF Next
  <1>2. QED
    BY <1>1, InitInv, PTL DEF Spec

----------------------------------------------------------------------------
(* What follows *)

\* Operands and indices stay within a byte, labels within the code, and the
\* pool keeps one element for each index.
THEOREM TypeCorrect == Spec => []TypeOK
  <1>1. Inv => TypeOK
    <2> SUFFICES ASSUME Inv
                 PROVE  TypeOK
      OBVIOUS
    <2>1. ASSUME NEW pc \in 0 .. Pc - 1
          PROVE  Inst(pc).operands \in Byte
      <3>1. instructions_buffer \in Seq(Instruction)
        BY DEF Inv, AsmInv, BufferOK
      <3>2. pc + 1 \in 1 .. Len(instructions_buffer)
        BY <3>1 DEF Pc
      <3>3. instructions_buffer[pc + 1] \in Instruction
        BY <3>1, <3>2
      <3>4. QED
        BY <3>3 DEF Inst, Instruction
    <2>2. QED
      BY <2>1 DEF TypeOK, Inv, AsmInv, IndicesOK, LabelsOK, PoolOK
  <1>2. QED
    BY <1>1, InvHolds, PTL

\* Every reference to a label within reach leads to it from the moment the
\* label is met, and waits for it until then, for every width of the operand
\* and every mix of labels, functions and objects (ResolveUnresolved,
\* TryResolveName, GetResolveRelativeOffset).
THEOREM ReferencesReachLabels == Spec => []LabelsReached
  BY InvHolds, PTL DEF Inv

\* The pool and the names change together, when a name is declared.
LEMMA OnlyDeclareChanges ==
  ASSUME Next
  PROVE  \/ UNCHANGED <<declared_objects, constant_pool>>
         \/ \E id \in IDENTIFIERS : \E elem :
              CanDeclare(id) /\ Declare(id, elem)
  <1>1. CASE DefineNum \/ DefineStr \/ DeclareAndDefineFunction \/ DeclareObject
    BY <1>1 DEF DefineNum, DefineStr, DeclareAndDefineFunction, DeclareObject
  <1>2. CASE \/ Redeclare \/ ParsingFailed \/ EndOfObject
             \/ CheckLabelsResolved
    BY <1>2 DEF Redeclare, ParsingFailed, EndOfObject, CheckLabelsResolved,
                Abort, tables, storage
  <1>3. CASE DeclareAndDefineAnyDataMember \/ DeclareAndDefineMethod
    BY <1>3 DEF DeclareAndDefineAnyDataMember, DeclareAndDefineMethod,
                SetObjectDescr, tables
  <1>4. CASE EncodeOther \/ EncodeLiteral \/ EncodeImm
    BY <1>4 DEF EncodeOther, EncodeLiteral, EncodeImm, Encode, storage
  <1>5. CASE DefineLabel
    BY <1>5 DEF DefineLabel, Abort, tables, storage
  <1>6. CASE DumpClassFile \/ LoadClassFile \/ Stopped
    BY <1>6 DEF DumpClassFile, LoadClassFile, Stopped, tables, storage, vars
  <1>7. QED
    BY <1>1, <1>2, <1>3, <1>4, <1>5, <1>6 DEF Next, AsmStep

\* DeclareId: as long as the pool has an index for every name, what a name
\* stands for never changes once it is declared.
THEOREM ConstantsNeverChange == Spec => ConstantsStay
  <1> DEFINE Stay == Cardinality(DOMAIN declared_objects') <= POOL_SIZE =>
                       \A n \in DOMAIN declared_objects :
                         constant_pool'[declared_objects[n]]
                           = constant_pool[declared_objects[n]]
  <1>1. ASSUME Inv, Next
        PROVE  Stay
    <2>1. CASE UNCHANGED <<declared_objects, constant_pool>>
      BY <2>1
    <2>2. ASSUME NEW id \in IDENTIFIERS, NEW elem,
                 CanDeclare(id), Declare(id, elem)
          PROVE  Stay
      <3>1. SUFFICES ASSUME Cardinality(DOMAIN declared_objects') <= POOL_SIZE,
                            NEW n \in DOMAIN declared_objects
                     PROVE  constant_pool'[declared_objects[n]]
                              = constant_pool[declared_objects[n]]
        OBVIOUS
      <3>2. IndicesOK /\ PoolOK
        BY <1>1 DEF Inv, AsmInv
      <3>3. /\ FreshIndex \in Byte /\ Declared \in Nat
            /\ Declared + 1 <= POOL_SIZE => FreshIndex = Declared
        BY <3>2, FreshIndexFree
      <3>4. Cardinality(DOMAIN declared_objects') = Declared + 1
        <4>1. /\ DOMAIN declared_objects' = DOMAIN declared_objects \cup {id}
              /\ id \notin DOMAIN declared_objects
          BY <2>2 DEF Declare, Put, CanDeclare
        <4>2. IsFiniteSet(DOMAIN declared_objects)
          BY <3>2 DEF IndicesOK
        <4>3. QED
          BY <4>1, <4>2, FS_AddElement DEF Declared
      <3>5. FreshIndex = Declared /\ Declared <= POOL_SIZE
        BY <3>1, <3>3, <3>4, PoolSize
      <3>6. /\ declared_objects[n] \in Byte
            /\ declared_objects[n] < Declared
        BY <3>2, <3>5 DEF IndicesOK
      <3>7. declared_objects[n] # FreshIndex
        BY <3>3, <3>5, <3>6
      <3>8. constant_pool' = [constant_pool EXCEPT ![FreshIndex] = elem]
        BY <2>2 DEF Declare
      <3>9. QED
        BY <3>2, <3>6, <3>7, <3>8 DEF PoolOK
    <2>3. QED
      BY <1>1, <2>1, <2>2, OnlyDeclareChanges
  <1>2. Inv /\ [Next]_vars => [Stay]_vars
    BY <1>1
  <1>3. QED
    BY <1>2, InvHolds, PTL DEF Spec, ConstantsStay

----------------------------------------------------------------------------
(* Members of objects *)

\* As many members as names, when no name is there twice.
LEMMA CountNames ==
  ASSUME NEW n \in Nat, NEW s, DOMAIN s = 1 .. n,
         s = [k \in 1 .. n |-> s[k]], IsInjective(s)
  PROVE  Cardinality(ToSet(s)) = n
  <1>1. s \in [1 .. n -> ToSet(s)]
    BY DEF ToSet
  <1>2. \A t \in ToSet(s) : \E k \in 1 .. n : s[k] = t
    BY DEF ToSet
  <1>3. \A j, k \in 1 .. n : s[j] = s[k] => j = k
    BY DEF IsInjective
  <1>4. s \in Bijection(1 .. n, ToSet(s))
    BY <1>1, <1>2, <1>3 DEF Bijection, Injection, Surjection, IsInjective
  <1>5. ExistsBijection(1 .. n, ToSet(s))
    BY <1>4 DEF ExistsBijection
  <1>6. QED
    BY <1>5, FS_CountingElements

\* The constructor of Object puts under each name what the description says.
LEMMA FieldsFound ==
  ASSUME NEW d \in Descr, Len(d.methods) = Len(d.methods_bc_offsets),
         IsInjective(Names(d))
  PROVE  LET map == Mapping(d)
             bc  == d.methods_bc_offsets
         IN  /\ \A k \in DOMAIN d.methods :
                  Fields(map, bc)[map[d.methods[k]]] = Element("FUNC", bc[k])
             /\ \A k \in DOMAIN d.data_fields :
                  Fields(map, bc)[map[d.data_fields[k]]] = NoElement
  <1>1. PICK df, ms, bc : /\ df = d.data_fields /\ ms = d.methods
                          /\ bc = d.methods_bc_offsets
    OBVIOUS
  <1>2. df \in Seq(MEMBERS) /\ ms \in Seq(MEMBERS) /\ bc \in Seq(Nat)
    BY <1>1 DEF Descr
  <1>3. PICK a \in Nat, b \in Nat : /\ a = Len(df) /\ b = Len(ms) /\ b = Len(bc)
                                    /\ DOMAIN df = 1 .. a /\ DOMAIN ms = 1 .. b
    BY <1>1, <1>2
  <1>4. PICK s : s = Names(d)
    OBVIOUS
  <1>5. s = df \o ms
    BY <1>1, <1>4 DEF Names
  <1>6. /\ s \in Seq(MEMBERS) /\ Len(s) = a + b
        /\ \A k \in 1 .. a : s[k] = df[k]
        /\ \A k \in 1 .. b : s[a + k] = ms[k]
    <2>1. /\ s \in Seq(MEMBERS) /\ Len(s) = Len(df) + Len(ms)
          /\ \A k \in 1 .. Len(df) + Len(ms) :
               s[k] = IF k <= Len(df) THEN df[k] ELSE ms[k - Len(df)]
      BY <1>2, <1>5
    <2>2. \A k \in 1 .. a + b : s[k] = IF k <= a THEN df[k] ELSE ms[k - a]
      BY <1>3, <2>1
    <2>3. \A k \in 1 .. a : s[k] = df[k]
      BY <1>3, <2>2
    <2>4. ASSUME NEW k \in 1 .. b
          PROVE  s[a + k] = ms[k]
      <3>1. a + k \in 1 .. a + b /\ ~(a + k <= a) /\ (a + k) - a = k
        BY <1>3
      <3>2. QED
        BY <2>2, <3>1
    <2>5. QED
      BY <1>3, <2>1, <2>3, <2>4
  <1>7. DOMAIN s = 1 .. a + b /\ s = [k \in 1 .. a + b |-> s[k]]
    BY <1>3, <1>6
  <1>8. IsInjective(s)
    BY <1>4
  <1>9. PICK map : map = Mapping(d)
    OBVIOUS
  <1>10. /\ DOMAIN map = ToSet(s)
         /\ \A k \in 1 .. a + b : map[s[k]] = k - 1
    <2>1. map = [m \in ToSet(s) |-> (CHOOSE k \in DOMAIN s : s[k] = m) - 1]
      BY <1>4, <1>9 DEF Mapping
    <2>2. ASSUME NEW k \in 1 .. a + b
          PROVE  map[s[k]] = k - 1
      <3>1. s[k] \in ToSet(s)
        BY <1>7 DEF ToSet
      <3>2. (CHOOSE j \in DOMAIN s : s[j] = s[k]) = k
        BY <1>7, <1>8 DEF IsInjective
      <3>3. QED
        BY <2>1, <3>1, <3>2
    <2>3. QED
      BY <2>1, <2>2
  <1>11. Cardinality(DOMAIN map) = a + b
    BY <1>3, <1>7, <1>8, <1>10, CountNames
  <1>12. PICK f : f = Fields(map, bc)
    OBVIOUS
  <1>13. f = [k \in 0 .. a + b - 1 |-> IF k < a THEN NoElement
                                       ELSE Element("FUNC", bc[k - a + 1])]
    <2>1. Cardinality(DOMAIN map) - Len(bc) = a
      BY <1>3, <1>11
    <2>2. QED
      BY <1>11, <1>12, <2>1 DEF Fields
  <1>14. ASSUME NEW k \in 1 .. b
         PROVE  f[map[ms[k]]] = Element("FUNC", bc[k])
    <2>1. a + k \in 1 .. a + b /\ s[a + k] = ms[k]
      BY <1>3, <1>6
    <2>2. map[ms[k]] = a + k - 1
      BY <1>10, <2>1
    <2>3. /\ a + k - 1 \in 0 .. a + b - 1 /\ ~(a + k - 1 < a)
          /\ (a + k - 1) - a + 1 = k
      BY <1>3
    <2>4. f[a + k - 1] = Element("FUNC", bc[k])
      BY <1>13, <2>3
    <2>5. QED
      BY <2>2, <2>4
  <1>15. ASSUME NEW k \in 1 .. a
         PROVE  f[map[df[k]]] = NoElement
    <2>1. k \in 1 .. a + b /\ s[k] = df[k]
      BY <1>3, <1>6
    <2>2. map[df[k]] = k - 1
      BY <1>10, <2>1
    <2>3. k - 1 \in 0 .. a + b - 1 /\ k - 1 < a
      BY <1>3
    <2>4. f[k - 1] = NoElement
      BY <1>13, <2>3
    <2>5. QED
      BY <2>2, <2>4
  <1>16. QED
    BY <1>1, <1>3, <1>9, <1>12, <1>14, <1>15

\* A method of a new object starts where its body was assembled and a data
\* member is empty, for every object that was loaded and every order of
\* declaration (LoadConstantPool, Object::Object, Object::GetElem).
THEOREM MembersAreFound == Spec => []MembersFound
  <1>1. Inv => MembersFound
    <2> SUFFICES ASSUME Inv, loaded # NoFile, NEW i \in Byte,
                        loaded.data[i].type = "OBJ"
                 PROVE  LET descr == Payload(constant_pool[i])
                        IN  /\ \A k \in DOMAIN descr.methods :
                                 GetElem(i, descr.methods[k])
                                   = Element("FUNC", descr.methods_bc_offsets[k])
                            /\ \A k \in DOMAIN descr.data_fields :
                                 GetElem(i, descr.data_fields[k]) = NoElement
      BY DEF MembersFound
    <2>1. PICK d : d = Payload(constant_pool[i])
      OBVIOUS
    <2>2. Restored(i)
      BY DEF Inv, LoadedInv, Lost
    <2>3. loaded.data[i] = LoadedElement(Record(i))
      BY <2>2 DEF Restored
    <2>4. Record(i).type = constant_pool[i].type /\ Record(i).payload = d
      BY <2>1, RecordFacts
    <2>5. constant_pool[i].type = "OBJ"
      BY <2>3, <2>4 DEF LoadedElement, Element
    <2>6. loaded.data[i].val = d.methods_bc_offsets
      BY <2>3, <2>4, <2>5 DEF LoadedElement, Element
    <2>7. loaded.object_mappings[i] = Mapping(d) /\ IsInjective(Names(d))
      BY <2>1, <2>2, <2>5 DEF Restored
    <2>8. d \in Descr /\ Len(d.methods) = Len(d.methods_bc_offsets)
      <3>1. d = objects_storage[constant_pool[i].val + 1]
        BY <2>1, <2>5 DEF Payload
      <3>2. /\ constant_pool[i].val + 1 \in DOMAIN objects_storage
            /\ objects_storage \in Seq(Descr)
            /\ \A k \in DOMAIN objects_storage :
                 Len(objects_storage[k].methods)
                   = Len(objects_storage[k].methods_bc_offsets)
        BY <2>5 DEF Inv, AsmInv, ObjectsOK
      <3>3. QED
        BY <3>1, <3>2
    <2>9. LET map == Mapping(d)
              bc  == d.methods_bc_offsets
          IN  /\ \A k \in DOMAIN d.methods :
                   Fields(map, bc)[map[d.methods[k]]] = Element("FUNC", bc[k])
              /\ \A k \in DOMAIN d.data_fields :
                   Fields(map, bc)[map[d.data_fields[k]]] = NoElement
      BY <2>7, <2>8, FieldsFound
    <2>10. \A m : GetElem(i, m)
                    = Fields(Mapping(d), d.methods_bc_offsets)[Mapping(d)[m]]
      BY <2>6, <2>7 DEF GetElem
    <2>11. QED
      BY <2>1, <2>9, <2>10
  <1>2. QED
    BY <1>1, InvHolds, PTL

\* The source declares no more names than the bound allows.
LEMMA BoundHolds == Spec => [](Declared <= MAX_DECLS)
  <1>1. Init => Declared <= MAX_DECLS
    <2>1. Init => DOMAIN declared_objects = {}
      BY DEF Init, AsmInit
    <2>2. QED
      BY <2>1, FS_EmptySet, SourceAssumption DEF Declared
  <1>2. ASSUME Inv, Declared <= MAX_DECLS, [Next]_vars
        PROVE  Declared' <= MAX_DECLS
    <2>1. CASE UNCHANGED declared_objects
      BY <1>2, <2>1 DEF Declared
    <2>2. ASSUME NEW id \in IDENTIFIERS, NEW elem,
                 CanDeclare(id), Declare(id, elem)
          PROVE  Declared' <= MAX_DECLS
      <3>1. /\ DOMAIN declared_objects' = DOMAIN declared_objects \cup {id}
            /\ id \notin DOMAIN declared_objects
            /\ Declared < MAX_DECLS
        BY <2>2 DEF Declare, Put, CanDeclare, Declared
      <3>2. IsFiniteSet(DOMAIN declared_objects)
        BY <1>2 DEF Inv, AsmInv, IndicesOK
      <3>3. Declared' = Declared + 1 /\ Declared \in Nat
        BY <3>1, <3>2, FS_AddElement, FS_CardinalityType DEF Declared
      <3>4. QED
        BY <3>1, <3>3, SourceAssumption
    <2>3. QED
      BY <1>2, <2>1, <2>2, OnlyDeclareChanges DEF vars
  <1>3. Inv /\ Declared <= MAX_DECLS /\ [Next]_vars
          => (Declared <= MAX_DECLS)'
    BY <1>2
  <1>4. QED
    BY <1>1, <1>3, InvHolds, PTL DEF Spec

\* Up to half as many names as the pool has indices, which is as far as
\* WriteConstantPool counts, the virtual machine finds under every index what
\* the assembler put there and starts where main does.
THEOREM LoadsWhatWasWritten ==
  ASSUME 2 * MAX_DECLS <= POOL_SIZE
  PROVE  Spec => []LoadedAsWritten
  <1>1. ASSUME Inv, Declared <= MAX_DECLS
        PROVE  LoadedAsWritten
    <2> SUFFICES ASSUME loaded # NoFile
                 PROVE  LoadedAsWritten
      BY DEF LoadedAsWritten
    <2>1. /\ MAX_DECLS \in Nat /\ POOL_SIZE \in Nat
          /\ Declared \in Nat /\ Declared <= POOL_SIZE
          /\ 2 * Declared <= POOL_SIZE
      BY <1>1, SourceAssumption, PoolSize, FreshIndexFree DEF Inv, AsmInv
    <2>2. \A j \in Byte : InUse(j) => j \in WrittenIds
      <3>1. ASSUME NEW j \in Byte, InUse(j)
            PROVE  2 * j < POOL_SIZE
        <4>1. j < Declared /\ j \in Int
          BY <1>1, <2>1, <3>1 DEF Inv, AsmInv, IndicesOK, Byte
        <4>2. QED
          BY <2>1, <4>1
      <3>2. QED
        BY <3>1, LowerHalf
    <2>3. ASSUME NEW n \in DOMAIN declared_objects
          PROVE  LET i == declared_objects[n]
                 IN  /\ loaded.data[i].type = constant_pool[i].type
                     /\ constant_pool[i].type # "OBJ" =>
                          loaded.data[i].val = Payload(constant_pool[i])
      <3>1. PICK i : i = declared_objects[n]
        OBVIOUS
      <3>2. i \in Byte /\ InUse(i)
        BY <1>1, <3>1 DEF Inv, AsmInv, IndicesOK
      <3>3. Restored(i)
        BY <1>1, <2>2, <3>2 DEF Inv, LoadedInv, Lost
      <3>4. /\ loaded.data[i] = LoadedElement(Record(i))
            /\ Record(i).type = constant_pool[i].type
            /\ Record(i).payload = Payload(constant_pool[i])
        BY <3>2, <3>3, RecordFacts DEF Restored
      <3>5. QED
        BY <3>1, <3>4 DEF LoadedElement, Element
    <2>4. IsConstant(ENTRY_FUNC_NAME) =>
            loaded.pc = constant_pool[declared_objects[ENTRY_FUNC_NAME]].val
      <3>1. IsConstant(ENTRY_FUNC_NAME) =>
              MainId = declared_objects[ENTRY_FUNC_NAME]
        BY DEF MainId, TryResolveName, IsLabel
      <3>2. QED
        BY <1>1, <3>1 DEF Inv, LoadedInv
    <2>5. QED
      BY <2>3, <2>4 DEF LoadedAsWritten
  <1>2. QED
    BY <1>1, InvHolds, BoundHolds, PTL
=============================================================================
