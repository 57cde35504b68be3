----------------------------- MODULE ClassFile -----------------------------
(***************************************************************************)
(* From source to a loaded program: the assembler, the class file it       *)
(* writes (classfile/class_file.cpp) and the loader of the virtual         *)
(* machine.  The file is a header, the code and a record for each constant *)
(* written; what the writer reserved and did not fill reads as zeros.      *)
(***************************************************************************)
EXTENDS Assembler

VARIABLES file,             \* what was written, or NoFile
          loaded            \* pool, mappings and entry point, or NoFile

vars == <<instructions_buffer, declared_objects, declared_labels,
          unresolved_labels, strings_storage, objects_storage, constant_pool,
          context, status, file, loaded>>

NoFile          == <<>>
ENTRY_FUNC_NAME == "main"

----------------------------------------------------------------------------
(* Writing *)

\* Mutant of WrittenIds: the first one is left out.
WrittenIdsButFirst == {i \in Byte : Signed(i) > 0}

\* WriteConstantPool counts the elements in an int8_t.  Compared with the
\* size of the pool, a negative counter is a huge number, and the loop ends.
WrittenIds == {i \in Byte : \A j \in 0 .. i : Signed(j) >= 0}

InUse(i) == constant_pool[i].type # "ANY"

\* WriteObj: strings and objects are written out of their storage.
Payload(elem) ==
  CASE elem.type = "STR" -> strings_storage[elem.val + 1]
    [] elem.type = "OBJ" -> objects_storage[elem.val + 1]
    [] OTHER             -> elem.val
Record(i) == [type |-> constant_pool[i].type, id |-> Signed(i),
              payload |-> Payload(constant_pool[i])]

\* WriteHeader looks the entry point up by name.
MainId == TryResolveName(ENTRY_FUNC_NAME)

\* DumpClassFile at the end of the source.
DumpClassFile ==
  /\ In({"program"})
  /\ unresolved_labels' = AppendUnresolvedLabels(ENTRY_FUNC_NAME)
  /\ \/ /\ constant_pool[MainId].type # "FUNC"
        /\ status' = "ASSERT"
        /\ UNCHANGED file
     \/ /\ constant_pool[MainId].type = "FUNC"
        /\ status' = "done"
        /\ file' = [entry_point |-> constant_pool[MainId].val,
                    code |-> instructions_buffer,
                    records |-> {Record(i) : i \in {j \in WrittenIds : InUse(j)}},
                    zeros |-> \E j \in Byte \ WrittenIds : InUse(j)]
  /\ UNCHANGED <<instructions_buffer, declared_objects, declared_labels,
                 storage, context, loaded>>

----------------------------------------------------------------------------
(* Loading *)

Names(descr) == descr.data_fields \o descr.methods

\* The mapping of an object: data members come first, then methods.
Mapping(descr) ==
  [m \in ToSet(Names(descr)) |->
     (CHOOSE k \in DOMAIN Names(descr) : Names(descr)[k] = m) - 1]

\* A field is added to the mapping only if it is not there yet.
Overlapping(rec) ==
  rec.type = "OBJ" /\ ~IsInjective(Names(rec.payload))

\* The value LoadConstantPool stores for a record.
LoadedElement(rec) ==
  Element(rec.type, IF rec.type = "OBJ" THEN rec.payload.methods_bc_offsets
                                        ELSE rec.payload)

\* Zeros read as a record: type NUM is 0, so constant 0 becomes the number 0.
\* (A reserved record of another size than this one makes the loader read on
\* behind the file; functions and numbers have its size.)
ZeroRecord == [type |-> "NUM", id |-> 0, payload |-> 0]

RecordsRead == IF file.zeros
               THEN {r \in file.records : r.id # 0} \cup {ZeroRecord}
               ELSE file.records

\* Runtime::LoadClassFile.
LoadClassFile ==
  /\ status = "done" /\ loaded = NoFile
  /\ \/ /\ \E r \in file.records : Overlapping(r)
        /\ status' = "FATAL"
        /\ UNCHANGED loaded
     \/ /\ ~\E r \in file.records : Overlapping(r)
        /\ LET At(rs, i) == {r \in rs : Unsigned(r.id) = i}
               objects   == {r \in file.records : r.type = "OBJ"}
           IN  loaded' =
                 [data |->
                    [i \in Byte |->
                       IF At(RecordsRead, i) = {} THEN NoElement
                       ELSE LoadedElement(CHOOSE r \in At(RecordsRead, i) : TRUE)],
                  object_mappings |->
                    [i \in Byte |->
                       IF At(objects, i) = {} THEN <<>>
                       ELSE Mapping((CHOOSE r \in At(objects, i) : TRUE).payload)],
                  pc |-> file.entry_point]
        /\ UNCHANGED status
  /\ UNCHANGED <<instructions_buffer, tables, storage, context, file>>

\* Mutant of Fields: the methods are put before the data members.
MethodsFirst(map, bc_offsets) ==
  [k \in 0 .. Cardinality(DOMAIN map) - 1 |->
     IF k < Len(bc_offsets) THEN Element("FUNC", bc_offsets[k + 1])
                            ELSE NoElement]

\* The constructor of Object: data members are reset, and the methods become
\* functions in the last members.
Fields(map, bc_offsets) ==
  LET first == Cardinality(DOMAIN map) - Len(bc_offsets)
  IN  [k \in 0 .. Cardinality(DOMAIN map) - 1 |->
         IF k < first THEN NoElement
                      ELSE Element("FUNC", bc_offsets[k - first + 1])]

\* GetElem of member m of an object made from constant i.
GetElem(i, m) ==
  LET map == loaded.object_mappings[i]
  IN  Fields(map, loaded.data[i].val)[map[m]]

Stopped == /\ status # "run" /\ (status = "done" => loaded # NoFile)
           /\ UNCHANGED vars

Init == AsmInit /\ file = NoFile /\ loaded = NoFile

Next == \/ AsmStep /\ UNCHANGED <<file, loaded>>
        \/ DumpClassFile
        \/ LoadClassFile
        \/ Stopped

Spec == Init /\ [][Next]_vars

----------------------------------------------------------------------------
(* Properties *)

TypeOK ==
  /\ \A pc \in 0 .. Pc - 1 : Inst(pc).operands \in Byte
  /\ \A n \in DOMAIN declared_objects : declared_objects[n] \in Byte
  /\ \A l \in DOMAIN declared_labels : declared_labels[l] \in 0 .. Pc
  /\ DOMAIN constant_pool = Byte

\* As long as the pool has an index for every name, declaring one never
\* changes what a name declared before stands for.  (The next name after that
\* takes the index of the first.)
ConstantsStay ==
  [][Cardinality(DOMAIN declared_objects') <= POOL_SIZE =>
       \A n \in DOMAIN declared_objects :
         constant_pool'[declared_objects[n]] = constant_pool[declared_objects[n]]]_vars

\* An instruction that names a label, and whose label is near enough for the
\* operand, leads there (pc + int8) from the moment the label is known, and
\* until then is remembered: no reference is lost, forward or backward,
\* however labels, functions and objects are mixed.
Fits(d) == 2 * d >= -POOL_SIZE /\ 2 * d < POOL_SIZE
NamesLabel(pc) == Inst(pc).src # "none" /\ ~Inst(pc).constant
LabelsReached ==
  status \in {"run", "done"} =>
    \A pc \in {p \in 0 .. Pc - 1 : NamesLabel(p)} :
      LET l == Inst(pc).src
      IN  IF l \in DOMAIN declared_labels
          THEN Fits(declared_labels[l] - pc) =>
                 pc + Signed(Inst(pc).operands) = declared_labels[l]
          ELSE status = "run" /\ pc \in Pending(l)

\* The virtual machine finds under every index what the assembler put there,
\* and starts where main does if there is a main.
LoadedAsWritten ==
  loaded # NoFile =>
    /\ \A n \in DOMAIN declared_objects :
         LET i == declared_objects[n]
         IN  /\ loaded.data[i].type = constant_pool[i].type
             /\ constant_pool[i].type # "OBJ" =>
                  loaded.data[i].val = Payload(constant_pool[i])
    /\ IsConstant(ENTRY_FUNC_NAME) =>
         loaded.pc = constant_pool[declared_objects[ENTRY_FUNC_NAME]].val

\* A method of a new object starts where its body was assembled and a data
\* member is empty, in whatever order they were declared.
MembersFound ==
  loaded # NoFile =>
    \A i \in {j \in Byte : loaded.data[j].type = "OBJ"} :
      LET descr == Payload(constant_pool[i])
      IN  /\ \A k \in DOMAIN descr.methods :
               GetElem(i, descr.methods[k])
                 = Element("FUNC", descr.methods_bc_offsets[k])
          /\ \A k \in DOMAIN descr.data_fields :
               GetElem(i, descr.data_fields[k]) = NoElement
=============================================================================
