------------------------------ MODULE Machine ------------------------------
(***************************************************************************)
(* The interpreter as the collector sees it: every instruction that reads  *)
(* or writes a register, a frame or the heap (interpreter/interpreter.cpp  *)
(* and interpreter/types), composed with the collector.                    *)
(*                                                                         *)
(* The program is left open: any instruction may come next, so a behaviour *)
(* of any bytecode is a behaviour of this specification.  Numbers are not  *)
(* told apart from the empty value, so arithmetic is one action, and a     *)
(* jump, a branch and a dump, which change no register, are stuttering     *)
(* steps.                                                                  *)
(***************************************************************************)
EXTENDS Collector

CONSTANTS ARR_SIZES,        \* sizes the program asks NEWARR for
          FUNCS,            \* functions of its constant pool
          STR_SIZES,        \* lengths of the strings of its constant pool
          OBJ_LAYOUTS,      \* its objects: [data |-> fields, methods |-> n]
          MAX_FRAMES        \* frames the stack region has room for

ASSUME ProgramAssumption ==
  /\ ARR_SIZES \subseteq Nat
  /\ STR_SIZES \subseteq Nat
  /\ OBJ_LAYOUTS \subseteq [data : Nat, methods : Nat]
  /\ MAX_FRAMES \in Nat \ {0}
  \* the function object of main fits in an empty region
  /\ 2 + INPUTS_COUNT + OUTPUTS_COUNT <= MAX_ALLOC_SIZE(Young)

VARIABLE request            \* the allocation an instruction is waiting for

vars == <<mem, cursor, state_stack, stages_stack, marked, work,
          is_trigger_forbidden, status, request>>

HEADER     == 1             \* cells of an object besides its registers
FUNC_SLOTS == 1 + INPUTS_COUNT + OUTPUTS_COUNT
THIS       == 1             \* slots of a Function: this_, inputs_, outputs_
ARG(i)     == 2 + i
RET0       == 2 + INPUTS_COUNT
Regs       == 1 .. NREGS

----------------------------------------------------------------------------
(* Requests for memory *)

\* One allocation: the constructor's kind and size; for an OBJ the number of
\* methods it allocates after itself, its storage, and the methods made.
Request == [kind : Kinds, n : Nat, methods : Nat, cleaned : BOOLEAN,
            step : {"prepare", "storage", "methods"}, obj : Ptr, done : Nat]
NoRequest == [kind |-> "NONE"]

Ask(k, n, m) ==
  [kind |-> k, n |-> n, methods |-> m, cleaned |-> FALSE,
   step |-> IF k = "OBJ" THEN "prepare" ELSE "storage",
   obj |-> nullptr, done |-> 0]

\* Mutant of Fresh: the recorded size leaves the header out.
FreshNoHeader(k, n) ==
  [kind |-> k, allocated_size |-> n, relocated_ptr |-> nullptr,
   slots |-> IF k = "STR" THEN <<>> ELSE [i \in 1 .. n |-> nullptr]]

\* A freshly constructed object: its registers are reset.
Fresh(k, n) ==
  [kind |-> k, allocated_size |-> HEADER + n, relocated_ptr |-> nullptr,
   slots |-> IF k = "STR" THEN <<>> ELSE [i \in 1 .. n |-> nullptr]]

Running == status = "run" /\ ~InGC
Idle    == Running /\ request = NoRequest
Waiting(step) == Running /\ request # NoRequest /\ request.step = step

Stop(why) == Halt(why) /\ UNCHANGED request

Frame0   == state_stack[Len(state_stack)]
SetRoot(i, p) == [state_stack EXCEPT ![Len(state_stack)][i] = p]

\* Mutant of Fits: the room is not looked at.
FitsUnchecked(size) ==
  request.cleaned => RemainingSpace(Young) = MAX_ALLOC_SIZE(Young)

\* RegionsPool::AllocBytes and Region::AllocBytes in the young region: there
\* is room for size cells, at once or after the cleanup the request caused ...
Fits(size) ==
  /\ cursor[Young] + size <= RegionSize(Young)
  /\ request.cleaned => RemainingSpace(Young) = MAX_ALLOC_SIZE(Young)

\* ... and then the storage is handed out and the request becomes req ...
Place(size, req) ==
  /\ Fits(size)
  /\ cursor' = [cursor EXCEPT ![Young] = @ + size]
  /\ request' = req
  /\ UNCHANGED <<stages_stack, marked, work, is_trigger_forbidden, status>>

\* Mutant of NoRoom: the region is cleaned until the request fits.
NoRoomRetry(size) ==
  /\ RemainingSpace(Young) < size
  /\ CleanupThis(stages_stack)
  /\ UNCHANGED request

\* ... or there is none: the region is cleaned, once.
NoRoom(size) ==
  \/ /\ RemainingSpace(Young) < size /\ ~request.cleaned
     /\ CleanupThis(stages_stack)
     /\ request' = [request EXCEPT !.cleaned = TRUE]
  \/ /\ request.cleaned /\ RemainingSpace(Young) # MAX_ALLOC_SIZE(Young)
     /\ Stop("ASSERT")
  \/ /\ request.cleaned /\ RemainingSpace(Young) = MAX_ALLOC_SIZE(Young)
     /\ cursor[Young] + size > RegionSize(Young)
     /\ Stop("OOM")

\* Function::New, String::New, Array::New and the accumulator's Set.
NewSimple ==
  /\ Waiting("storage")
  /\ request.kind # "OBJ"
  /\ LET obj  == Fresh(request.kind, request.n)
         size == HEADER + request.n
     IN  \/ NoRoom(size)
         \/ /\ Place(size, NoRequest)
            /\ mem' = Overwrite(mem, CursorPtr(Young), obj)
            /\ state_stack' = SetRoot(ACC, CursorPtr(Young))

\* Mutant of SequentSize: the methods are left out.
SequentSizeObjectOnly == HEADER + request.n

\* Mutant of SequentSize: one method too many.
SequentSizeOneMore ==
  HEADER + request.n + (request.methods + 1) * (HEADER + FUNC_SLOTS)

\* Cells Object::New asks for: the object and its method objects.
SequentSize == HEADER + request.n + request.methods * (HEADER + FUNC_SLOTS)

\* PrepareForSequentAllocations.
PrepareForSequentAllocations ==
  /\ Waiting("prepare")
  /\ \/ /\ RemainingSpace(Young) <= SequentSize /\ ~request.cleaned
        /\ CleanupThis(stages_stack)
        /\ request' = [request EXCEPT !.cleaned = TRUE]
     \/ /\ RemainingSpace(Young) <= SequentSize /\ request.cleaned
        /\ Halt("SEQUENT_TOO_BIG")
        /\ UNCHANGED request
     \/ /\ RemainingSpace(Young) > SequentSize
        /\ is_trigger_forbidden' = TRUE
        /\ request' = [request EXCEPT !.step = "storage", !.cleaned = FALSE]
        /\ UNCHANGED <<mem, cursor, state_stack, stages_stack, marked, work,
                       status>>

\* The storage of the object itself.
NewObjectStorage ==
  /\ Waiting("storage")
  /\ request.kind = "OBJ"
  /\ LET obj  == Fresh("OBJ", request.n)
         size == HEADER + request.n
     IN  \/ NoRoom(size)
         \/ /\ Place(size, [request EXCEPT !.step = "methods",
                                           !.cleaned = FALSE,
                                           !.obj = CursorPtr(Young)])
            /\ mem' = Overwrite(mem, CursorPtr(Young), obj)
            /\ UNCHANGED state_stack

\* The constructor: Function::New for the next method, stored in its field.
NewMethod ==
  /\ Waiting("methods")
  /\ request.done < request.methods
  /\ LET obj   == Fresh("FUNC", FUNC_SLOTS)
         size  == HEADER + FUNC_SLOTS
         field == request.n - request.methods + request.done + 1
     IN  \/ NoRoom(size)
         \/ /\ Place(size, [request EXCEPT !.done = @ + 1, !.cleaned = FALSE])
            /\ mem' = [Overwrite(mem, CursorPtr(Young), obj) EXCEPT
                         ![request.obj].slots[field] = CursorPtr(Young)]
            /\ UNCHANGED state_stack

\* EndSequentAllocations and the accumulator's Set.
EndSequentAllocations ==
  /\ Waiting("methods")
  /\ request.done = request.methods
  /\ is_trigger_forbidden' = FALSE
  /\ state_stack' = SetRoot(ACC, request.obj)
  /\ request' = NoRequest
  /\ UNCHANGED <<mem, cursor, stages_stack, marked, work, status>>

AllocStep == \/ NewSimple
             \/ PrepareForSequentAllocations
             \/ NewObjectStorage
             \/ NewMethod
             \/ EndSequentAllocations

----------------------------------------------------------------------------
(* Instructions *)

IsKind(p, k) == p # nullptr /\ mem[p].kind = k

Acc   == Frame0[ACC]
Reg(r) == Frame0[REG(r)]

\* What an instruction leaves alone, whatever it writes.
Rest == UNCHANGED <<cursor, stages_stack, marked, work,
                    is_trigger_forbidden, status>>

\* An instruction that writes one root of the frame, or one slot of an object.
WriteRoot(i, p) ==
  state_stack' = SetRoot(i, p) /\ Rest /\ UNCHANGED <<mem, request>>
WriteSlot(a, i, p) ==
  /\ mem' = [mem EXCEPT ![a].slots[i] = p]
  /\ Rest /\ UNCHANGED <<state_stack, request>>

\* LDAI of a number, and every arithmetic instruction.
LDAI_NUM == Idle /\ WriteRoot(ACC, nullptr)

\* LDAI of a function, a string or an object, and NEWARR.
Await(req) == Idle /\ request' = req /\ UNCHANGED gcVars
LDAI_FUNC == FUNCS # {} /\ Await(Ask("FUNC", FUNC_SLOTS, 0))
LDAI_STR  == \E n \in STR_SIZES : Await(Ask("STR", n, 0))
LDAI_OBJ  == \E l \in OBJ_LAYOUTS :
                Await(Ask("OBJ", l.data + l.methods, l.methods))
NEWARR    == \E n \in ARR_SIZES : Await(Ask("ARR", n, 0))

LDA    == Idle /\ \E r \in Regs : WriteRoot(ACC, Reg(r))
STA    == Idle /\ \E r \in Regs : WriteRoot(REG(r), Acc)
STNULL == Idle /\ \E r \in Regs : WriteRoot(REG(r), nullptr)
MOV    == Idle /\ \E r, q \in Regs : WriteRoot(REG(q), Reg(r))

\* A root of the frame gets the register at index i of the object at a.  The
\* code does not look whether there is one.
ReadInto(root, a, i) ==
  IF IsPlace(HeapSlot(a, i)) THEN WriteRoot(root, mem[a].slots[i])
                             ELSE Stop("UNDEFINED")

\* GETARG0, GETARG1, GETTHIS: from the callee of the frame.
Callee  == Frame0[CALLEE]
ArgOps  == {i \in {0, 1} : i < INPUTS_COUNT}
GETARG  == Idle /\ \E r \in Regs, i \in ArgOps :
                      ReadInto(REG(r), Callee, ARG(i))
GETTHIS == Idle /\ \E r \in Regs : ReadInto(REG(r), Callee, THIS)

\* SETARG0, SETARG1, GETRET0: of the function in the accumulator.
SETARG  == /\ Idle /\ IsKind(Acc, "FUNC")
           /\ \E r \in Regs, i \in ArgOps : WriteSlot(Acc, ARG(i), Reg(r))
GETRET0 == /\ Idle /\ IsKind(Acc, "FUNC") /\ OUTPUTS_COUNT > 0
           /\ \E r \in Regs : ReadInto(REG(r), Acc, RET0)
SETRET0 == /\ Idle /\ OUTPUTS_COUNT > 0
           /\ \E r \in Regs : WriteSlot(Callee, RET0, Reg(r))

\* CALL: the frame's registers start empty; the stack region is a fixed size.
NewFrame(f) == [i \in RootIdx |-> IF i = CALLEE THEN f ELSE nullptr]
CALL ==
  /\ Idle
  /\ IsKind(Acc, "FUNC")
  /\ IF Len(state_stack) < MAX_FRAMES
     THEN /\ state_stack' = Append(state_stack, NewFrame(Acc))
          /\ Rest /\ UNCHANGED <<mem, request>>
     ELSE Stop("OOM")

\* RET, from main too.
RET ==
  /\ Idle
  /\ IF Len(state_stack) = 1
     THEN Stop("EXIT")
     ELSE /\ state_stack' = Front(state_stack)
          /\ Rest /\ UNCHANGED <<mem, request>>

\* SETELEM and GETELEM of an array: the write asserts the index, the read
\* does not look at it.
SETELEM_ARR ==
  /\ Idle
  /\ \E r \in Regs :
       /\ IsKind(Reg(r), "ARR")
       /\ \/ \E i \in DOMAIN mem[Reg(r)].slots : WriteSlot(Reg(r), i, Acc)
          \/ Stop("FATAL")
GETELEM_ARR ==
  /\ Idle
  /\ \E r \in Regs :
       /\ IsKind(Reg(r), "ARR")
       /\ \E i \in 1 .. Len(mem[Reg(r)].slots) + 1 :
            ReadInto(ACC, Reg(r), i)

\* Mutant of GETELEM_OBJ: the function is not bound to the object.
GETELEM_OBJ_Unbound ==
  /\ Idle
  /\ \E r \in Regs :
       /\ IsKind(Reg(r), "OBJ")
       /\ \E i \in DOMAIN mem[Reg(r)].slots :
            WriteRoot(ACC, mem[Reg(r)].slots[i])

\* SETELEM and GETELEM of an object: a member, or a name it does not have.
\* A function read from an object is bound to it.
SETELEM_OBJ ==
  /\ Idle
  /\ \E r \in Regs :
       /\ IsKind(Reg(r), "OBJ")
       /\ \/ \E i \in DOMAIN mem[Reg(r)].slots : WriteSlot(Reg(r), i, Acc)
          \/ Stop("FATAL")
GETELEM_OBJ ==
  /\ Idle
  /\ \E r \in Regs :
       /\ IsKind(Reg(r), "OBJ")
       /\ \/ \E i \in DOMAIN mem[Reg(r)].slots :
               LET elem == mem[Reg(r)].slots[i]
               IN  /\ state_stack' = SetRoot(ACC, elem)
                   /\ mem' = IF IsKind(elem, "FUNC")
                             THEN [mem EXCEPT ![elem].slots[THIS] = Reg(r)]
                             ELSE mem
                   /\ Rest /\ UNCHANGED request
          \/ Stop("FATAL")

\* DecodeAndResolve finds no overload for what the registers hold.
NoOverload == Idle /\ ~IsKind(Acc, "FUNC") /\ Stop("FATAL")

Instruction ==
  \/ LDAI_NUM \/ LDAI_FUNC \/ LDAI_STR \/ LDAI_OBJ \/ NEWARR
  \/ LDA \/ STA \/ STNULL \/ MOV
  \/ GETARG \/ GETTHIS \/ SETARG \/ GETRET0 \/ SETRET0
  \/ CALL \/ RET
  \/ SETELEM_ARR \/ GETELEM_ARR \/ SETELEM_OBJ \/ GETELEM_OBJ
  \/ NoOverload

\* The process is gone.
Ended == status # "run" /\ UNCHANGED vars

----------------------------------------------------------------------------
(* Interpreter::Invoke: the function object of main, and its frame. *)

MainPtr == StartPtr(Young) + CURSOR
Main    == Fresh("FUNC", FUNC_SLOTS)

Init ==
  /\ mem = [a \in Addr |-> IF a = MainPtr THEN Main ELSE NoObj]
  /\ cursor = [r \in RegionIds |->
                 IF r = Young THEN CURSOR + Main.allocated_size ELSE CURSOR]
  /\ state_stack = <<NewFrame(MainPtr)>>
  /\ stages_stack = <<>>
  /\ marked = {}
  /\ work = <<>>
  /\ is_trigger_forbidden = FALSE
  /\ status = "run"
  /\ request = NoRequest

GC == GCStep /\ UNCHANGED request

Next == Instruction \/ AllocStep \/ GC \/ Ended

Spec == Init /\ [][Next]_vars

----------------------------------------------------------------------------
(* Properties *)

Statuses == {"run", "EXIT", "FATAL", "UNDEFINED", "OOM", "SEQUENT_TOO_BIG",
             "TENURED_FULL", "GC_OOM", "ASSERT", "FORBIDDEN"}

\* Every variable has its type; the stages under way clean the regions from
\* the young one on and never the tenured one; cursors stay in their region.
TypeOK ==
  /\ mem \in [Addr -> Object \cup {NoObj}]
  /\ cursor \in [RegionIds -> Nat]
  /\ \A r \in RegionIds : cursor[r] \in CURSOR .. RegionSize(r)
  /\ state_stack \in Seq(Frame) /\ Len(state_stack) \in 1 .. MAX_FRAMES
  /\ stages_stack \in Seq(Stage) /\ Depth <= SURVIVORS_N
  /\ marked \subseteq Addr
  /\ work \in Seq(WorkItem)
  /\ is_trigger_forbidden \in BOOLEAN
  /\ status \in Statuses
  /\ request \in Request \cup {NoRequest}

\* The addresses below the cursor of their region.
Allocated(a) == \E r \in RegionIds :
                  /\ RegionContains(r, a)
                  /\ a >= StartPtr(r) + CURSOR /\ a < CursorPtr(r)

RootSlots == {RootSlot(f, i) : f \in DOMAIN state_stack, i \in RootIdx}
SlotsIn(A) == UNION {{HeapSlot(a, i) : i \in DOMAIN mem[a].slots} : a \in A}
Targets(S) == {Load(s) : s \in S} \ {nullptr}

\* What the program can reach from its frames.
Reachable ==
  LET Within[n \in 0 .. HeapSize] ==
        IF n = 0 THEN Targets(RootSlots)
        ELSE LET near == Within[n - 1] IN near \cup Targets(SlotsIn(near))
  IN  Within[HeapSize]

\* Between collections every pointer the program can follow, however far from
\* its registers, leads to the header of an object in allocated memory that
\* is not a forwarded leftover: no collection leaves a slot it should have
\* rebound, and none frees or overwrites an object still in use.
NoDanglingPointer ==
  status = "run" /\ ~InGC =>
    \A a \in Reachable : Allocated(a) /\ mem[a] # NoObj /\ ~WasRelocated(a)

\* The objects of a region lie end to end from its start to its cursor, so no
\* two overlap and none crosses the end of its region: the sizes recorded in
\* the headers, which the moves rely on, agree with the bump allocation.
RegionsTiled ==
  \A r \in RegionIds :
    LET used == StartPtr(r) + CURSOR .. CursorPtr(r) - 1
        objs == {a \in used : mem[a] # NoObj}
        next(a) == a + mem[a].allocated_size
    IN  /\ used # {} => StartPtr(r) + CURSOR \in objs
        /\ \A a \in objs : next(a) = CursorPtr(r) \/ next(a) \in objs
        /\ \A a, b \in objs : a < b => next(a) <= b

\* While a stage marks, every root and every register of a marked object is
\* empty, still to be visited, or leads to a marked object and is recorded
\* when that object lies in the region being cleaned; a marked object there
\* is among the objects to move.  So when the marking ends nothing reachable
\* was missed, neither an object to move nor a slot to rebind.
Pending(s) == \E k \in DOMAIN work : work[k].slot = s
Settled(s) ==
  \/ Load(s) = nullptr
  \/ Pending(s)
  \/ /\ Load(s) \in marked
     /\ RegionContains(Depth, Load(s)) =>
          \E k \in DOMAIN Top.references_to_targets :
             Top.references_to_targets[k] = s
MarkingComplete ==
  Marking =>
    /\ \A s \in RootSlots :
         s.frame <= Top.scanned => Settled(s)
    /\ \A s \in SlotsIn(marked) : Settled(s)
    /\ \A a \in marked :
         RegionContains(Depth, a) =>
           \E k \in DOMAIN Top.target_objects : Top.target_objects[k] = a

\* Once a stage has marked, every reference it recorded still is a place that
\* holds a pointer into the region it cleans: neither the nested cleanup that
\* moved the holder nor the moves into the region the holder left make it
\* name memory that is something else by now.
RecordedReferencesValid ==
  status = "run" =>
    \A d \in 1 .. Depth :
      stages_stack[d].phase # "mark" =>
        \A k \in DOMAIN stages_stack[d].references_to_targets :
          LET s == stages_stack[d].references_to_targets[k]
          IN  /\ IsPlace(s)
              /\ RegionContains(d, Load(s))
              /\ mem[Load(s)] # NoObj

\* No collection is triggered while one is forbidden, moving the live objects
\* never runs out of the memory that was estimated for them, and no assertion
\* of the collector fails but the two that stand for a heap that is too small:
\* the one behind the cleanup of the tenured region (TENURED_FULL) and the one
\* behind the cleanup for a sequence of allocations (SEQUENT_TOO_BIG), which
\* EndsOnlyWhenFull is about.
CollectorNeverFails == status \notin {"ASSERT", "FORBIDDEN", "GC_OOM"}

\* The process ends for want of memory only when there is none: the objects in
\* use, each counted once however many places and stages know of it, that lie
\* in the region being cleaned take more cells than the tenured region has
\* left; or the request would not be served by an empty young region either,
\* an object and its methods needing one cell more than they take.
LiveCells == UNION {a .. a + mem[a].allocated_size - 1 :
                      a \in {b \in Reachable : RegionContains(Depth, b)}}
EndsOnlyWhenFull ==
  /\ status = "TENURED_FULL" => Cardinality(LiveCells) > RemainingSpace(Tenured)
  /\ status = "SEQUENT_TOO_BIG" =>
       HEADER + request.n + request.methods * (HEADER + FUNC_SLOTS)
         >= MAX_ALLOC_SIZE(Young)
  /\ status = "OOM" /\ request # NoRequest =>
       HEADER + request.n > MAX_ALLOC_SIZE(Young)

\* An instruction that waits for memory gets it or the process ends: the
\* cascade of cleanups terminates.
RequestServed == request # NoRequest ~> (request = NoRequest \/ status # "run")
=============================================================================
