----------------------------- MODULE Collector -----------------------------
(***************************************************************************)
(* The copying collector of the virtual machine (allocator/gc.h,           *)
(* gc_region.h, gc_region.cpp) over the memory it works on.                *)
(*                                                                         *)
(* Cleaning a region is a stage: mark every object reachable from the      *)
(* interpreter's frames and collect the ones that lie in the region and    *)
(* the places that refer to them; move the collected objects to the next   *)
(* region; rebind the places; reset the region.  When the next region has  *)
(* no room for them, it is cleaned first, by a stage nested between the    *)
(* marking and the moving of this one.  The collector runs on the          *)
(* interpreter's only thread; its loops are actions of their own so that   *)
(* the states inside a collection can be spoken of.                        *)
(***************************************************************************)
EXTENDS Regions, Sequences, FiniteSets, SequencesExt

CONSTANTS NREGS,            \* registers of a frame (16 in InterpreterState)
          INPUTS_COUNT,     \* argument slots of a Function (4)
          OUTPUTS_COUNT     \* return slots of a Function (4)

ASSUME FrameAssumption ==
  NREGS \in Nat /\ INPUTS_COUNT \in Nat /\ OUTPUTS_COUNT \in Nat

VARIABLES mem,              \* object whose header is at an address, or NoObj
          cursor,           \* bump cursor of each region
          state_stack,      \* the interpreter's frames: the roots
          stages_stack,     \* the stages under way, the innermost last
          marked,           \* objects that carry the current mark
          work,             \* slots the marking recursion still has to visit
          is_trigger_forbidden,
          status            \* "run", or why the process ended

gcVars == <<mem, cursor, state_stack, stages_stack, marked, work,
            is_trigger_forbidden, status>>

----------------------------------------------------------------------------
(* Objects, frames and slots *)

Kinds == {"FUNC", "STR", "ARR", "OBJ"}

\* An object: its header fields and, as slots, the registers it holds.
Object == [kind : Kinds, allocated_size : Nat \ {0}, relocated_ptr : Ptr,
           slots : Seq(Ptr)]
\* No header at an address: what CHECK() finds by the debug mark.
NoObj  == [kind |-> "NONE", allocated_size |-> 0, relocated_ptr |-> nullptr,
           slots |-> <<>>]

\* A frame is a function from root indices to pointers.
CALLEE  == 0
ACC     == 1
REG(r)  == 1 + r
RootIdx == 0 .. (1 + NREGS)
Frame   == [RootIdx -> Ptr]

\* A slot is a place that holds a pointer: a root of a frame, or a register
\* inside an object (the holder and offset of a DanglingReference).
RootSlot(f, i) == [frame |-> f, holder |-> nullptr, idx |-> i]
HeapSlot(a, i) == [frame |-> 0, holder |-> a, idx |-> i]
IsRoot(s)      == s.holder = nullptr
Slot           == [frame : Nat, holder : Ptr, idx : Nat]

Load(s) == IF IsRoot(s) THEN state_stack[s.frame][s.idx]
                        ELSE mem[s.holder].slots[s.idx]

\* The place exists: CHECK() would let the access to its holder through.
IsPlace(s) ==
  IF IsRoot(s) THEN s.frame \in DOMAIN state_stack /\ s.idx \in RootIdx
               ELSE s.idx \in DOMAIN mem[s.holder].slots

\* Mutant of RemainingSpace: the cell of the cursor is counted as free.
RemainingWithCursor(r) == RegionSize(r) - cursor[r] + CURSOR

RemainingSpace(r) == RegionSize(r) - cursor[r]
CursorPtr(r)      == StartPtr(r) + cursor[r]

\* Memory m after obj is constructed at a: whatever lay there is overwritten.
Overwrite(m, a, obj) ==
  [x \in Addr |-> IF x = a THEN obj
                  ELSE IF x > a /\ x < a + obj.allocated_size THEN NoObj
                  ELSE m[x]]

----------------------------------------------------------------------------
(* Stages *)

\* A stage: what MarkAndFetchTargetObjects found, how many frames it has
\* entered, and how far the stage is.  Stage number r of the stack cleans
\* region r.
Stage == [phase : {"mark", "fix", "move"},
          scanned : Nat,
          target_objects : Seq(Addr),
          references_to_targets : Seq(Slot),
          estimating_realloc_size : Nat]

\* Mutant of NewStage: only the last frame is scanned.
NewStageLastFrame ==
  [phase |-> "mark", scanned |-> Len(state_stack) - 1, target_objects |-> <<>>,
   references_to_targets |-> <<>>, estimating_realloc_size |-> 0]

NewStage ==
  [phase |-> "mark", scanned |-> 0, target_objects |-> <<>>,
   references_to_targets |-> <<>>, estimating_realloc_size |-> 0]

Depth == Len(stages_stack)
Top   == stages_stack[Depth]
InGC  == Depth > 0
ToSpace == Depth + 1                   \* the region objects move to

SetTop(stage) == [stages_stack EXCEPT ![Depth] = stage]

\* A step of the marking recursion: visit the slot, or (post) come back to it
\* after everything below it was visited.
Item(s) == [slot |-> s, post |-> FALSE]
WorkItem == [slot : Slot, post : BOOLEAN]

\* Mutant of FrameRoots: the callee is no root.
FrameRootsNoCallee(f) == [k \in 1 .. NREGS + 1 |-> Item(RootSlot(f, k))]

\* The roots of a frame in the order MarkAndFetchTargetObjects visits them:
\* the callee, the accumulator, the registers.
FrameRoots(f) == [k \in 1 .. NREGS + 2 |-> Item(RootSlot(f, k - 1))]

\* Mutant of SlotsOf: the last register is not visited.
SlotsButLast(a) == [i \in 1 .. Len(mem[a].slots) - 1 |-> Item(HeapSlot(a, i))]

\* The registers an object holds, in the order MarkArray, MarkObject and
\* MarkFunction visit them.
SlotsOf(a) == [i \in 1 .. Len(mem[a].slots) |-> Item(HeapSlot(a, i))]

\* The process ends: LOG_FATAL, or an assertion that does not hold.
Halt(why) ==
  /\ status' = why
  /\ UNCHANGED <<mem, cursor, state_stack, stages_stack, marked, work,
                 is_trigger_forbidden>>

\* PrepareNewStage and InitMark: the stage that follows stages st.
BeginStage(st) ==
  /\ stages_stack' = Append(st, NewStage)
  /\ marked' = {}
  /\ work' = <<>>
  /\ UNCHANGED <<mem, cursor, state_stack, is_trigger_forbidden, status>>

\* RegionsPool::CleanupThis of a region that is not the tenured one.
CleanupThis(st) ==
  IF is_trigger_forbidden THEN Halt("FORBIDDEN") ELSE BeginStage(st)

Marking == status = "run" /\ InGC /\ Top.phase = "mark"
Marked  == Marking /\ work = <<>> /\ Top.scanned = Len(state_stack)
Moving  == status = "run" /\ InGC /\ Top.phase = "move"

\* The next frame of MarkAndFetchTargetObjects.
MarkFrame ==
  /\ Marking
  /\ work = <<>>
  /\ Top.scanned < Len(state_stack)
  /\ work' = FrameRoots(Top.scanned + 1)
  /\ stages_stack' = SetTop([Top EXCEPT !.scanned = @ + 1])
  /\ UNCHANGED <<mem, cursor, state_stack, marked, is_trigger_forbidden,
                 status>>

\* MarkAndFetchRecursively on the next slot.
MarkAndFetchRecursively ==
  /\ Marking
  /\ work # <<>>
  /\ LET s   == Head(work).slot
         obj == Load(s)
         should_be_relocated == obj # nullptr /\ RegionContains(Depth, obj)
         \* AppendRefToAliveObject
         withRef   == [Top EXCEPT !.references_to_targets = Append(@, s)]
         \* AppendAliveObject
         withAlive == [Top EXCEPT !.target_objects = Append(@, obj),
                                  !.estimating_realloc_size =
                                     @ + mem[obj].allocated_size]
         rest == <<mem, cursor, state_stack, is_trigger_forbidden, status>>
         check == IsPlace(s) /\ (obj # nullptr => mem[obj] # NoObj)
     IN  \/ ~check /\ Halt("ASSERT")
         \/ /\ check /\ obj = nullptr
            /\ work' = Tail(work)
            /\ UNCHANGED <<stages_stack, marked>>
            /\ UNCHANGED rest
         \/ /\ check /\ obj # nullptr
            /\ Head(work).post \/ obj \in marked
            /\ work' = Tail(work)
            /\ stages_stack' = IF should_be_relocated THEN SetTop(withRef)
                                                      ELSE stages_stack
            /\ UNCHANGED marked
            /\ UNCHANGED rest
         \/ /\ check /\ obj # nullptr
            /\ ~Head(work).post /\ obj \notin marked
            /\ marked' = marked \cup {obj}
            /\ work' = SlotsOf(obj) \o <<[slot |-> s, post |-> TRUE]>>
                                    \o Tail(work)
            /\ stages_stack' = IF should_be_relocated THEN SetTop(withAlive)
                                                      ELSE stages_stack
            /\ UNCHANGED rest

\* MoveObjects, when the next region has the room that was estimated.
StartMoving ==
  /\ Marked
  /\ RemainingSpace(ToSpace) >= Top.estimating_realloc_size
  /\ stages_stack' = SetTop([Top EXCEPT !.phase = "move"])
  /\ marked' = {}     \* marks are not read again: every stage takes a new one
  /\ UNCHANGED <<mem, cursor, state_stack, work, is_trigger_forbidden, status>>

\* MoveObjects, when it has not: clean the next region first.
CleanupNextRegion ==
  /\ Marked
  /\ RemainingSpace(ToSpace) < Top.estimating_realloc_size
  /\ ToSpace # Tenured
  /\ CleanupThis(SetTop([Top EXCEPT !.phase = "fix"]))

\* Mutant of TenuredIsFull: room for exactly the objects in use does not do.
TenuredIsAlmostFull ==
  /\ Marked
  /\ RemainingSpace(ToSpace) <= Top.estimating_realloc_size
  /\ ToSpace = Tenured
  /\ Halt("TENURED_FULL")

\* Cleaning the tenured region does nothing, so the assertion that follows
\* ends the process.
TenuredIsFull ==
  /\ Marked
  /\ RemainingSpace(ToSpace) < Top.estimating_realloc_size
  /\ ToSpace = Tenured
  /\ Halt("TENURED_FULL")

\* Memory whose header says the object went elsewhere.
WasRelocated(a) == mem[a].relocated_ptr # nullptr

\* Mutant of FollowHolder: the call of FixInvalidDanglingReferences is lost.
FollowNobody(s) == s

\* A recorded reference whose holder was moved by the nested stage follows it.
FollowHolder(s) ==
  IF ~IsRoot(s) /\ WasRelocated(s.holder)
  THEN [s EXCEPT !.holder = mem[s.holder].relocated_ptr]
  ELSE s

\* Back in MoveObjects after the nested stage.
FixInvalidDanglingReferences ==
  /\ status = "run" /\ InGC /\ Top.phase = "fix"
  /\ \/ /\ RemainingSpace(ToSpace) < Top.estimating_realloc_size
        /\ Halt("ASSERT")
     \/ /\ RemainingSpace(ToSpace) >= Top.estimating_realloc_size
        /\ stages_stack' =
             [d \in 1 .. Depth |->
                [stages_stack[d] EXCEPT
                   !.phase = IF d = Depth THEN "move" ELSE @,
                   !.references_to_targets =
                      [k \in DOMAIN @ |-> FollowHolder(@[k])]]]
        /\ UNCHANGED <<mem, cursor, state_stack, marked, work,
                       is_trigger_forbidden, status>>

\* One round of the loop of MoveObjects.
MoveObject ==
  /\ Moving
  /\ Top.target_objects # <<>>
  /\ LET obj     == Last(Top.target_objects)
         size    == mem[obj].allocated_size
         new_ptr == CursorPtr(ToSpace)
         check   == mem[obj] # NoObj /\ ~WasRelocated(obj)
     IN  \/ ~check /\ Halt("ASSERT")
         \/ /\ check
            /\ cursor[ToSpace] + size > RegionSize(ToSpace)
            /\ Halt("GC_OOM")
         \/ /\ check
            /\ cursor[ToSpace] + size <= RegionSize(ToSpace)
            /\ cursor' = [cursor EXCEPT ![ToSpace] = @ + size]
            /\ mem' = [Overwrite(mem, new_ptr, mem[obj])
                          EXCEPT ![obj].relocated_ptr = new_ptr]
            /\ stages_stack' =
                 SetTop([Top EXCEPT !.target_objects = Front(@)])
            /\ UNCHANGED <<state_stack, marked, work, is_trigger_forbidden,
                           status>>

\* Mutant of CurrentHolder: the copy of a moved holder is not written.
OldHolder(a) == a

\* The object to write the new pointer to: the copy of a holder that moved.
CurrentHolder(a) == IF WasRelocated(a) THEN mem[a].relocated_ptr ELSE a

\* One round of the loop of RebindLinks: DanglingReference::Fix.
RebindLink ==
  /\ Moving
  /\ Top.target_objects = <<>>
  /\ Top.references_to_targets # <<>>
  /\ LET s       == Last(Top.references_to_targets)
         new_ref == mem[Load(s)].relocated_ptr
         holder  == CurrentHolder(s.holder)
         copy    == HeapSlot(holder, s.idx)
         check   == /\ IsPlace(s)
                    /\ Load(s) # nullptr
                    /\ new_ref # nullptr
                    /\ ~IsRoot(s) =>
                         /\ IsPlace(copy) /\ Load(copy) # nullptr
                         /\ mem[Load(copy)].relocated_ptr = new_ref
     IN  \/ ~check /\ Halt("ASSERT")
         \/ /\ check
            /\ IF IsRoot(s)
               THEN /\ state_stack' =
                         [state_stack EXCEPT ![s.frame][s.idx] = new_ref]
                    /\ mem' = mem
               ELSE /\ mem' = [mem EXCEPT ![holder].slots[s.idx] = new_ref]
                    /\ state_stack' = state_stack
            /\ stages_stack' =
                 SetTop([Top EXCEPT !.references_to_targets = Front(@)])
            /\ UNCHANGED <<cursor, marked, work, is_trigger_forbidden, status>>

\* Reset of the cleaned region and FinalizeStage.  Once no stage is left
\* nothing refers to the memory above the cursors, and its contents are
\* forgotten.
FinalizeStage ==
  /\ Moving
  /\ Top.target_objects = <<>>
  /\ Top.references_to_targets = <<>>
  /\ cursor' = [cursor EXCEPT ![Depth] = CURSOR]
  /\ stages_stack' = Front(stages_stack)
  /\ mem' = IF Depth > 1 THEN mem
            ELSE [a \in Addr |->
                    IF \E r \in RegionIds :
                          RegionContains(r, a) /\ a < StartPtr(r) + cursor'[r]
                    THEN mem[a] ELSE NoObj]
  /\ UNCHANGED <<state_stack, marked, work, is_trigger_forbidden, status>>

GCStep == \/ MarkFrame
          \/ MarkAndFetchRecursively
          \/ StartMoving
          \/ CleanupNextRegion
          \/ TenuredIsFull
          \/ FixInvalidDanglingReferences
          \/ MoveObject
          \/ RebindLink
          \/ FinalizeStage
=============================================================================
