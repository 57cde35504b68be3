# A TLA+ development of the k3s virtual machine

k3s is a bytecode virtual machine in C++: an assembler and a class-file format,
an interpreter whose dispatch is generated from an instruction-set description,
a region heap with a copying collector, and the middle end of a JIT compiler
(control-flow graph, analyses, optimisations, register allocation). This
directory holds TLA+ modules translated from that code, the TLC configurations
that check them on small instances, and TLAPS proofs for every instance.

## 1. Inventory

| Component | State it keeps | Operations | Hard about it | Correct when |
|---|---|---|---|---|
| heap regions (`allocator/region.h`, `gc_region.h`, `object_header.h`) | a cursor per region, headers in front of objects | bump allocation, reset, sequent allocations | last cell of a region, comparisons of different strictness | objects tile the region up to the cursor |
| copying collector (`allocator/gc.h`, `gc_region.cpp`) | stack of stages: objects to move, references to rebind, size estimate, mark | mark, clean the next region first, fix recorded references, move, rebind, reset | a nested stage moves the holders another stage recorded; cycles; estimates; tenured region that is never cleaned | the program cannot tell that it ran |
| interpreter (`interpreter/interpreter.cpp`, `interpreter.h`, `types/`) | stack of frames (callee, accumulator, 16 registers, pc), objects | one handler per instruction and overload | raw pointers held over allocations; the callee is held by the frame alone | no pointer it can follow dangles |
| instruction decoder (`interpreter/templates/inst_decoder.*.erb`, `bytecode_instruction.h`) | operands of the last instructions | unpack operands, choose the overload by the types of registers | last register of an overload | the handler that runs fits its operands |
| assembler (`assembler/`) | identifiers, labels, pending references, code | declare, define, resolve, emit | 8-bit indices and offsets | what is emitted means what was written |
| class files (`classfile/`) | constant pool | write, load | 8-bit counters | loading gives back what was written |
| control-flow graph (`jit/ir/graph/basic_block.*`, `graph.h`) | blocks, successors, predecessors, instruction lists, loops | connect, split, splice | shape is arbitrary | successors and predecessors mirror each other |
| RPO, dominators, loops, linear order (`jit/ir/graph/analyses/`) | a vector of blocks, immediate dominators, a loop tree, a block order | one pass each, in this order | every shape of graph is an input | they agree with the definitions by paths |
| liveness, register allocation (`analyses/liveness.h`, `live_intervals.h`, `reg_alloc.h`, `reg_descr.h`) | live sets, intervals, registers and slots | one pass each | loop ranges, splitting, slots never reused | two values alive at once never share a place |
| instructions and optimisations (`instructions.*`, `optimizations/`) | operands and users, instruction lists | peepholes, check elimination, inlining | lists changed while iterated, dominance of checks, widths of constants | the program computes the same |
| runtime, logging, ISA and IR generators, tests, benchmarks | none of their own | - | - | - |

How they interact. The assembler writes a class file; the runtime loads it into
the constant region and calls `Interpreter::Invoke`, which allocates main's
function object and pushes the first frame. Every instruction handler runs to
its end and dispatches the next one. A handler that needs memory calls the
young region; a region without room calls the collector, which reads the
interpreter's frames as roots, writes them back, and calls itself for the next
region. There is one thread: the only "concurrency" is that a call to allocate
may move every object under the caller, and that a cleanup may run another
cleanup between its marking and its moving. The JIT middle end is driven from
its tests: a graph is built, then the analyses run in a fixed order, each on
the results of the ones before.

The hazards that follow from this, each at its line and with the properties
that would catch it, are in `PROJECT.json` under `hazards`.

## 2. Modules

    Regions <- Collector <- Machine <- MachineView <- MCMachine
                                       MachineView -> ObjectGraph
    Machine <- MachineProofs <- MarkingProofs, AllocationProofs
    AllocationProofs <- HeapProofs
    HeapProofs, MarkingProofs <- CollectorProofs
    CollectorProofs, MachineView <- RefinementProofs
    Bytecode <- Assembler <- ClassFile <- MCClassFile
                             ClassFile <- ClassFileProofs
    Bytecode <- Decoder <- DecoderProofs
    ControlFlow <- Instructions <- DomTree <- LoopAnalyzer <- LinearOrder
                <- Liveness <- RegAlloc <- JitAnalyses <- MCRegAlloc
    DomTree <- Peepholes, ChecksElimination, Inlining
    JitAnalyses, Peepholes, ChecksElimination, Inlining <- Optimizations <- MCOptimizations

(`A <- B`: B extends A; `->`: refinement mapping.)

**Regions** - the layout of the heap: `SURVIVORS_N` equal regions and the tenured
one, laid end to end, each with its cursor in its first cell. The unit is the
cell: a header or one register. Address 0 is the null pointer and any value
that is not a pointer.

**Collector** - the memory (`mem`: the object whose header is at an address; `cursor`)
and the stack of stages. One action per loop body of `gc.h` and `gc_region.cpp`,
so that the states inside a collection can be spoken of:

| Action | Code |
|---|---|
| `MarkFrame` | next frame of `MarkAndFetchTargetObjects` |
| `MarkAndFetchRecursively` | one entry of or return to that recursion; `work` is its call stack |
| `StartMoving`, `CleanupNextRegion`, `TenuredIsFull` | the three ways into `MoveObjects` |
| `FixInvalidDanglingReferences` | back from the nested cleanup |
| `MoveObject`, `RebindLink` | one round of the loops of `MoveObjects` and `RebindLinks` |
| `FinalizeStage` | reset of the region, end of the stage |

A mark is a set: the code compares a 64-bit counter that every stage increments.
An assertion that does not hold, or an access `CHECK()` would refuse, sets
`status` and the process is over. Memory above the cursors is forgotten only
when no stage is left; until then the leftovers of moved objects are in `mem`,
with their forwarding pointers, as in the code.

**Machine** - the interpreter around the collector: every instruction that reads
or writes a register, a frame or an object is an action, and any of them may
come next, so that every behaviour of every bytecode program is a behaviour of
the model. An instruction that allocates leaves a `request`; `NewSimple`,
`PrepareForSequentAllocations`, `NewObjectStorage`, `NewMethod` and
`EndSequentAllocations` serve it, as `AllocBytes`, `CleanupThis` and `Object::New`
do. `Init` is the state in which `Interpreter::Invoke` enters main. Numbers are not told apart, an object's
member is named by its index, and jumps and comparisons change nothing here.
Reading past an array's end ends the behaviour (`UNDEFINED`).

**ObjectGraph** - what a program is promised: frames whose roots refer to objects whose slots
refer to objects; no regions, no collector, and `ended` once the process is gone. Which
reference an object goes by cannot be observed, so every step is described by the graph it leaves
*up to a renaming*: `Matched` pairs the objects that the same path leads to in two graphs, `SameGraph`
asks that this pairing is one-to-one and that paired objects have the same kind, size and empty slots,
and `Becomes(fs, h)` is a step to any graph that looks like frames `fs` with heap `h`. An instruction
names one such graph; `Rearrange` names the one there was. What no frame reaches is free: a new
object takes any reference that nothing reaches (`Fresh`).

**MachineView** - the refinement mapping. Frames and slots are read through the forwarding
pointers (`Follow`); nothing else is hidden or renamed. `CollectorInvisible` says that what is seen
this way is a behaviour of ObjectGraph.

**MCMachine** - constants for TLC, and `FairSpec`.

**MachineProofs**, **MarkingProofs**, **AllocationProofs**, **HeapProofs**, **CollectorProofs**,
**RefinementProofs**, **ClassFileProofs**, **DecoderProofs** - the theorems (section 5).

**Bytecode** - the operand byte of an instruction and its conversions: two near
registers, one far register, an unsigned index or a signed offset. `NEAR`, the number of
registers that half an operand can name, is a parameter (16 in the code: four bits). An
operand has `NEAR * NEAR` values, and with it go the size of the pool and the reach of a branch.
`NEAR` is even, so that half of the values are negative offsets; that it is a power of two matters nowhere.

**Assembler** - the tables of `AsmEncoder` and one action per call the grammar makes.
The source is open: whatever declaration, member, instruction or label the
grammar allows may come next, and the process may end at any point with a parse
error. `context` is the rule that is open. Two opcodes stand for those with an
immediate (`JUMP`, `LDAI`) and two for the others (`RET`, which the end of a
function looks for, and `MOV`). An instruction remembers, for the properties, the
name its operand was written as.

**ClassFile** - `DumpClassFile` writes a header, the code and a record per constant it
counts; `LoadClassFile` reads them back into a pool, mappings of members and
the entry point; `Fields` is the constructor of `Object` on that mapping. The file is a set of records and the fact
whether reserved room was left unwritten, which reads as zero records.

**Decoder** - `DecodeAndResolve` of an open sequence of instructions: the registers
hold any types when an instruction is fetched. The table of `isa.yaml` is
in the module, one opcode for each group that shares signature and overloads. A
handler is only an end of the instruction here; what handlers do is in Machine.

**ControlFlow** - blocks are wired one after the other by `SetSucc` and
`SetTrueFalseSuccs`; a block named for the first time takes the next number, so
TLC enumerates every graph up to names, once. The reference definitions (reachability
and dominance by paths) are here too.

**Instructions** - the variable `ir`: a record per instruction (opcode, immediate, type,
block, inputs, users) and, per block, the chains of phis and of the other
instructions. The chain through `User::next_or_inst_` is a sequence of pairs (user,
index of the input). The operations of `Inst`, `User` and `BasicBlock` take the
instructions and return them changed; an assertion that does not hold, or a null
neighbour that is followed, sets their field `failed`.

**DomTree** - `RPO`, the depth-first search of `rpo.h`, and `BuildDomTree`: numbering, semidominators by backward search over
marked predecessors, immediate dominators, and the debug check by exclusion.

**LoopAnalyzer** - back edges, the loop of each header, population from the
innermost loop outwards, the root loop, irreducible loops. The record `st` is
the state of the analysis and `st.failed` the first assertion that fails;
`MAX_DEPTH`, which no terminating search reaches, finds a recursion that does not end.

**LinearOrder** - the depth-first placement of blocks and the life numbers of their
starts and of their instructions (even; a phi has the number of its block).

**Liveness** - one backward pass over the linear order: live sets, the ranges of
each value, the range a loop adds to what is live in its header, and the merging
of ranges into intervals with every assertion of `live_intervals.h`.

**RegAlloc** - linear scan: intervals in the order of their starts, expiry, holes, the
choice of the value to spill, its split and reload before the next use, slots, and
then the moves that bring the inputs of phis into the registers of the phis.

**JitAnalyses** - the passes in their order as actions: `Build`, `BuildRPO`, `BuildDomTree`,
`AnalyzeLoops`, `PutInst`, `PutPhi`, `SetPhiInput`, `BuildLinearOrder`, `BuildLiveness`,
`AllocateRegisters`. The builder puts instructions in before any analysis; the
model does so after the loop analysis, because the passes before do not look at them, and block by
block in reverse post-order, so that the inputs of an instruction exist.
`BasicBlock::loop_` has no initialiser and the loop analysis reads it; either outcome is taken.

**MCRegAlloc** - graphs of ten shapes: a line, a diamond, a triangle, a while and a do loop, a
loop with a side exit, a loop in a loop, a loop behind a branch, a loop without exit,
and a cycle with two entries.

**Peepholes** - the rewritings of `SUB`, `XOR` and `ASHR`, with the constants they fold, on
words of `WIDTH` bits (64 in the code; the 32-bit types have half of it).

**ChecksElimination** - the list of checks met so far in reverse post-order, and the removal
of a check that an equal one dominates.

**Inlining** - the callee is a graph of its own, built after the caller's. A call is
replaced step by step as in `inlining.h`: the callee's graph inserted, the block split, arguments
put for parameters, the returns merged by a phi, the edges moved. `INSTS_LIMIT` is the limit of the class.

**Optimizations** - the three optimisations as actions on a complete graph, in any order, and the
analyses again after an inlining. A pass on a graph with nothing it looks for is left out. `Meaning` runs a graph: what it returns
for each argument and each way its branches go. `meant` is a history variable,
the meaning before the first optimisation.

**MCOptimizations** - what the graphs are built of: arithmetic in one block or two, checks in a
diamond and in a loop, calls of nine callees (identity, constant, nothing returned,
two parameters, two blocks, two returns, a return of nothing beside one of a value,
no return, a call inside) in three shapes.

## 3. Runs

| Run | Instance | Checks |
|---|---|---|
| `arrays` | 2 regions of 5 cells, tenured 5, one register, arrays of one element | type invariant, `NoDanglingPointer`, `RegionsTiled`, `RecordedReferencesValid`, `CollectorNeverFails`, `CollectorInvisible` (refinement of ObjectGraph) |
| `cascade` | 3 regions of 3 cells, tenured 5, strings and arrays of one element, and arrays no region can hold | `MarkingComplete`, `EndsOnlyWhenFull`; `RequestServed` under fairness |
| `calls` | one region of 7, tenured 10, functions with one argument, two frames | `CollectorInvisible` |
| `objects` | one region of 7, tenured 9, functions with one result, objects with a method, and one too large | `CollectorNeverFails`, `EndsOnlyWhenFull`, `CollectorInvisible` |
| `graphs` | all graphs of at most 6 blocks, self edges too | `RpoIsTopological`, `IDomsCorrect`, `ReducibilityDetected`, `LoopsAreNatural`, `OrderRespectsEdges`, `AbortsExplained` |
| `assemble` | 4-bit operands, two names, up to 3 instructions, 2 declarations, a label, objects with up to 2 members | `TypeOK`, `LabelsReached`, `LoadedAsWritten`, `MembersFound` |
| `constants` | 2-bit operands (a pool of 4), five names | `ConstantsStay` |
| `decode` | 2-bit operands, every opcode, all types | `OperandsKept`, `WellTypedDispatched` |
| `allocate` | ten shapes with at most 5 instructions (constants, sums, phis, returns), 2 registers | `IntervalsCover`, `LivenessGivesUp`, `RegistersApart`, `SpillsUnderPressure`, `PhisReceiveInputs`, `PhisMoveNothingElse`, `AllocationGivesUp` |
| `optimize` | at most 5 instructions in at most 4 blocks before inlining, 2-bit words, constants 0 to 3, calls with 0 to 2 arguments, up to two optimisations | `UsersMirrorInputs`, `BlocksLinked`, `UsesDominated`, `NoCheckTwice`, `OptimizationsGiveUp`, `SameResult` |
| `half_pool` | 2-bit operands | finding (section 6) |
| `branch_in_loop` | all graphs of at most 5 blocks | finding (section 6) |

*Why the bounds are enough to be of interest.* In `arrays` an object can refer to
itself, to an object of the same region, of an older and of a younger one;
stages nest twice; the tenured region overflows. `cascade` has one more level,
so that a stage is nested in a nested stage and its references are fixed twice;
with the oversized array an allocation fails after its cleanup. In `calls` a function object
takes three cells, so the young region holds two and the tenured one three. The callee is
referred to by its frame alone, arguments are passed in a function object that
the caller drops, and the young region is collected in the callee: two functions of which one is
the argument of the other are moved there together, a register of the waiting caller is rebound
as well as those of the callee, and the callee goes on with main's function object, its own and
its argument in the tenured region. Later collections, in a callee too, find that region full. Results
of functions are left to `objects`, where the two allocations of an object with a method
straddle the end of the region.
Six blocks are the fewest for two nested loops with a branch inside and one
after them. For the assembler the width of the operand is scaled down with the
source: 2 bits (`NEAR` = 2) make a pool of 4, of which half is written, registers 0 and 1
in each half of a byte, and branches that reach from -2 to 1, so every limit of
the 8-bit code is met by sources of a few lines; `assemble` has 4 bits (`NEAR` = 4), so that a label
may have several pending references that it can all reach. `half_pool` needs
a third constant (the 129th of the code).
In `allocate` five instructions are enough for three values alive at once with two
registers, so that one is spilled and reloaded, for two phis in one block, and for
values used after a loop or only in it; with the four registers of the sample
description each of these takes more instructions and no other code. Constants are
all alike there, because allocation does not look at them. In `optimize` two optimisations
are enough for a folded constant to be folded again and for an inlined body to be
optimised; 2-bit words have a zero, all ones, a sign, and shifts by less than, as much as and more
than a word. `INSTS_LIMIT` (1024 in the code) is 8, so that a first and a second call may meet it, and
`MAX_BLOCKS` only leaves the room that inlining needs. MCOptimizations adds bounds on what is built:
one parameter, constants in order, arithmetic that goes on with what it computed last. TLC covers these instances completely: there is no depth bound and no state constraint.

*Fairness.* `RequestServed` assumes weak fairness of the allocation and collector steps
together (`FairSpec` of MCMachine, in `cascade`): the machine has one thread, which inside a collection has nothing else
to run. No fairness is assumed of the program's instructions. All other
properties are safety properties.

*Deadlock* is checked in every run; an ended process, and a finished or aborted
compilation, stutter explicitly.

*Mutants.* For each property `PROJECT.json` names a plausible slip of the code that breaks it (the callee
is no root; the fix of references is lost; the estimate leaves something out;
blocks are popped in the wrong order). The mutated definitions stand before
the ones they replace and are marked as mutants.

## 4. Properties

- `NoDanglingPointer`: between collections every pointer that can be followed from
  a frame leads to a live header in allocated memory.
- `RegionsTiled`: headers and bump cursors agree, at every step of a collection.
- `MarkingComplete`: while a stage marks, each slot of the marked part of the
  graph is empty, waiting, or leads to a marked object and is recorded.
- `RecordedReferencesValid`: what a stage recorded is still a place holding a
  pointer into its region, through the nested cleanups that move the holders.
- `CollectorNeverFails`: no forbidden trigger, no move without room, and none of the collector's
  assertions fails but the two for a heap that is too small, `gc_region.cpp:134` behind the cleanup of the
  tenured region (`TENURED_FULL`) and `gc_region.cpp:162` behind the cleanup for a sequence of allocations
  (`SEQUENT_TOO_BIG`). Those two do fail, in the runs too.
- `EndsOnlyWhenFull`: they fail only for want of memory. At the first the objects in use in the region being
  cleaned, as the frames reach them and each counted once, take more cells than the tenured region has left; at the
  second an empty young region would not do either, and neither would it when an allocation throws.
- `RequestServed`: a request for memory is served or the process ends.
- `CollectorInvisible`: the machine implements ObjectGraph. It fails when an object reached
  by two paths becomes two, when two become one, when a slot leads to another object than before, or when an
  instruction does to the graph what it should not, long before a pointer dangles.
- `LabelsReached`: from the moment a label is met every instruction that named it leads to
  it, if it is within reach; until then the reference is pending, and none is pending in a finished file.
- `ConstantsStay`: up to the size of the pool, a declaration changes no other constant.
- `LoadedAsWritten`, `MembersFound`: after assembling, writing and loading, an index
  stands for what its name was declared as, and a member of a new object is the method
  (or the empty field) declared under its name.
- `OperandsKept`: the handler uses the registers and the immediate the source named.
- `WellTypedDispatched`: operands that some overload is for reach an overload they fit,
  although the last register is never compared.
- `RpoIsTopological`, `IDomsCorrect`, `ReducibilityDetected`, `LoopsAreNatural`,
  `OrderRespectsEdges`: each analysis agrees with the definition by paths.
- `IntervalsCover`: where a path leads from a number to a use of a value, the value's intervals
  hold the number, unless loops are nested; without loops they hold nothing else.
- `LivenessGivesUp`, `AllocationGivesUp`, `OptimizationsGiveUp`: what each of them ends the
  process for, and that no other assertion ever fails.
- `RegistersApart`: where a result is written no two values share a register, through spills,
  reloads and expiries. `SpillsUnderPressure`: nothing is spilled while registers suffice.
- `PhisReceiveInputs`, `PhisMoveNothingElse`: when a predecessor ends, an input of a phi is in the
  register of the phi, and everything else is where linear scan put it.
- `SameResult`: an optimised graph returns, returns nothing, or fails a check exactly as before.
- `UsersMirrorInputs`: chains of users and inputs agree, for what is in blocks.
- `BlocksLinked`, `UsesDominated`: the graph an optimisation leaves is well formed.
- `NoCheckTwice`: after check elimination no check has an equal one before it on every path.
- `AbortsExplained`: which graphs the assertions refuse, exactly: the dominator tree
  (`dom_tree.h:81`) a block that branches to itself, the loop analysis
  (`loop.h:94`, `loop.h:29`) a reducible graph with a loop closed from inside a loop nested in it.

## 5. Proofs

TLC checks the instances of section 3; the theorems hold for every heap layout, every
frame size, every set of program constants, every source and every size of the pool.

| Theorem | Module | States |
|---|---|---|
| `TypeCorrect` | MachineProofs | `Spec => []TypeOK` of Machine |
| `MarkingMissesNothing` | MarkingProofs | `Spec => []MarkingComplete` |
| `RegionsStayTiled` | AllocationProofs | `Spec => []RegionsTiled` |
| `CollectorIsSound` | CollectorProofs | `Spec => []CollectorNeverFails` |
| `MemoryIsLacking` | CollectorProofs | `Spec => []EndsOnlyWhenFull` |
| `ReferencesStayValid` | CollectorProofs | `Spec => []RecordedReferencesValid` |
| `NoPointerDangles` | CollectorProofs | `Spec => []NoDanglingPointer` |
| `MachineImplementsGraph` | RefinementProofs | `Spec => CollectorInvisible` (a refinement) |
| `OperandsArrive` | DecoderProofs | `Spec => []OperandsKept` |
| `DispatchIsSound` | DecoderProofs | `Spec => []WellTypedDispatched` |
| `TypeCorrect` | ClassFileProofs | `Spec => []TypeOK` of ClassFile |
| `ReferencesReachLabels` | ClassFileProofs | `Spec => []LabelsReached` |
| `ConstantsNeverChange` | ClassFileProofs | `Spec => ConstantsStay` (an action property) |
| `MembersAreFound` | ClassFileProofs | `Spec => []MembersFound` |
| `LoadsWhatWasWritten` | ClassFileProofs | `Spec => []LoadedAsWritten`, if at most half the pool is declared |

*Assumptions* are the ones the modules declare, and TLC evaluates them in every run:
`RegionsAssumption` (there is a young region, every region has room for its cursor and one
cell), `FrameAssumption` (counts are natural numbers), `ProgramAssumption` (sizes are natural
numbers, main's function object fits in an empty region), `NearAssumption` (`NEAR` is even
and not zero) and `SourceAssumption` (the source's numbers and the bounds are natural numbers).
`LoadsWhatWasWritten` alone has a hypothesis of its own, `2 * MAX_DECLS <= POOL_SIZE`. It is the
finding `half_pool` turned round: up to 128 constants the program is loaded as it was written,
with the 129th it is not.

### The heap

`HeapInv`, the invariant all of this comes to, is
`MarkInv /\ RegionsTiled /\ RequestInv /\ CollectorInv /\ CollectorNeverFails`.

*Type correctness* is not inductive. `MoveObject` writes the copy and then the
forwarding pointer into the original's header; that the original still has a
header after the copy was written needs that the copy lies elsewhere. `TypeInv`
therefore adds `InItsRegion`: the objects a stage is to move lie in the region
it cleans. Copies are made in the next region (`NextRegionStarts`,
`BelowToSpace`), so the original is untouched. With that the cursor bound follows
from the guard of the allocation, and the depth of the stages from
`CleanupNextRegion` never cleaning the tenured region.

*Completeness of marking* is proved with `MarkInv`, which adds to `TypeInv`:
`OutersWait` (every stage but the innermost waits for a nested one, so that a
nested stage finalised never resumes a marking), and `ComeBack` (an item of the
recursion that waits for its return leads to a marked object, so that the
return records the slot). One lemma per action shows that
it preserves the invariant; the marking step has one case per branch of `MarkAndFetchRecursively`.

*Tiling.* `Tiled(m, lo, hi)` speaks of one region. It depends on headers and their sizes
alone (`TiledSame`), so most actions keep it at once; an allocation and a move add one header at the
cursor of one region and raise that cursor by its size, and a reset leaves an empty region.

*Requests.* `RequestInv` says what a handler that allocates may rely on: after a cleanup the young region
is empty (`CleanedIsEmpty`), while the collector is forbidden the young region has room for the rest of
the object and its methods (`ForbiddenIsServed`), and a collection runs only for a request that
has asked for one (`CollectsOnRequest`). The forbidden trigger of `CollectorNeverFails` is ruled out here.

*Between collections* (`HeapSafe`): some set of objects in place holds whatever the frames, its own
objects and the constructor under way point to. Every instruction keeps such a set, or a new object
joins it (`Mutates`). What the program reaches lies in every closed set; that is an induction on the length of a
chain of pointers, made by a least counterexample over the naturals, because the induction theorems
cannot be instantiated.

*Inside a collection* (`CollectorInv`) one invariant is for the way down and one for the way up.

- Down, while stages mark: `Live` is the least closed set and nothing moves. What is marked is
  live, and the recorded and the pending places are each known once (`Progress`). When the work runs out the marked set
  is closed (by `MarkingComplete`), hence `Live`: the stage has then recorded exactly the live objects of its region and exactly the
  places that lead to them (`Covers`), and its estimate is the number of cells of those objects (`Estimated`). The same
  holds of every stage that waits (`Waits`).
- Up, while stages move: there is a set `M` (first `Live`) whose objects are in place or were moved to the next
  region, each to a copy of its own (`Forwarded`), and whose places lead into `M` or to a copy (`Leads`).
  The waiting stages still cover `M`, because what they name is read through the forwarding
  pointers. When a stage is finalised nothing of its region is referred to any more (`UpFix`).
  `FixInvalidDanglingReferences` then replaces each recorded holder by its copy, and the proof goes on with
  `Settle(M)`, the objects where they lie now. The last `FinalizeStage` leaves a safe set.

That a move has room is a count: the cells of the objects left to move, which are disjoint by the tiling, still fit behind the cursor of the
next region, which its cleanup has emptied or whose free room was compared with the estimate.

*Want of memory.* `MemoryIsLacking` compares what the collector counted with what the frames reach. `Live` lies
in every closed set; that it is all of `Reachable` needs that the chain of sets that computes `Reachable` has settled
after as many steps as there are cells: each step before adds an object, and there are no more objects than cells
(`ReachableSettles`). With `Covers` and `Estimated` the estimate is then the number of cells of the reachable objects of the
region. That a request was too large for an empty region follows from `CleanedIsEmpty`.

### The refinement

`MachineImplementsGraph` says that every behaviour of the machine is one of ObjectGraph. Its invariant is
`RefInv`: `HeapInv`, and `Callees` (the callee of every frame is a function object, also where it is
seen through a forwarding pointer), `Asked` (a request is for a size the program declares), and `Building`.

*One lemma on graphs carries it.* `Renames(phi, S, ...)` says that a one-to-one map `phi` takes the objects of a
closed set to objects with the same kinds and sizes and with correspondingly renamed slots. `RenamedSame`:
graphs so related are the `SameGraph`. `Matched` is a chain of sets of pairs, one for each length of path;
the chain is shown to exist, and to stay within any relation that pairs the roots and goes on along slots, by
a least counterexample over the naturals.

*Between collections* nothing of a safe set is forwarded, so what is seen is what is there (`Plain`). Each
instruction is then one step of ObjectGraph, with the identity as the renaming, on the safe set that
`HeapSafe` provides. What is not in that set is not reached, so what the machine allocates is `Fresh`.

*An object with methods* is made by several steps of the machine, which show nothing, and one of the graph:
until the last step the object and its methods lie outside a safe set, distinct from each other, and the members are the
methods made so far (`Building`). `EndSequentAllocations` is the step that shows, as `NewObj`.

*In a collection* marking leaves memory alone. A move writes a copy behind the cursor of the next region and
forwards the original: seen through `Follow`, every pointer to the original now leads to the copy, so the
renaming takes that one object to its copy and every other to itself. Rebinding stores the copy's address where the original's was,
which is seen as the same; the room is reset when nothing leads there any more. That the places of `M`
lead into `M` or to a copy (`Leads`), and that no two objects share a copy (`Forwarded`), is what
`CollectorInv` knows.

### The decoder

The bytes are digits to the base `NEAR`; taking an operand apart and putting it together are inverse by
division with remainder. For the dispatch the lemma on the table is that no two overloads of an
opcode differ in their last register alone, so that comparing all registers but the last finds at most
one, and operands that fit some overload are given that one.

### The class file

The inductive invariant is `AsmInv /\ FileInv /\ LoadedInv /\ LabelsReached`. `AsmInv` says of the tables that the
indices handed out are the numbers below the number of names until the pool wraps, that a pending reference was
written as its label, and that nothing is pending outside a body. `FileInv` says that a file holds what the tables said
when it was written, for the lower half of the indices (`WrittenIds`). After loading each index
is `Restored` from its record or `Lost`, and none in use is lost unless one of the upper half is in use. That members are found
at their place rests on a count: the names of a class that was loaded are distinct, so its mapping is a bijection with
its fields and methods. The invariant was checked by TLC on the three instances of the assembler before it was proved.

### Only model-checked

- `RequestServed`: liveness under fairness.
- Everything about the JIT: the analyses, liveness, allocation and optimisations are passes
  over a whole graph, written as recursive operators and folds, and the exclusive or comes from
  Bitwise; neither is in the prover's reach.

## 6. Findings

- `branch_in_loop`: `DFS` asserts `AllBackEdgesMarked(loop)` after the successors that
  stay in the loop (`linear_order.h:57`). A loop whose body branches fails it and the process ends.
- `half_pool`: `WriteConstantPool` counts in an `int8_t` (`class_file.cpp:51`) and writes 128 of
  256 constants. The rest of the reserved buffer is zeros, which the loader reads
  as numbers for index 0: the first constant is lost as well.
Behaviours of the models that are worth knowing and have no run of their own:

- Single-block loops and loops closed from inside an inner one (`continue` of an outer loop, or two
  loops with the same last block) end the process in the JIT analyses; `AbortsExplained` says when.
- The header's `entry_point` is documented as the offset of main (`class_file.h:91`). A source
  without main is taken when its first constant is a function, and starts there (`MainId`).
- "Function should end with `RET`" (`assembler.h:189`) is decided by the last instruction of
  the whole source: a function of labels alone passes and has no code (`CheckLabelsResolved`).
- A branch offset is cut to 8 bits (`assembler.h:146`): a label 256 instructions away becomes offset 0,
  which the interpreter asserts not to happen (`interpreter.cpp:96`).
- `CheckRegsType` (`interpreter.h:47`) never compares the last register, so that operands no overload is for
  (`isa.yaml:40`) may run the handler of one. `WellTypedDispatched` is about the others.
- Liveness. The range of a loop ends at the first block of another loop, an inner one too
  (`liveness.h:209`), so in nested loops a value may be taken for dead where it is needed. A phi without users, a loop that is last
  in the order and a value that is dead right before a loop header and live in it end the process.
- Allocation. Locations are not reconciled on edges except for phis: a value may be read from a
  slot that was written on another path only. At an odd number a reload may take the register of an
  input that expires there. A value that is the input of two phis of one predecessor reaches only the
  last of them. The location restored behind a phi's move is the one before a spill for that phi (`reg_alloc.h:264`).
  A phi that would be spilled at its own number ends the process. Slots are never reused and their number (255) is not compared.
  With four registers the model yields the allocations that tests 1 and 3 of `jit/tests/hw_5.h` expect.
- Peepholes replace at most one instruction of a block (the next pointer is cleared), follow a null
  neighbour when that one is first or last and the new one is not in a block yet (`graph.cpp:57`), and give folded `SUB` and `XOR` constants no type, on which
  a later fold of `ASHR` ends the process.
- Inlining takes leaf callees only, refuses a second call in another block, leaves a call without users beside the
  body it put in, does not visit what it put behind the call, and reads on in the old memory of a vector that
  grew (`inlining.h:21`).

## 7. Not modelled, and the plan

Not modelled for good: log texts and dumps, the lexer and grammar (generated
parsers, whose rules are the guards of Assembler), the Ruby generators (tables,
no state), casts between classes of instructions by opcode, `CheckValid` and `SetInput` over an
input that is set (`ReplaceUserWith`), which nothing calls, exhaustion of the native stack
and of the region of the collector's own containers. 32-bit arithmetic is not told
from 64-bit arithmetic when constants are folded.

What is left. The theorems cover every property of the heap, the decoder and the class file
that the runs check, but for `RequestServed`, whose liveness is out of the prover's reach. A measure that goes down
with every step of a collection (regions still to be cleaned, unmarked objects, objects to
move, references to rebind) would be the next thing to prove about it, as an action property. Then the JIT: the
analyses would have to be restated as recursive functions before anything about them can be
proved, beginning with the immediate dominators, whose debug check by exclusion is a definition to prove them against.
