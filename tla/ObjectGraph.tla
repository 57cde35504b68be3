---------------------------- MODULE ObjectGraph ----------------------------
(***************************************************************************)
(* What a program sees of its memory: frames whose roots refer to objects  *)
(* whose slots refer to objects.  There are no regions and no collector.   *)
(* Which reference an object goes by cannot be observed, nor can what the  *)
(* frames do not reach: a step is described by the graph it leaves, up to  *)
(* a renaming of the references.                                           *)
(***************************************************************************)
EXTENDS Integers, Sequences, FiniteSets, SequencesExt

CONSTANTS Refs,             \* what objects may be referred to by
          NREGS, FUNC_SLOTS, ARR_SIZES, OBJ_LAYOUTS

VARIABLES frames,           \* the roots of each frame
          heap,             \* the object a reference refers to
          ended             \* the process is gone

vars == <<frames, heap, ended>>

None    == 0
CALLEE  == 0
ACC     == 1
THIS    == 1
RootIdx == 0 .. (1 + NREGS)
Locals  == RootIdx \ {CALLEE}          \* the roots instructions assign

----------------------------------------------------------------------------
(* Two graphs: the frames fs with the heap h, and gs with k *)

RootPairs(fs, gs) == {<<fs[f][i], gs[f][i]>> : f \in DOMAIN fs, i \in RootIdx}
SlotPairs(h, k, a, b) ==
  {<<h[a].slots[i], k[b].slots[i]>> :
     i \in DOMAIN h[a].slots \cap DOMAIN k[b].slots}

\* The pairs of objects that the same path leads to in both: a root, or a slot
\* of objects that are paired.
Objects(pairs)      == {r \in pairs : r[1] # None /\ r[2] # None}
Roots(fs, gs)       == Objects(RootPairs(fs, gs))
Onward(pairs, h, k) ==
  pairs \cup Objects(UNION {SlotPairs(h, k, r[1], r[2]) : r \in pairs})
Matched(fs, h, gs, k) ==
  LET Along[n \in 0 .. Cardinality(Refs)] ==
        IF n = 0 THEN Roots(fs, gs) ELSE Onward(Along[n - 1], h, k)
  IN  Along[Cardinality(Refs)]

\* The objects that frames fs reach.
Reach(fs, h) == {r[1] : r \in Matched(fs, h, fs, h)}

\* They look the same from the frames: same paths lead to objects of the same
\* kind and size, and to the same object in one if and only if in the other.
SameGraph(fs, h, gs, k) ==
  LET pairs == Matched(fs, h, gs, k)
  IN  /\ DOMAIN fs = DOMAIN gs
      /\ \A f \in DOMAIN fs : \A i \in RootIdx :
           fs[f][i] = None <=> gs[f][i] = None
      /\ \A r \in pairs :
           LET a == h[r[1]]
               b == k[r[2]]
           IN  /\ a.kind = b.kind
               /\ DOMAIN a.slots = DOMAIN b.slots
               /\ \A i \in DOMAIN a.slots : a.slots[i] = None <=> b.slots[i] = None
      /\ \A r, q \in pairs : r[1] = q[1] <=> r[2] = q[2]

----------------------------------------------------------------------------
(* What an instruction may do to the graph *)

top == Len(frames)
cur == frames[top]

Becomes(fs, h) == SameGraph(fs, h, frames', heap') /\ UNCHANGED ended

SetLocal(i, p) == [frames EXCEPT ![top][i] = p]
At(p)          == heap[p].slots
Referents      == {cur[i] : i \in RootIdx} \ {None}

\* A local gets nothing or what another local holds (LDA, STA, MOV, numbers).
Assign == \E i \in Locals : \E p \in {None} \cup {cur[j] : j \in Locals} :
            Becomes(SetLocal(i, p), heap)

\* A function found in an object.
IsMethod(p, k) == /\ heap[p].kind = "OBJ"
                  /\ At(p)[k] # None
                  /\ heap[At(p)[k]].kind = "FUNC"

\* A local gets what an object at hand holds (GETARG, GETTHIS, GETRET, GETELEM).
Read == \E i \in Locals, p \in Referents :
          \E k \in DOMAIN At(p) : /\ ~IsMethod(p, k)
                                  /\ Becomes(SetLocal(i, At(p)[k]), heap)

\* A method is bound to the object it is read from.
ReadMethod == \E p \in Referents :
  \E k \in DOMAIN At(p) :
    /\ IsMethod(p, k)
    /\ Becomes(SetLocal(ACC, At(p)[k]),
               [heap EXCEPT ![At(p)[k]].slots[THIS] = p])

\* An object at hand gets what a local holds (SETARG, SETRET, SETELEM).
Write == \E p \in Referents, j \in Locals :
           \E k \in DOMAIN At(p) :
             Becomes(frames, [heap EXCEPT ![p].slots[k] = cur[j]])

\* A new object in the accumulator.
Fresh    == Refs \ Reach(frames, heap)
Empty(n) == [i \in 1 .. n |-> None]
Create(kind, n) ==
  \E new \in Fresh :
    Becomes(SetLocal(ACC, new),
            [heap EXCEPT ![new] = [kind |-> kind, slots |-> Empty(n)]])
NewFunc  == Create("FUNC", FUNC_SLOTS)
NewStr   == Create("STR", 0)
NewArr   == \E n \in ARR_SIZES : Create("ARR", n)

\* A new object with its method functions in its last members.
NewObj == \E l \in OBJ_LAYOUTS, new \in Fresh :
  \E method \in [1 .. l.methods -> Fresh \ {new}] :
    LET members == [i \in 1 .. l.data + l.methods |->
                      IF i <= l.data THEN None ELSE method[i - l.data]]
    IN  /\ \A i, j \in 1 .. l.methods : method[i] = method[j] => i = j
        /\ Becomes(SetLocal(ACC, new),
                   [p \in Refs |->
                      IF p = new THEN [kind |-> "OBJ", slots |-> members]
                      ELSE IF \E i \in 1 .. l.methods : p = method[i]
                      THEN [kind |-> "FUNC", slots |-> Empty(FUNC_SLOTS)]
                      ELSE heap[p]])

Call ==
  /\ cur[ACC] # None
  /\ heap[cur[ACC]].kind = "FUNC"
  /\ Becomes(Append(frames, [i \in RootIdx |->
                               IF i = CALLEE THEN cur[ACC] ELSE None]), heap)

Return == top > 1 /\ Becomes(Front(frames), heap)

\* Memory is rearranged: the program cannot tell.
Rearrange == Becomes(frames, heap)

\* The process may end at any instruction, normally or not.
End == ended' = TRUE /\ UNCHANGED <<frames, heap>>

Init ==
  /\ \E main \in Refs :
       /\ frames = <<[i \in RootIdx |-> IF i = CALLEE THEN main ELSE None]>>
       /\ heap[main] = [kind |-> "FUNC", slots |-> Empty(FUNC_SLOTS)]
  /\ ended = FALSE

Next ==
  /\ ~ended
  /\ \/ Rearrange \/ End
     \/ Assign \/ Read \/ ReadMethod \/ Write \/ Call \/ Return
     \/ NewFunc \/ NewStr \/ NewArr \/ NewObj

Spec == Init /\ [][Next]_vars
=============================================================================
