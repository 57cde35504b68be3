---------------------------- MODULE ControlFlow ----------------------------
(***************************************************************************)
(* The control-flow graph of the compiler's intermediate representation    *)
(* (jit/ir/graph): basic blocks, their successors and predecessors.  What  *)
(* the blocks compute is the subject of Instructions.                      *)
(*                                                                         *)
(* Blocks are wired one after the other.  A bound names them: a block that *)
(* is referred to for the first time gets the next number.  So TLC builds  *)
(* every graph of at most MAX_BLOCKS blocks that an entry block reaches,   *)
(* up to the names of its blocks.                                          *)
(***************************************************************************)
EXTENDS Integers, Sequences, FiniteSets, SequencesExt

CONSTANTS MAX_BLOCKS,       \* bound: blocks of a graph, the end block included
          SELF_EDGES        \* bound: may a block be its own successor

ASSUME BlocksAssumption == MAX_BLOCKS \in Nat \ {0, 1} /\ SELF_EDGES \in BOOLEAN

VARIABLES succs, preds      \* BasicBlock::succs_, preds_

cfgVars == <<succs, preds>>

NULL == -1                  \* nullptr, where a block or a loop is meant
OK   == "ok"                \* no assertion failed so far

END_BLOCK_IDX   == 0
ENTRY_BLOCK_IDX == 1
BlockIds == 0 .. MAX_BLOCKS - 1

\* The blocks of the graph: the end block, which its constructor makes, the
\* entry block, and the ones referred to so far.
Blocks == {END_BLOCK_IDX, ENTRY_BLOCK_IDX} \cup UNION {ToSet(succs[b]) : b \in BlockIds}

\* Every block but the end block has its successors.
Wired == \A b \in Blocks \ {END_BLOCK_IDX} : succs[b] # <<>>

\* The block whose turn it is, and what it may branch to when the blocks of
\* bs are known: the entry block has no predecessor.
Current == CHOOSE b \in Blocks \ {END_BLOCK_IDX} :
             succs[b] = <<>> /\ \A c \in 1 .. b - 1 : succs[c] # <<>>
Targets(bs) == {t \in BlockIds \ {ENTRY_BLOCK_IDX} :
                  /\ t = END_BLOCK_IDX \/ t - 1 \in bs
                  /\ SELF_EDGES \/ t # Current}

Link(b, ts) ==
  /\ succs' = [succs EXCEPT ![b] = ts]
  /\ preds' = [t \in BlockIds |-> IF t \in ToSet(ts) THEN Append(preds[t], b)
                                                     ELSE preds[t]]

SetSucc == ~Wired /\ \E t \in Targets(Blocks) : Link(Current, <<t>>)

SetTrueFalseSuccs ==
  ~Wired /\ \E t \in Targets(Blocks) :
              \E f \in Targets(Blocks \cup {t}) \ {t} : Link(Current, <<t, f>>)

CfgInit == /\ succs = [b \in BlockIds |-> <<>>]
           /\ preds = [b \in BlockIds |-> <<>>]

----------------------------------------------------------------------------
(* Reference definitions: paths and dominance *)

\* The blocks that can be reached from b without entering a block of cut.
ReachableAvoiding(b, cut) ==
  LET Step(bs) == bs \cup (UNION {ToSet(succs[x]) : x \in bs} \ cut)
      Within[n \in 0 .. MAX_BLOCKS] ==
        IF n = 0 THEN {b} ELSE Step(Within[n - 1])
  IN  Within[MAX_BLOCKS]

Reaches(b, c) == c \in UNION {ReachableAvoiding(s, {}) : s \in ToSet(succs[b])}

Edges == UNION {{<<b, s>> : s \in ToSet(succs[b])} : b \in Blocks}

\* The pairs <<d, b>> of different blocks such that every path from the entry
\* block to b goes through d.
Dominance ==
  LET bs == Blocks
      others(d) == IF d = ENTRY_BLOCK_IDX THEN {}
                   ELSE ReachableAvoiding(ENTRY_BLOCK_IDX, {d})
  IN  UNION {{<<d, b>> : b \in bs \ (others(d) \cup {d})} : d \in bs}
=============================================================================
