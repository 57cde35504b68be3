----------------------------- MODULE MCMachine -----------------------------
(* Small instances of Machine for TLC. *)
EXTENDS MachineView

NoLayouts == {}

\* An object with one method, and one that no region has room for.
MethodOrHuge == {[data |-> 0, methods |-> 1], [data |-> 9, methods |-> 0]}

\* The only thread keeps running as long as the process does.
FairSpec == Spec /\ WF_vars(AllocStep \/ GC)
=============================================================================
