---------------------------- MODULE MachineView ----------------------------
(***************************************************************************)
(* The object graph that a state of the machine stands for, and the claim  *)
(* that the machine implements ObjectGraph.                                *)
(***************************************************************************)
EXTENDS Machine

\* A pointer to a forwarded leftover stands for the object's new place.
Follow(p) == IF p # nullptr /\ mem[p].relocated_ptr # nullptr
             THEN mem[p].relocated_ptr ELSE p
Seen(g)   == [i \in DOMAIN g |-> Follow(g[i])]

SeenFrames == [f \in DOMAIN state_stack |-> Seen(state_stack[f])]
SeenHeap   == [a \in Addr |-> [kind |-> mem[a].kind, slots |-> Seen(mem[a].slots)]]

View == INSTANCE ObjectGraph WITH Refs <- Addr, frames <- SeenFrames,
                                  heap <- SeenHeap, ended <- (status # "run")

\* The program cannot tell that there is a collector: through every mark,
\* move, rebind and reset, nested cleanups included, the graph of the objects
\* it can reach stays what it was, and each instruction does to that graph
\* what it would do without regions and addresses.
CollectorInvisible == View!Spec
=============================================================================
