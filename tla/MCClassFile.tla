---------------------------- MODULE MCClassFile ----------------------------
(* Small instances of ClassFile for TLC. *)
EXTENDS ClassFile

\* The names but that of the entry point are told apart by nothing.
Symmetry == Permutations(IDENTIFIERS \ {ENTRY_FUNC_NAME})
=============================================================================
