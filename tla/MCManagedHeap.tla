--------------------------- MODULE MCManagedHeap ---------------------------
(* Small instances of ManagedHeap for TLC. *)
EXTENDS ManagedHeap, TLC

\* Registers are interchangeable.
RegisterSymmetry == Permutations(Registers)

=============================================================================
