-------------------------- MODULE MCRunOperations --------------------------
(* RunOperations for TLC: commands are interchangeable.                     *)
EXTENDS RunOperations, TLC

Symmetry == Permutations(Calls)

====
